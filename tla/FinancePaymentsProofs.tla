----------------------- MODULE FinancePaymentsProofs -----------------------
(***************************************************************************)
(* Proofs about FinancePayments: type correctness, that a paid row names a *)
(* transaction that moved its money, and that books and rows agree.        *)
(***************************************************************************)
EXTENDS FinancePayments, TLAPS

Step(p) ==
    \/ \E d \in Donations : \E n \in Amounts[d] : FindOverlapping(p, d, n)
    \/ \E x \in Payments, a \in Accounts : \E n \in Amounts[x], s \in DOMAIN From(x) :
           ReadRow(p, x, s, n, a)
    \/ \E s \in {"PENDING", "CANCELLED"} : ReadRows(p, s)
    \/ CheckFunds(p)
    \/ Pay(p)
    \/ UndoPayment(p)
    \/ SaveRow(p)
    \/ Fail(p)

Draft == [id: Payments, row: Row]

-----------------------------------------------------------------------------
(* Steps as facts: what each of them does to the books, the rows and the work *)

\* Nothing happens to the ledger.
Still == UNCHANGED <<book, balance, reversed, kept, serial>>

\* The request takes a set of changed aggregates into memory.
Takes(p, l, aggs) ==
    /\ pc[p] = "idle" /\ pc' = [pc EXCEPT ![p] = l]
    /\ work' = [work EXCEPT ![p] = aggs]
    /\ tangled' = tangled \cup {x \in {g.id : g \in aggs} : Busy(x)}
    /\ row' = row /\ Still /\ faults' = faults

\* The request ends without saving.
Leaves(p) ==
    /\ pc[p] # "idle" /\ pc' = [pc EXCEPT ![p] = "idle"]
    /\ work' = [work EXCEPT ![p] = {}]
    /\ account' = [account EXCEPT ![p] = NoAccount]
    /\ row' = row /\ Still

\* It gives up before the money has moved.
Gives(p) == Leaves(p) /\ pc[p] # "save" /\ tangled' = tangled /\ faults' = faults

StatusType == DonationStatus \cup ExpenseStatus \cup EarningStatus \cup {"none"}

\* The tables lead to statuses, and never back from a paid row but by the
\* correction of a donation.
LEMMA FromFacts ==
  ASSUME NEW x \in Payments, NEW s \in DOMAIN From(x), NEW r \in StatusType, r \in From(x)[s]
  PROVE  /\ s # "EDIT" => s \in StatusType
         /\ s \notin {"EDIT", "UPDATE_MISTAKE"} => r \notin Settled
         /\ s = "UPDATE_MISTAKE" => r = "PAID"
         /\ r \in Settled /\ s = "EDIT" => x \notin Expenses
         /\ x \in Donations => r \in DonationStatus
         /\ x \notin Donations => r # "PAID"
         /\ x \notin Donations \cup Expenses => r \in EarningStatus
  <1>1. CASE x \in Donations
    <2>1. From(x) = DonationFrom
      BY <1>1, PaymentsAssumption DEF From, PaymentsAssumption
    <2>2. x \notin Expenses /\ x \notin Earnings
      BY <1>1, PaymentsAssumption DEF PaymentsAssumption
    <2>3. s \in {"CANCELLED", "PAYMENT_FAILED", "PAY_LATER", "UPDATE_MISTAKE", "PENDING", "PAID", "EDIT"}
      BY <2>1 DEF DonationFrom
    <2>4. r \in DonationStatus
      BY <2>1, <2>3 DEF DonationFrom, DonationStatus
    <2>5. s \notin {"EDIT", "UPDATE_MISTAKE"} => r # "PAID"
      BY <2>1, <2>3 DEF DonationFrom, DonationStatus
    <2>6. s = "UPDATE_MISTAKE" => r = "PAID"
      BY <2>1 DEF DonationFrom
    <2> QED
      BY <1>1, <2>2, <2>3, <2>4, <2>5, <2>6 DEF DonationStatus, Settled, StatusType
  <1>2. CASE x \in Expenses
    <2>1. From(x) = ExpenseFrom /\ x \notin Donations
      BY <1>2, PaymentsAssumption DEF From, PaymentsAssumption
    <2>2. s \in {"SUBMITTED", "FINALIZED", "REJECTED", "SETTLED", "EDIT"}
      BY <2>1 DEF ExpenseFrom
    <2>3. r \in {"DRAFT", "SUBMITTED", "FINALIZED"}
      BY <2>1, <2>2 DEF ExpenseFrom
    <2> QED
      BY <1>2, <2>1, <2>2, <2>3 DEF ExpenseStatus, Settled, StatusType
  <1>3. CASE x \notin Donations \cup Expenses
    <2>1. From(x) = EarningFrom
      BY <1>3 DEF From, Payments
    <2> QED
      BY <1>3, <2>1 DEF EarningFrom, EarningStatus, Settled, StatusType
  <1> QED
    BY <1>1, <1>2, <1>3

\* What a request takes into memory, seen from the row as it is
Taken(l, g) ==
    /\ l = "save" /\ g.row.status \in Settled => g.row = row[g.id]
    /\ l = "save" /\ g.row.status \notin Settled =>
           (row[g.id].status \in Settled => row[g.id].ref = None)
    /\ l \in {"funds", "pay"} => row[g.id].status \notin Settled /\ g.row.status \in Settled
    /\ g.row.ref = row[g.id].ref
    /\ l = "reverse" => /\ row[g.id].status \in Settled
                        /\ g.row.status = "UPDATE_MISTAKE"

TakenAll(p, l, aggs) ==
    /\ l \in {"funds", "pay", "reverse", "save"}
    /\ aggs \subseteq Draft
    /\ \A g, h \in aggs : g.id = h.id => g = h
    /\ l # "save" => \E g \in aggs : aggs = {g}
    /\ l \in {"funds", "pay"} => account'[p] \in Accounts
    /\ account' \in [Requests -> Accounts \cup {NoAccount}]
    /\ \A q \in Requests \ {p} : account'[q] = account[q]
    /\ \A g \in aggs : Taken(l, g)

LEMMA FindOverlappingFacts ==
  ASSUME TypeOK, NEW p \in Requests, NEW d \in Donations, NEW n \in Amounts[d], FindOverlapping(p, d, n)
  PROVE  \E l, aggs : Takes(p, l, aggs) /\ TakenAll(p, l, aggs)
  <1> DEFINE g == Aggregate(d, [NoRow EXCEPT !.status = "RAISED", !.amount = n])
  <1>1. n \in Nat /\ d \in Payments
    BY PaymentsAssumption DEF PaymentsAssumption, Payments
  <1>2. g \in Draft /\ g.id = d /\ g.row.status = "RAISED" /\ g.row.ref = None
    BY <1>1 DEF Aggregate, NoRow, Draft, Row, DonationStatus, None
  <1>3. row[d].status = "none" /\ row[d].ref = None
    BY DEF FindOverlapping, NoRow
  <1>4. Takes(p, "save", {g})
    BY DEF FindOverlapping, Takes, Take, Goto, Still, book_vars
  <1> HIDE DEF g
  <1>5. TakenAll(p, "save", {g})
    BY <1>2, <1>3 DEF TakenAll, Taken, FindOverlapping, TypeOK, Settled
  <1> QED
    BY <1>4, <1>5

\* The row a command makes of the one it read
LEMMA ChangedType ==
  ASSUME TypeOK, NEW x \in Payments, NEW n \in Nat, NEW s \in StatusType \cup {"EDIT"}
  PROVE  /\ Aggregate(x, Changed(x, s, n)) \in Draft
         /\ Aggregate(x, Changed(x, s, n)).id = x
         /\ Aggregate(x, Changed(x, s, n)).row = Changed(x, s, n)
         /\ Changed(x, s, n).status = IF s = "EDIT" THEN row[x].status ELSE s
         /\ Changed(x, s, n).ref = row[x].ref
         /\ Changed(x, s, n).amount = n
         /\ s = "EDIT" /\ n = row[x].amount => Changed(x, s, n) = row[x]
  <1>1. row[x] \in Row
    BY DEF TypeOK
  <1>2. Changed(x, s, n) \in Row
    BY <1>1 DEF Changed, Row, StatusType
  <1>3. /\ Changed(x, s, n).status = IF s = "EDIT" THEN row[x].status ELSE s
        /\ Changed(x, s, n).ref = row[x].ref
        /\ Changed(x, s, n).amount = n
        /\ s = "EDIT" /\ n = row[x].amount => Changed(x, s, n) = row[x]
    BY <1>1 DEF Changed, Row
  <1> QED
    BY <1>2, <1>3 DEF Aggregate, Draft

LEMMA ReadRowFacts ==
  ASSUME TypeOK, NEW p \in Requests, NEW x \in Payments, NEW a \in Accounts, NEW n \in Amounts[x],
         NEW s \in DOMAIN From(x), ReadRow(p, x, s, n, a)
  PROVE  \E l, aggs : Takes(p, l, aggs) /\ TakenAll(p, l, aggs)
  <1> DEFINE g == Aggregate(x, Changed(x, s, n))
             l == FirstStep(x, s)
  <1>1. n \in Nat
    BY PaymentsAssumption DEF PaymentsAssumption
  <1>2. row[x].status \in From(x)[s] /\ row[x] \in Row /\ row[x].status \in StatusType
        /\ (n = row[x].amount \/ AmountOpen(x, s))
    BY DEF ReadRow, TypeOK, Row, StatusType
  <1>3. /\ s # "EDIT" => s \in StatusType
        /\ s \notin {"EDIT", "UPDATE_MISTAKE"} => row[x].status \notin Settled
        /\ s = "UPDATE_MISTAKE" => row[x].status = "PAID"
        /\ row[x].status \in Settled /\ s = "EDIT" => x \notin Expenses
        /\ x \in Donations => row[x].status \in DonationStatus
        /\ x \notin Donations => row[x].status # "PAID"
        /\ x \notin Donations \cup Expenses => row[x].status \in EarningStatus
    BY <1>2, FromFacts
  <1>4. /\ g \in Draft /\ g.id = x /\ g.row = Changed(x, s, n)
        /\ g.row.status = IF s = "EDIT" THEN row[x].status ELSE s
        /\ g.row.ref = row[x].ref
        /\ s = "EDIT" /\ n = row[x].amount => g.row = row[x]
    BY <1>1, <1>3, ChangedType
  <1>5. /\ l \in {"funds", "pay"} <=> s \in Settled
        /\ l = "reverse" <=> s = "UPDATE_MISTAKE" /\ row[x].ref # None
        /\ l \in {"funds", "pay", "reverse", "save"}
    BY DEF FirstStep, Settled
  <1>6. Takes(p, l, {g})
    BY DEF ReadRow, Takes, Take, Goto, Still, book_vars
  <1>7. l = "save" /\ g.row.status \in Settled => g.row = row[x]
    <2> SUFFICES ASSUME l = "save", g.row.status \in Settled PROVE g.row = row[x]
      OBVIOUS
    <2>1. s = "EDIT" /\ row[x].status \in Settled
      BY <1>4, <1>5
    <2>2. ~AmountOpen(x, s)
      BY <1>3, <2>1 DEF AmountOpen, Settled, DonationStatus, EarningStatus
    <2> QED
      BY <1>2, <1>4, <2>1, <2>2
  <1>8. l = "save" /\ g.row.status \notin Settled /\ row[x].status \in Settled => row[x].ref = None
    BY <1>3, <1>4, <1>5
  <1>9. l \in {"funds", "pay"} => row[x].status \notin Settled /\ g.row.status \in Settled
    BY <1>3, <1>4, <1>5 DEF Settled
  <1>10. l = "reverse" => row[x].status \in Settled /\ g.row.status = "UPDATE_MISTAKE"
    BY <1>3, <1>4, <1>5 DEF Settled
  <1>11. /\ l \in {"funds", "pay"} => account'[p] \in Accounts
         /\ \A q \in Requests \ {p} : account'[q] = account[q]
         /\ account' \in [Requests -> Accounts \cup {NoAccount}]
    BY <1>5 DEF ReadRow, TypeOK
  <1> HIDE DEF g, l
  <1>12. Taken(l, g)
    BY <1>4, <1>7, <1>8, <1>9, <1>10 DEF Taken
  <1>13. TakenAll(p, l, {g})
    BY <1>4, <1>5, <1>11, <1>12 DEF TakenAll
  <1> QED
    BY <1>6, <1>13

LEMMA ReadRowsFacts ==
  ASSUME TypeOK, NEW p \in Requests, NEW s \in {"PENDING", "CANCELLED"}, ReadRows(p, s)
  PROVE  \E l, aggs : Takes(p, l, aggs) /\ TakenAll(p, l, aggs)
  <1> DEFINE found == {d \in Donations : row[d].status \in
                           IF s = "PENDING" THEN {"RAISED"} ELSE Outstanding}
             aggs == {Aggregate(d, Changed(d, s, row[d].amount)) : d \in found}
  <1>1. Takes(p, "save", aggs)
    BY DEF ReadRows, Takes, Take, Goto, Still, book_vars
  <1>2. \A d \in found : /\ d \in Payments /\ row[d].amount \in Nat
                         /\ row[d].status \notin Settled
    BY DEF Payments, TypeOK, Row, Outstanding, Settled
  <1>3. s \in StatusType /\ s # "EDIT" /\ s \notin Settled
    BY DEF StatusType, DonationStatus, Settled
  <1>4. \A d \in found : /\ Aggregate(d, Changed(d, s, row[d].amount)) \in Draft
                         /\ Aggregate(d, Changed(d, s, row[d].amount)).id = d
                         /\ Aggregate(d, Changed(d, s, row[d].amount)).row.status = s
                         /\ Aggregate(d, Changed(d, s, row[d].amount)).row.ref = row[d].ref
    BY <1>2, <1>3, ChangedType
  <1> HIDE DEF found
  <1>5. \A g \in aggs : g \in Draft /\ g.id \in found /\ g.row.status \notin Settled
                    /\ g.row.ref = row[g.id].ref
    BY <1>3, <1>4
  <1>6. \A g, h \in aggs : g.id = h.id => g = h
    BY <1>4
  <1> HIDE DEF aggs
  <1>7. \A g \in aggs : Taken("save", g)
    BY <1>2, <1>5 DEF Taken
  <1>8. account' = account /\ account' \in [Requests -> Accounts \cup {NoAccount}]
    BY DEF ReadRows, TypeOK
  <1>9. TakenAll(p, "save", aggs)
    BY <1>5, <1>6, <1>7, <1>8 DEF TakenAll
  <1> QED
    BY <1>1, <1>9

\* The transaction for an aggregate is posted and linked to it.
Posts(p, a, g, h, t) ==
    /\ pc[p] = "pay" /\ work[p] = {g} /\ g \in Draft /\ a \in Accounts
    /\ t \in Txn /\ t.id = serial /\ t.ref = serial /\ t.of = None /\ t.for = g.id
    /\ t.amount = g.row.amount /\ t.type = IF g.id \in Expenses THEN "OUT" ELSE "IN"
    /\ h \in Draft /\ h.id = g.id /\ h.row.status = g.row.status
    /\ h.row.amount = g.row.amount /\ h.row.ref = serial
    /\ balance[a] + Ledger!Change(t) >= 0
    /\ book' = [book EXCEPT ![a] = @ \cup {t}]
    /\ balance' = [balance EXCEPT ![a] = @ + Ledger!Change(t)]
    /\ reversed' = reversed /\ kept' = kept
    /\ row' = row /\ pc' = [pc EXCEPT ![p] = "save"] /\ work' = [work EXCEPT ![p] = {h}]
    /\ account' = account /\ serial' = serial + 1 /\ tangled' = tangled /\ faults' = faults

LEMMA PayFacts ==
  ASSUME TypeOK, IdsUnique, NEW p \in Requests, ShapeOf(p), Pay(p)
  PROVE  \/ Gives(p)
         \/ \E a, g, h, t : Posts(p, a, g, h, t)
  <1>1. CASE Leave(p) /\ UNCHANGED <<book_vars, row, serial, tangled, faults>>
    BY <1>1 DEF Pay, Leave, Gives, Leaves, Goto, Still, book_vars
  <1>2. ASSUME NEW g \in work[p], Ledger!Post(account[p], Payment(g)),
               work' = [work EXCEPT ![p] = {Linked(g)}], serial' = serial + 1, Goto(p, "save"),
               UNCHANGED <<row, account, tangled, faults>>
        PROVE  Posts(p, account[p], g, Linked(g), Payment(g))
    <2>1. pc[p] = "pay" /\ work[p] = {g} /\ account[p] \in Accounts
      BY DEF Pay, ShapeOf
    <2>2. g \in Draft /\ g.id \in Payments /\ g.row \in Row /\ serial \in Nat
      BY DEF TypeOK, Draft
    <2>3. Payment(g) \in Txn
      BY <2>2 DEF Payment, Txn, Row, None
    <2>4. /\ Linked(g) \in Draft /\ Linked(g).id = g.id /\ Linked(g).row.status = g.row.status
          /\ Linked(g).row.amount = g.row.amount /\ Linked(g).row.ref = serial
      <3>1. [g.row EXCEPT !.ref = serial] \in Row
        BY <2>2 DEF Row
      <3>2. Linked(g) = [g EXCEPT !.row = [g.row EXCEPT !.ref = serial]]
        BY DEF Linked
      <3> QED
        BY <2>2, <3>1, <3>2 DEF Draft, Row
    <2>5. /\ Payment(g).id = serial /\ Payment(g).ref = serial /\ Payment(g).of = None
          /\ Payment(g).for = g.id /\ Payment(g).amount = g.row.amount
          /\ Payment(g).type = IF g.id \in Expenses THEN "OUT" ELSE "IN"
      BY DEF Payment
    <2>6. /\ balance[account[p]] + Ledger!Change(Payment(g)) >= 0
          /\ book' = [book EXCEPT ![account[p]] = @ \cup {Payment(g)}]
          /\ balance' = [balance EXCEPT ![account[p]] = @ + Ledger!Change(Payment(g))]
          /\ reversed' = reversed /\ kept' = kept
      BY <1>2 DEF Ledger!Post, Ledger!Enter
    <2> QED
      BY <1>2, <2>1, <2>2, <2>3, <2>4, <2>5, <2>6 DEF Posts, Goto
  <1> QED
    BY <1>1, <1>2 DEF Pay

\* A transaction an aggregate named is reversed, and the name forgotten.
Undoes(p, a, g, h, t, u) ==
    /\ pc[p] = "reverse" /\ work[p] = {g} /\ g \in Draft /\ a \in Accounts
    /\ t \in book[a] /\ t.ref = g.row.ref /\ t.id \notin reversed[a] /\ t.of = None
    /\ u \in Txn /\ u.id = serial /\ u.of = t.id
    /\ h \in Draft /\ h.id = g.id /\ h.row.status = g.row.status /\ h.row.ref = None
    /\ balance[a] + Ledger!Change(u) >= 0
    /\ book' = [book EXCEPT ![a] = @ \cup {u}]
    /\ balance' = [balance EXCEPT ![a] = @ + Ledger!Change(u)]
    /\ reversed' = [reversed EXCEPT ![a] = @ \cup {t.id}] /\ kept' = kept
    /\ row' = row /\ pc' = [pc EXCEPT ![p] = "save"] /\ work' = [work EXCEPT ![p] = {h}]
    /\ account' = account /\ serial' = serial + 1 /\ tangled' = tangled /\ faults' = faults

LEMMA UndoFacts ==
  ASSUME TypeOK, IdsUnique, NEW p \in Requests, ShapeOf(p), UndoPayment(p)
  PROVE  \/ Gives(p)
         \/ \E a, g, h, t, u : Undoes(p, a, g, h, t, u)
  <1>1. CASE Leave(p) /\ UNCHANGED <<book_vars, row, serial, tangled, faults>>
    BY <1>1 DEF UndoPayment, Leave, Gives, Leaves, Goto, Still, book_vars
  <1>2. ASSUME NEW g \in work[p], NEW a \in Accounts, NEW t \in Open(a, g.row.ref),
               Ledger!Reverse(a, Reversal(t), t),
               work' = [work EXCEPT ![p] = {Reset(g)}], serial' = serial + 1, Goto(p, "save"),
               UNCHANGED <<row, account, tangled, faults>>
        PROVE  Undoes(p, a, g, Reset(g), t, Reversal(t))
    <2>1. pc[p] = "reverse" /\ work[p] = {g}
      BY DEF UndoPayment, ShapeOf
    <2>2. g \in Draft /\ g.id \in Payments /\ g.row \in Row /\ serial \in Nat
      BY DEF TypeOK, Draft
    <2>3. t \in book[a] /\ t.ref = g.row.ref /\ t.id \notin reversed[a] /\ t.of = None /\ t \in Txn
      BY DEF Open, TypeOK
    <2>4. Reversal(t) \in Txn /\ Reversal(t).id = serial /\ Reversal(t).of = t.id
      BY <2>2, <2>3 DEF Reversal, Txn
    <2>5. /\ Reset(g) \in Draft /\ Reset(g).id = g.id /\ Reset(g).row.status = g.row.status
          /\ Reset(g).row.ref = None
      <3>1. [g.row EXCEPT !.ref = None] \in Row
        BY <2>2 DEF Row, None
      <3>2. Reset(g) = [g EXCEPT !.row = [g.row EXCEPT !.ref = None]]
        BY DEF Reset
      <3> QED
        BY <2>2, <3>1, <3>2 DEF Draft, Row
    <2>6. /\ balance[a] + Ledger!Change(Reversal(t)) >= 0
          /\ book' = [book EXCEPT ![a] = @ \cup {Reversal(t)}]
          /\ balance' = [balance EXCEPT ![a] = @ + Ledger!Change(Reversal(t))]
          /\ reversed' = [reversed EXCEPT ![a] = @ \cup {t.id}] /\ kept' = kept
      BY <1>2 DEF Ledger!Reverse, Ledger!Enter
    <2> QED
      BY <1>2, <2>1, <2>2, <2>3, <2>4, <2>5, <2>6 DEF Undoes, Goto
  <1> QED
    BY <1>1, <1>2 DEF UndoPayment

\* The funds were there; nothing has changed but the place.
Checks(p) ==
    /\ pc[p] = "funds" /\ pc' = [pc EXCEPT ![p] = "pay"]
    /\ UNCHANGED <<work, account, row, tangled, faults>> /\ Still

\* One row is written.
Writes(p, g) ==
    /\ pc[p] = "save" /\ g \in work[p] /\ g \in Draft
    /\ row' = [row EXCEPT ![g.id] = g.row]
    /\ work' = [work EXCEPT ![p] = @ \ {g}]
    /\ pc' = IF work[p] = {g} THEN [pc EXCEPT ![p] = "idle"] ELSE pc
    /\ account' = IF work[p] = {g} THEN [account EXCEPT ![p] = NoAccount] ELSE account
    /\ Still /\ tangled' = tangled /\ faults' = faults

\* A request fails on its rows.
Fails(p) ==
    /\ Leaves(p)
    /\ tangled' = tangled \cup {g.id : g \in work[p]}
    /\ faults < MaxFaults /\ faults' = faults + 1

\* What a step of a request is
LEMMA StepFacts ==
  ASSUME TypeOK, IdsUnique, NEW p \in Requests, ShapeOf(p), Step(p)
  PROVE  \/ \E l, aggs : Takes(p, l, aggs) /\ TakenAll(p, l, aggs)
         \/ Gives(p)
         \/ Fails(p)
         \/ Checks(p)
         \/ \E a, g, h, t : Posts(p, a, g, h, t)
         \/ \E a, g, h, t, u : Undoes(p, a, g, h, t, u)
         \/ \E g : Writes(p, g)
  <1>1. CASE CheckFunds(p)
    BY <1>1 DEF CheckFunds, Leave, Gives, Leaves, Checks, Goto, Still, book_vars
  <1>2. CASE SaveRow(p)
    <2>1. PICK g \in work[p] :
            /\ row' = [row EXCEPT ![g.id] = g.row]
            /\ work' = [work EXCEPT ![p] = @ \ {g}]
            /\ IF work[p] = {g}
               THEN Goto(p, "idle") /\ account' = [account EXCEPT ![p] = NoAccount]
               ELSE UNCHANGED <<pc, account>>
      BY <1>2 DEF SaveRow
    <2>2. g \in Draft
      BY DEF TypeOK, Draft
    <2>3. Writes(p, g)
      BY <1>2, <2>1, <2>2 DEF SaveRow, Writes, Goto, Still, book_vars
    <2> QED
      BY <2>3
  <1>3. CASE Fail(p)
    BY <1>3 DEF Fail, Leave, Leaves, Fails, Goto, Still, book_vars
  <1> QED
    BY <1>1, <1>2, <1>3, FindOverlappingFacts, ReadRowFacts, ReadRowsFacts, PayFacts, UndoFacts DEF Step

-----------------------------------------------------------------------------
(* Types, ids and shapes *)

Does(p) ==
    \/ \E l, aggs : Takes(p, l, aggs) /\ TakenAll(p, l, aggs)
    \/ Gives(p)
    \/ Fails(p)
    \/ Checks(p)
    \/ \E a, g, h, t : Posts(p, a, g, h, t)
    \/ \E a, g, h, t, u : Undoes(p, a, g, h, t, u)
    \/ \E g : Writes(p, g)

LEMMA TypeStep ==
  ASSUME TypeOK, NEW p \in Requests, Does(p)
  PROVE  TypeOK'
  <1>1. ASSUME NEW l, NEW aggs, Takes(p, l, aggs), TakenAll(p, l, aggs) PROVE TypeOK'
    <2>1. {g.id : g \in aggs} \subseteq Payments
      BY <1>1 DEF TakenAll, Draft
    <2> QED
      BY <1>1, <2>1 DEF Takes, TakenAll, Still, TypeOK, Draft
  <1>2. CASE Gives(p)
    BY <1>2 DEF Gives, Leaves, Still, TypeOK
  <1>3. CASE Fails(p)
    <2>1. {g.id : g \in work[p]} \subseteq Payments
      BY DEF TypeOK
    <2> QED
      BY <1>3, <2>1, PaymentsAssumption DEF PaymentsAssumption, Fails, Leaves, Still, TypeOK
  <1>4. CASE Checks(p)
    BY <1>4 DEF Checks, Still, TypeOK
  <1>5. ASSUME NEW a, NEW g, NEW h, NEW t, Posts(p, a, g, h, t) PROVE TypeOK'
    <2>1. Ledger!Change(t) \in Int /\ balance[a] + Ledger!Change(t) \in Nat
      BY <1>5 DEF Posts, TypeOK, Ledger!Change, Txn
    <2> QED
      BY <1>5, <2>1 DEF Posts, TypeOK, Draft
  <1>6. ASSUME NEW a, NEW g, NEW h, NEW t, NEW u, Undoes(p, a, g, h, t, u) PROVE TypeOK'
    <2>1. Ledger!Change(u) \in Int /\ balance[a] + Ledger!Change(u) \in Nat
      BY <1>6 DEF Undoes, TypeOK, Ledger!Change, Txn
    <2>2. t.id \in Nat
      BY <1>6 DEF Undoes, TypeOK, Txn
    <2> QED
      BY <1>6, <2>1, <2>2 DEF Undoes, TypeOK, Draft
  <1>7. ASSUME NEW g, Writes(p, g) PROVE TypeOK'
    BY <1>7 DEF Writes, Still, TypeOK, Draft
  <1> QED
    BY <1>1, <1>2, <1>3, <1>4, <1>5, <1>6, <1>7 DEF Does

LEMMA IdsStep ==
  ASSUME TypeOK, IdsUnique, NEW p \in Requests, Does(p)
  PROVE  IdsUnique'
  <1>1. CASE Still
    BY <1>1 DEF Still, IdsUnique
  <1>2. ASSUME NEW a, NEW g, NEW h, NEW t, Posts(p, a, g, h, t) PROVE IdsUnique'
    <2>1. /\ a \in Accounts /\ t.id = serial /\ t.ref = serial
          /\ \A b \in Accounts : book'[b] = IF b = a THEN book[b] \cup {t} ELSE book[b]
          /\ reversed' = reversed /\ serial' = serial + 1
      BY <1>2 DEF Posts, TypeOK
    <2>2. serial \in Nat /\ serial > 0 /\ serial' > 0 /\ t.of = None
      BY <1>2, <2>1 DEF Posts, IdsUnique, TypeOK
    <2>3. \A b \in Accounts : \A v \in book'[b] : v \in book[b] \/ v = t
      BY <2>1
    <2>4. \A b \in Accounts : \A v \in book'[b] :
              v.id \in 1 .. serial' - 1 /\ (v.of = None => v.ref = v.id)
      BY <2>1, <2>2, <2>3 DEF IdsUnique
    <2>5. \A b, c \in Accounts : \A v \in book'[b], w \in book'[c] : v.id = w.id => v = w
      BY <2>1, <2>2, <2>3 DEF IdsUnique
    <2>6. \A b \in Accounts : reversed'[b] \subseteq 1 .. serial' - 1
      BY <2>1, <2>2 DEF IdsUnique
    <2> QED
      BY <2>2, <2>4, <2>5, <2>6 DEF IdsUnique
  <1>3. ASSUME NEW a, NEW g, NEW h, NEW t, NEW u, Undoes(p, a, g, h, t, u) PROVE IdsUnique'
    <2>1. /\ a \in Accounts /\ u.id = serial /\ u.of = t.id /\ t \in book[a]
          /\ \A b \in Accounts : book'[b] = IF b = a THEN book[b] \cup {u} ELSE book[b]
          /\ \A b \in Accounts : reversed'[b] = IF b = a THEN reversed[b] \cup {t.id} ELSE reversed[b]
          /\ serial' = serial + 1
      BY <1>3 DEF Undoes, TypeOK
    <2>2. serial \in Nat /\ serial > 0 /\ serial' > 0 /\ t.id \in 1 .. serial - 1 /\ u.of # None
      BY <2>1 DEF IdsUnique, TypeOK, None
    <2>3. \A b \in Accounts : \A v \in book'[b] : v \in book[b] \/ v = u
      BY <2>1
    <2>4. \A b \in Accounts : \A v \in book'[b] :
              v.id \in 1 .. serial' - 1 /\ (v.of = None => v.ref = v.id)
      BY <2>1, <2>2, <2>3 DEF IdsUnique
    <2>5. \A b, c \in Accounts : \A v \in book'[b], w \in book'[c] : v.id = w.id => v = w
      BY <2>1, <2>2, <2>3 DEF IdsUnique
    <2>6. \A b \in Accounts : reversed'[b] \subseteq 1 .. serial' - 1
      <3> TAKE b \in Accounts
      <3>1. reversed[b] \subseteq 1 .. serial - 1
        BY DEF IdsUnique
      <3>2. reversed'[b] \subseteq 1 .. serial - 1
        BY <2>1, <2>2, <3>1
      <3> QED
        BY <2>1, <2>2, <3>2
    <2> QED
      BY <2>2, <2>4, <2>5, <2>6 DEF IdsUnique
  <1> QED
    BY <1>1, <1>2, <1>3 DEF Does, Takes, Gives, Leaves, Fails, Checks, Writes

\* Transactions only come, so what was moved stays moved.
LEMMA MovedStays ==
  ASSUME TypeOK, NEW p \in Requests, Does(p), NEW x, NEW r, Moved(x, r)
  PROVE  Moved(x, r)'
  <1>1. \A a \in Accounts : book[a] \subseteq book'[a]
    BY DEF Does, Takes, Gives, Leaves, Fails, Checks, Writes, Posts, Undoes, Still, TypeOK
  <1> QED
    BY <1>1 DEF Moved

\* A step of one request leaves the memory of the others alone.
LEMMA OtherFrame ==
  ASSUME TypeOK, NEW p \in Requests, Does(p), NEW q \in Requests, q # p
  PROVE  pc'[q] = pc[q] /\ work'[q] = work[q] /\ account'[q] = account[q]
  BY DEF Does, Takes, Gives, Leaves, Fails, Checks, Writes, Posts, Undoes, TakenAll, TypeOK

\* What was moved stays moved, and the row a request saves was moved.
LEMMA ShapeStep ==
  ASSUME TypeOK, IdsUnique, PaidIsMoved, NEW p \in Requests, NEW q \in Requests, ShapeOf(q), Does(p)
  PROVE  ShapeOf(q)'
  <1>1. CASE q # p
    <2>1. pc'[q] = pc[q] /\ work'[q] = work[q] /\ account'[q] = account[q]
      BY <1>1, OtherFrame
    <2>2. \A g \in work[q] : Moved(g.id, g.row) => Moved(g.id, g.row)'
      BY MovedStays
    <2> QED
      BY <2>1, <2>2 DEF ShapeOf
  <1>2. CASE q = p
    <2>1. ASSUME NEW l, NEW aggs, Takes(p, l, aggs), TakenAll(p, l, aggs) PROVE ShapeOf(p)'
      <3>1. work'[p] = aggs /\ pc'[p] = l /\ row' = row
        BY <2>1 DEF Takes, TypeOK
      <3>2. \A g \in aggs : g.id \in Payments /\ Taken(l, g)
        BY <2>1 DEF TakenAll, Draft
      <3>3. \A g \in aggs : l = "save" /\ g.row.status \in Settled => Moved(g.id, g.row)
        BY <3>2 DEF Taken, PaidIsMoved
      <3>4. \A g \in aggs : Moved(g.id, g.row) => Moved(g.id, g.row)'
        BY MovedStays
      <3>5. \A g \in aggs : l = "reverse" => g.row.status = "UPDATE_MISTAKE"
        BY <3>2 DEF Taken
      <3>6. \A g \in aggs : l \in {"funds", "pay"} => g.row.status \in Settled
        BY <3>2 DEF Taken
      <3>7. /\ l # "idle"
            /\ l \in {"funds", "pay"} => account'[p] \in Accounts
            /\ l \in {"funds", "pay", "reverse"} => \E g \in aggs : aggs = {g}
        BY <2>1 DEF TakenAll
      <3>8. (pc[p] \in {"funds", "pay"} => \A g \in work[p] : g.row.status \in Settled)'
        BY <3>1, <3>6
      <3>9. (pc[p] = "save" => \A g \in work[p] : g.row.status \in Settled => Moved(g.id, g.row))'
        BY <3>1, <3>3, <3>4
      <3> QED
        BY <3>1, <3>5, <3>7, <3>8, <3>9 DEF ShapeOf
    <2>2. CASE Leaves(p)
      <3>1. pc'[p] = "idle" /\ work'[p] = {}
        BY <2>2 DEF Leaves, TypeOK
      <3>2. pc'[p] \notin {"funds", "pay", "reverse", "save"}
        BY <3>1
      <3> QED
        BY <1>2, <3>1, <3>2 DEF ShapeOf
    <2>3. CASE Checks(p)
      BY <1>2, <2>3 DEF Checks, TypeOK, ShapeOf
    <2>4. ASSUME NEW a, NEW g, NEW h, NEW t, Posts(p, a, g, h, t) PROVE ShapeOf(p)'
      <3>1. work'[p] = {h} /\ pc'[p] = "save"
        BY <2>4 DEF Posts, TypeOK
      <3>2. t \in book'[a] /\ a \in Accounts
        BY <2>4 DEF Posts, TypeOK
      <3>3. Moved(h.id, h.row)'
        BY <2>4, <3>2 DEF Posts, Moved
      <3> QED
        BY <3>1, <3>3 DEF ShapeOf
    <2>5. ASSUME NEW a, NEW g, NEW h, NEW t, NEW u, Undoes(p, a, g, h, t, u) PROVE ShapeOf(p)'
      <3>1. work'[p] = {h} /\ pc'[p] = "save" /\ h.row.status = "UPDATE_MISTAKE"
        BY <1>2, <2>5 DEF Undoes, ShapeOf, TypeOK
      <3> QED
        BY <3>1 DEF ShapeOf, Settled
    <2>6. ASSUME NEW g, Writes(p, g) PROVE ShapeOf(p)'
      <3>1. work'[p] = work[p] \ {g} /\ pc'[p] = IF work[p] = {g} THEN "idle" ELSE "save"
        BY <2>6 DEF Writes, TypeOK
      <3>2. \A h \in work[p] : Moved(h.id, h.row) => Moved(h.id, h.row)'
        BY MovedStays
      <3> QED
        BY <1>2, <2>6, <3>1, <3>2 DEF Writes, ShapeOf
    <2> QED
      BY <1>2, <2>1, <2>2, <2>3, <2>4, <2>5, <2>6 DEF Does, Gives, Fails
  <1> QED
    BY <1>1, <1>2

LEMMA PaidStep ==
  ASSUME TypeOK, IdsUnique, PaidIsMoved, NEW p \in Requests, ShapeOf(p), Does(p)
  PROVE  PaidIsMoved'
  <1>1. \A x \in Payments : \A r : Moved(x, r) => Moved(x, r)'
    BY MovedStays
  <1>2. CASE row' = row
    BY <1>1, <1>2 DEF PaidIsMoved
  <1>3. ASSUME NEW g, Writes(p, g) PROVE PaidIsMoved'
    <2>1. g.row.status \in Settled => Moved(g.id, g.row)
      BY <1>3 DEF Writes, ShapeOf
    <2>2. \A x \in Payments : row'[x] = IF x = g.id THEN g.row ELSE row[x]
      BY <1>3 DEF Writes, TypeOK
    <2>3. ASSUME NEW x \in Payments, row'[x].status \in Settled PROVE Moved(x, row'[x])
      BY <2>1, <2>2, <2>3 DEF PaidIsMoved
    <2>4. \A x \in Payments : Moved(x, row'[x]) => \E a \in Accounts : \E t \in book'[a] :
              /\ t.for = x /\ t.ref = row'[x].ref /\ t.of = None /\ t.amount = row'[x].amount
              /\ t.type = IF x \in Expenses THEN "OUT" ELSE "IN"
      BY <1>3 DEF Moved, Writes, Still
    <2> QED
      BY <2>3, <2>4 DEF PaidIsMoved, Moved
  <1> QED
    BY <1>2, <1>3 DEF Does, Takes, Gives, Leaves, Fails, Checks, Posts, Undoes

-----------------------------------------------------------------------------
(* Rows name transactions of their own; an untangled row is in one hand *)

\* OwnRef is about the reference only, and new transactions take new ones.
LEMMA OwnStays ==
  ASSUME TypeOK, IdsUnique, NEW p \in Requests, Does(p), NEW x, NEW r, NEW r2,
         OwnRef(x, r), r.ref \in Nat, r2.ref = r.ref
  PROVE  OwnRef(x, r2)'
  <1>1. serial \in Nat /\ r.ref < serial
    BY DEF TypeOK, OwnRef
  <1>2. CASE Still
    BY <1>2 DEF Still, OwnRef
  <1>3. ASSUME NEW a, NEW g, NEW h, NEW t, Posts(p, a, g, h, t) PROVE OwnRef(x, r2)'
    <2>1. \A b \in Accounts : \A v \in book'[b] : v \in book[b] \/ v.ref = serial
      BY <1>3 DEF Posts, TypeOK
    <2> QED
      BY <1>1, <1>3, <2>1 DEF Posts, OwnRef
  <1>4. ASSUME NEW a, NEW g, NEW h, NEW t, NEW u, Undoes(p, a, g, h, t, u) PROVE OwnRef(x, r2)'
    <2>1. t.id # None
      BY <1>4 DEF Undoes, IdsUnique, None
    <2>2. \A b \in Accounts : \A v \in book'[b] : v \in book[b] \/ v.of # None
      BY <1>4, <2>1 DEF Undoes, TypeOK
    <2> QED
      BY <1>1, <1>4, <2>2 DEF Undoes, OwnRef
  <1> QED
    BY <1>2, <1>3, <1>4 DEF Does, Takes, Gives, Leaves, Fails, Checks, Writes

LEMMA RefsStep ==
  ASSUME TypeOK, IdsUnique, RefsOwn, NEW p \in Requests, Does(p)
  PROVE  RefsOwn'
  <1>1. \A x \in Payments : row[x].ref \in Nat /\ OwnRef(x, row[x])
    BY DEF RefsOwn, TypeOK, Row
  <1>2. \A q \in Requests : \A g \in work[q] : g.id \in Payments /\ g.row.ref \in Nat /\ OwnRef(g.id, g.row)
    BY DEF RefsOwn, TypeOK, Row
  <1>3. \A x \in Payments : OwnRef(x, row[x])'
    <2> TAKE x \in Payments
    <2>1. row'[x] = row[x] \/ \E g \in work[p] : g.id = x /\ row'[x] = g.row
      BY DEF Does, Takes, Gives, Leaves, Fails, Checks, Posts, Undoes, Writes, TypeOK
    <2>2. PICK r : OwnRef(x, r) /\ r.ref \in Nat /\ row'[x] = r
      BY <1>1, <1>2, <2>1
    <2>3. OwnRef(x, r)'
      BY <2>2, OwnStays
    <2> QED
      BY <2>2, <2>3 DEF OwnRef
  <1>4. \A q \in Requests : \A g \in work[q] : OwnRef(g.id, g.row)'
    BY <1>2, OwnStays
  <1>5. ASSUME NEW q \in Requests, q # p PROVE \A g \in work'[q] : OwnRef(g.id, g.row)'
    BY <1>4, <1>5, OtherFrame
  <1>6. \A g \in work'[p] : OwnRef(g.id, g.row)'
    <2>1. ASSUME NEW l, NEW aggs, Takes(p, l, aggs), TakenAll(p, l, aggs) PROVE \A g \in work'[p] : OwnRef(g.id, g.row)'
      <3>1. work'[p] = aggs /\ \A g \in aggs : g.id \in Payments /\ g.row.ref = row[g.id].ref
        BY <2>1 DEF Takes, TakenAll, Taken, Draft, TypeOK
      <3> QED
        BY <1>1, <3>1, OwnStays
    <2>2. CASE Leaves(p)
      BY <2>2 DEF Leaves, TypeOK
    <2>3. CASE Checks(p)
      BY <1>4, <2>3 DEF Checks
    <2>4. ASSUME NEW a, NEW g, NEW h, NEW t, Posts(p, a, g, h, t) PROVE OwnRef(h.id, h.row)' /\ work'[p] = {h}
      <3>1. \A b \in Accounts : \A v \in book'[b] : v \in book[b] \/ v = t
        BY <2>4 DEF Posts, TypeOK
      <3>2. \A b \in Accounts : \A v \in book[b] : v.of = None => v.ref # serial
        BY DEF IdsUnique, TypeOK
      <3>3. h.row.ref = serial /\ serial' = serial + 1 /\ serial \in Nat /\ h.id = g.id /\ t.for = g.id
        BY <2>4 DEF Posts, TypeOK
      <3>4. OwnRef(h.id, h.row)'
        BY <3>1, <3>2, <3>3 DEF OwnRef
      <3> QED
        BY <2>4, <3>4 DEF Posts, TypeOK
    <2>5. ASSUME NEW a, NEW g, NEW h, NEW t, NEW u, Undoes(p, a, g, h, t, u)
          PROVE  OwnRef(h.id, h.row)' /\ work'[p] = {h}
      <3>1. t.id # None /\ u.of # None
        BY <2>5 DEF Undoes, IdsUnique, None
      <3>2. \A b \in Accounts : \A v \in book'[b] : v \in book[b] \/ v.of # None
        BY <2>5, <3>1 DEF Undoes, TypeOK
      <3>3. \A b \in Accounts : \A v \in book[b] : v.of = None => v.ref # None
        BY DEF IdsUnique, None
      <3>4. h.row.ref = None /\ None < serial'
        BY <2>5 DEF Undoes, None, TypeOK
      <3>5. OwnRef(h.id, h.row)'
        BY <3>2, <3>3, <3>4 DEF OwnRef
      <3> QED
        BY <2>5, <3>5 DEF Undoes, TypeOK
    <2>6. ASSUME NEW g, Writes(p, g) PROVE \A k \in work'[p] : OwnRef(k.id, k.row)'
      BY <1>4, <2>6 DEF Writes, TypeOK
    <2> QED
      BY <2>1, <2>2, <2>3, <2>4, <2>5, <2>6 DEF Does, Gives, Fails
  <1> QED
    BY <1>3, <1>5, <1>6 DEF RefsOwn

LEMMA AloneStep ==
  ASSUME TypeOK, Alone, NEW p \in Requests, Does(p)
  PROVE  Alone'
  <1>1. \A q \in Requests \ {p} : work'[q] = work[q]
    BY OtherFrame
  <1>2. tangled \subseteq tangled'
    BY DEF Does, Takes, Gives, Leaves, Fails, Checks, Writes, Posts, Undoes
  <1>3. ASSUME NEW l, NEW aggs, Takes(p, l, aggs), TakenAll(p, l, aggs) PROVE Alone'
    <2>1. work'[p] = aggs /\ \A g, h \in aggs : g.id = h.id => g = h
      BY <1>3 DEF Takes, TakenAll, TypeOK
    <2>2. \A g \in aggs : \A q \in Requests : \A h \in work[q] : g.id = h.id => g.id \in tangled'
      BY <1>3 DEF Takes, Busy
    <2> QED
      BY <1>1, <1>2, <2>1, <2>2 DEF Alone
  <1>4. CASE Leaves(p) \/ Checks(p) \/ \E g : Writes(p, g)
    <2>1. \A q \in Requests : work'[q] \subseteq work[q]
      BY <1>4 DEF Leaves, Checks, Writes, TypeOK
    <2> QED
      BY <1>2, <2>1 DEF Alone
  <1>5. ASSUME NEW h, work' = [work EXCEPT ![p] = {h}], NEW g \in work[p], g.id = h.id PROVE Alone'
    <2>1. work'[p] = {h}
      BY <1>5 DEF TypeOK
    <2>2. ASSUME NEW q \in Requests, NEW k \in work'[q], k.id = h.id, h.id \notin tangled' PROVE q = p /\ k = h
      BY <1>1, <1>2, <1>5, <2>1, <2>2 DEF Alone
    <2>3. ASSUME NEW q \in Requests, NEW k \in work'[q], NEW s \in Requests, NEW j \in work'[s],
                 k.id = j.id, k.id \notin tangled', q # p, s # p
          PROVE  q = s /\ k = j
      BY <1>1, <1>2, <2>3 DEF Alone
    <2> QED
      BY <2>1, <2>2, <2>3 DEF Alone
  <1>6. ASSUME NEW a, NEW g, NEW h, NEW t, Posts(p, a, g, h, t) PROVE Alone'
    <2>1. g \in work[p] /\ g.id = h.id /\ work' = [work EXCEPT ![p] = {h}]
      BY <1>6 DEF Posts
    <2> QED
      BY <1>5, <2>1
  <1>7. ASSUME NEW a, NEW g, NEW h, NEW t, NEW u, Undoes(p, a, g, h, t, u) PROVE Alone'
    <2>1. g \in work[p] /\ g.id = h.id /\ work' = [work EXCEPT ![p] = {h}]
      BY <1>7 DEF Undoes
    <2> QED
      BY <1>5, <2>1
  <1> QED
    BY <1>3, <1>4, <1>6, <1>7 DEF Does, Gives, Fails

-----------------------------------------------------------------------------
(* Books and rows *)

\* The last part of IInv
HandOK == \A q \in Requests : \A g \in work[q] : g.id \notin tangled => InHand(q, g)

LEMMA StandingPost ==
  ASSUME TypeOK, IdsUnique, NEW p \in Requests, NEW a, NEW g, NEW h, NEW t, Posts(p, a, g, h, t), NEW x
  PROVE  Standing(x)' = IF x = g.id THEN Standing(x) \cup {t} ELSE Standing(x)
  <1>1. /\ a \in Accounts /\ t.for = g.id /\ t.of = None /\ reversed' = reversed
        /\ \A b \in Accounts : book'[b] = IF b = a THEN book[b] \cup {t} ELSE book[b]
    BY DEF Posts, TypeOK
  <1>2. \A b \in Accounts : t.id \notin reversed[b]
    BY DEF Posts, IdsUnique, TypeOK
  <1>3. UNION {book'[b] : b \in Accounts} = (UNION {book[b] : b \in Accounts}) \cup {t}
    BY <1>1
  <1> QED
    BY <1>1, <1>2, <1>3 DEF Standing

LEMMA StandingUndo ==
  ASSUME TypeOK, IdsUnique, NEW p \in Requests, NEW a, NEW g, NEW h, NEW t, NEW u,
         Undoes(p, a, g, h, t, u), NEW x
  PROVE  Standing(x)' = Standing(x) \ {t}
  <1>1. /\ a \in Accounts /\ t \in book[a] /\ u.of # None
        /\ \A b \in Accounts : book'[b] = IF b = a THEN book[b] \cup {u} ELSE book[b]
        /\ \A b \in Accounts : reversed'[b] = IF b = a THEN reversed[b] \cup {t.id} ELSE reversed[b]
    <2>1. a \in Accounts /\ t \in book[a] /\ t.id # None
      BY DEF Undoes, IdsUnique, None
    <2>2. /\ u.of = t.id
          /\ book' = [book EXCEPT ![a] = @ \cup {u}]
          /\ reversed' = [reversed EXCEPT ![a] = @ \cup {t.id}]
      BY DEF Undoes
    <2> QED
      BY <2>1, <2>2 DEF TypeOK
  <1>2. UNION {book'[b] : b \in Accounts} = (UNION {book[b] : b \in Accounts}) \cup {u}
    <2>1. a \in Accounts /\ \A b \in Accounts : book'[b] = IF b = a THEN book[b] \cup {u} ELSE book[b]
      BY <1>1
    <2> QED
      BY <2>1
  <1>3. \A v \in UNION {book[b] : b \in Accounts} : v.id = t.id => v = t
    <2>1. \A b \in Accounts : \A v \in book[b] : v.id = t.id => v = t
      BY <1>1 DEF IdsUnique
    <2> QED
      BY <2>1
  <1>4. t \notin Standing(x)'
    BY <1>1 DEF Standing
  <1>5. ASSUME NEW v, v # t PROVE v \in Standing(x)' <=> v \in Standing(x)
    <2>1. v \in UNION {book[b] : b \in Accounts} => v.id # t.id
      BY <1>3, <1>5
    <2>2. v \in UNION {book[b] : b \in Accounts} =>
              ((\A b \in Accounts : v.id \notin reversed'[b]) <=> \A b \in Accounts : v.id \notin reversed[b])
      BY <1>1, <2>1
    <2>3. v = u => v \notin Standing(x)' /\ v \notin Standing(x)
      BY <1>1 DEF Standing
    <2>4. v # u => (v \in UNION {book'[b] : b \in Accounts} <=> v \in UNION {book[b] : b \in Accounts})
      BY <1>2
    <2> QED
      BY <2>2, <2>3, <2>4 DEF Standing
  <1> QED
    BY <1>4, <1>5

\* One transaction stands, and which one: the name of the row is its id.
LEMMA StandingNamed ==
  ASSUME TypeOK, IdsUnique, NEW x
  PROVE  \A t \in Standing(x) :
             /\ t.ref = t.id /\ t.id # None
             /\ \A a \in Accounts : \A u \in book[a] : u.of = None /\ u.ref = t.ref => u = t
  BY DEF Standing, IdsUnique, None

LEMMA BooksTakes ==
  ASSUME TypeOK, IdsUnique, BooksAgree, HandOK, NEW p \in Requests, ShapeOf(p),
         NEW l, NEW aggs, Takes(p, l, aggs), TakenAll(p, l, aggs)
  PROVE  BooksAgree' /\ HandOK'
  <1>1. /\ work[p] = {} /\ work'[p] = aggs /\ pc'[p] = l /\ row' = row
        /\ \A q \in Requests \ {p} : work'[q] = work[q] /\ pc'[q] = pc[q]
    BY DEF Takes, ShapeOf, TypeOK
  <1>2. tangled \subseteq tangled' /\ \A g \in aggs : Busy(g.id) => g.id \in tangled'
    BY DEF Takes
  <1>3. \A x : Standing(x)' = Standing(x)
    BY DEF Takes, Still, Standing
  <1>4. \A x \in Payments : Busy(x) => Busy(x)'
    BY <1>1 DEF Busy
  <1>5. BooksAgree'
    BY <1>1, <1>2, <1>3, <1>4 DEF BooksAgree, Agree
  <1>6. ASSUME NEW q \in Requests, q # p, NEW g \in work'[q], g.id \notin tangled' PROVE InHand(q, g)'
    <2>1. InHand(q, g)
      BY <1>1, <1>2, <1>6 DEF HandOK
    <2> QED
      BY <1>1, <1>3, <1>6, <2>1 DEF InHand, Agree
  <1>7. ASSUME NEW g \in aggs, g.id \notin tangled' PROVE InHand(p, g)'
    <2>1. g.id \in Payments /\ Agree(g.id, row[g.id]) /\ Taken(l, g)
      BY <1>2, <1>7 DEF BooksAgree, TakenAll, Draft
    <2>2. CASE l = "save" /\ g.row.status \in Settled
      BY <1>1, <1>3, <2>1, <2>2 DEF InHand, Agree, Taken
    <2>3. CASE l = "save" /\ g.row.status \notin Settled
      <3>1. row[g.id].status \notin Settled
        BY <2>1, <2>3, StandingNamed DEF Taken, Agree
      <3>2. Standing(g.id) = {}
        BY <2>1, <3>1 DEF Agree
      <3>3. Agree(g.id, g.row)'
        BY <1>3, <2>3, <3>2 DEF Agree
      <3> QED
        BY <1>1, <2>3, <3>3 DEF InHand
    <2>4. CASE l # "save"
      <3>1. l \in {"funds", "pay", "reverse"}
        BY <2>4 DEF TakenAll
      <3>2. Agree(g.id, row[g.id])'
        BY <1>1, <1>3, <2>1 DEF Agree
      <3> QED
        BY <1>1, <2>1, <2>4, <3>1, <3>2 DEF InHand, Taken
    <2> QED
      BY <2>2, <2>3, <2>4
  <1> QED
    BY <1>1, <1>5, <1>6, <1>7 DEF HandOK

LEMMA BooksLeaves ==
  ASSUME TypeOK, IdsUnique, BooksAgree, HandOK, NEW p \in Requests, Gives(p) \/ Fails(p)
  PROVE  BooksAgree' /\ HandOK'
  <1>1. /\ work'[p] = {} /\ row' = row
        /\ \A q \in Requests \ {p} : work'[q] = work[q] /\ pc'[q] = pc[q]
    BY DEF Gives, Fails, Leaves, TypeOK
  <1>2. tangled \subseteq tangled'
    BY DEF Gives, Fails
  <1>3. \A x : Standing(x)' = Standing(x)
    BY DEF Gives, Fails, Leaves, Still, Standing
  <1>4. ASSUME NEW x \in Payments, x \notin tangled', ~Busy(x)' PROVE Agree(x, row[x])
    <2>1. CASE ~Busy(x)
      BY <1>2, <1>4, <2>1 DEF BooksAgree
    <2>2. CASE Busy(x)
      <3>1. PICK g \in work[p] : g.id = x
        BY <1>1, <1>4, <2>2 DEF Busy
      <3>2. pc[p] # "save" /\ x \notin tangled
        BY <1>2, <1>4, <3>1 DEF Gives, Fails
      <3> QED
        BY <3>1, <3>2 DEF HandOK, InHand
    <2> QED
      BY <2>1, <2>2
  <1>5. BooksAgree'
    BY <1>1, <1>3, <1>4 DEF BooksAgree, Agree
  <1>6. ASSUME NEW q \in Requests, NEW g \in work'[q], g.id \notin tangled' PROVE InHand(q, g)'
    <2>1. q # p /\ InHand(q, g)
      BY <1>1, <1>2, <1>6 DEF HandOK
    <2> QED
      BY <1>1, <1>3, <1>6, <2>1 DEF InHand, Agree
  <1> QED
    BY <1>5, <1>6 DEF HandOK

LEMMA BooksChecks ==
  ASSUME TypeOK, BooksAgree, HandOK, NEW p \in Requests, Checks(p)
  PROVE  BooksAgree' /\ HandOK'
  <1>1. /\ work' = work /\ row' = row /\ tangled' = tangled
        /\ \A q \in Requests : pc'[q] = IF q = p THEN "pay" ELSE pc[q]
        /\ pc[p] = "funds"
    BY DEF Checks, TypeOK
  <1>2. \A x : Standing(x)' = Standing(x)
    BY DEF Checks, Still, Standing
  <1>3. BooksAgree'
    BY <1>1, <1>2 DEF BooksAgree, Agree, Busy
  <1>4. ASSUME NEW q \in Requests, NEW g \in work'[q], g.id \notin tangled' PROVE InHand(q, g)'
    <2>1. InHand(q, g)
      BY <1>1, <1>4 DEF HandOK
    <2>2. \A r : Agree(g.id, r) => Agree(g.id, r)'
      BY <1>2 DEF Agree
    <2>3. CASE q = p
      BY <1>1, <1>2, <2>1, <2>3 DEF InHand, Agree
    <2>4. CASE q # p
      BY <1>1, <1>2, <2>1, <2>4 DEF InHand, Agree
    <2> QED
      BY <2>3, <2>4
  <1> QED
    BY <1>3, <1>4 DEF HandOK

\* A step that gives one row's draft its transaction, or takes it away, is
\* about that row alone, and the row is in hand before and after.
LEMMA BooksOthers ==
  ASSUME TypeOK, Alone, BooksAgree, HandOK, NEW p \in Requests, NEW g, NEW h,
         work[p] = {g}, h.id = g.id, work' = [work EXCEPT ![p] = {h}], row' = row,
         pc' = [pc EXCEPT ![p] = "save"], tangled' = tangled,
         \A x \in Payments : x # g.id /\ x \notin tangled => Standing(x)' = Standing(x),
         g.id \notin tangled => Agree(h.id, h.row)'
  PROVE  BooksAgree' /\ HandOK'
  <1>1. /\ work'[p] = {h} /\ pc'[p] = "save"
        /\ \A q \in Requests \ {p} : work'[q] = work[q] /\ pc'[q] = pc[q]
    BY DEF TypeOK
  <1>2. Busy(g.id)' /\ \A x : Busy(x) => Busy(x)'
    BY <1>1 DEF Busy
  <1>3. BooksAgree'
    BY <1>2 DEF BooksAgree, Agree
  <1>4. ASSUME NEW q \in Requests, q # p, NEW k \in work'[q], k.id \notin tangled' PROVE InHand(q, k)'
    <2>1. k \in work[q] /\ InHand(q, k) /\ k.id \in Payments
      BY <1>1, <1>4 DEF HandOK, TypeOK
    <2>2. k.id # g.id
      BY <1>4, <2>1 DEF Alone
    <2>3. Standing(k.id)' = Standing(k.id)
      BY <1>4, <2>1, <2>2
    <2> QED
      BY <1>1, <1>4, <2>1, <2>3 DEF InHand, Agree
  <1>5. \A k \in work'[p] : k.id \notin tangled' => InHand(p, k)'
    BY <1>1 DEF InHand
  <1> QED
    BY <1>1, <1>3, <1>4, <1>5 DEF HandOK

LEMMA BooksPosts ==
  ASSUME TypeOK, IdsUnique, Alone, BooksAgree, HandOK, NEW p \in Requests, ShapeOf(p),
         NEW a, NEW g, NEW h, NEW t, Posts(p, a, g, h, t)
  PROVE  BooksAgree' /\ HandOK'
  <1>1. \A x \in Payments : x # g.id => Standing(x)' = Standing(x)
    BY StandingPost
  <1>2. ASSUME g.id \notin tangled PROVE Agree(h.id, h.row)'
    <2>1. g \in work[p] /\ pc[p] = "pay"
      BY DEF Posts
    <2>2. Agree(g.id, row[g.id]) /\ row[g.id].status \notin Settled
      BY <1>2, <2>1 DEF HandOK, InHand
    <2>3. Standing(g.id) = {}
      BY <2>2 DEF Agree
    <2>4. Standing(g.id)' = {t}
      BY <2>3, StandingPost
    <2>5. h.row.status \in Settled /\ h.row.ref = t.ref /\ h.id = g.id
      BY <2>1 DEF Posts, ShapeOf
    <2> QED
      BY <2>4, <2>5 DEF Agree
  <1>3. /\ work[p] = {g} /\ h.id = g.id /\ work' = [work EXCEPT ![p] = {h}] /\ row' = row
        /\ pc' = [pc EXCEPT ![p] = "save"] /\ tangled' = tangled
    BY DEF Posts
  <1> QED
    BY <1>1, <1>2, <1>3, BooksOthers

LEMMA BooksUndoes ==
  ASSUME TypeOK, IdsUnique, RefsOwn, Alone, BooksAgree, HandOK, NEW p \in Requests, ShapeOf(p),
         NEW a, NEW g, NEW h, NEW t, NEW u, Undoes(p, a, g, h, t, u)
  PROVE  BooksAgree' /\ HandOK'
  <1>1. t.for = g.id
    BY DEF Undoes, RefsOwn, OwnRef
  <1>2. \A x \in Payments : x # g.id => Standing(x)' = Standing(x)
    <2> TAKE x \in Payments
    <2> HAVE x # g.id
    <2>1. t \notin Standing(x)
      BY <1>1 DEF Standing
    <2> QED
      BY <2>1, StandingUndo
  <1>3. ASSUME g.id \notin tangled PROVE Agree(h.id, h.row)'
    <2>1. g \in work[p] /\ pc[p] = "reverse"
      BY DEF Undoes
    <2>2. Agree(g.id, row[g.id]) /\ row[g.id].status \in Settled /\ g.row.ref = row[g.id].ref
      BY <1>3, <2>1 DEF HandOK, InHand
    <2>3. PICK v \in Standing(g.id) : Standing(g.id) = {v} /\ v.ref = row[g.id].ref
      BY <2>2 DEF Agree
    <2>4. t = v
      BY <2>2, <2>3, StandingNamed DEF Undoes
    <2>5. Standing(g.id)' = {}
      BY <2>3, <2>4, StandingUndo
    <2>6. h.row.status \notin Settled /\ h.id = g.id
      BY <2>1 DEF Undoes, ShapeOf, Settled
    <2> QED
      BY <2>5, <2>6 DEF Agree
  <1>4. /\ work[p] = {g} /\ h.id = g.id /\ work' = [work EXCEPT ![p] = {h}] /\ row' = row
        /\ pc' = [pc EXCEPT ![p] = "save"] /\ tangled' = tangled
    BY DEF Undoes
  <1> QED
    BY <1>2, <1>3, <1>4, BooksOthers

LEMMA BooksWrites ==
  ASSUME TypeOK, Alone, BooksAgree, HandOK, NEW p \in Requests, NEW g, Writes(p, g)
  PROVE  BooksAgree' /\ HandOK'
  <1>1. /\ g \in work[p] /\ pc[p] = "save" /\ tangled' = tangled
        /\ work'[p] = work[p] \ {g}
        /\ \A q \in Requests \ {p} : work'[q] = work[q] /\ pc'[q] = pc[q]
        /\ work[p] # {g} => pc'[p] = pc[p]
        /\ \A x \in Payments : row'[x] = IF x = g.id THEN g.row ELSE row[x]
    BY DEF Writes, TypeOK
  <1>2. \A x : Standing(x)' = Standing(x)
    BY DEF Writes, Still, Standing
  <1>3. ASSUME NEW x \in Payments, x \notin tangled, ~Busy(x)' PROVE Agree(x, row'[x])
    <2>1. CASE x = g.id
      <3>1. Agree(g.id, g.row)
        BY <1>1, <1>3, <2>1 DEF HandOK, InHand
      <3> QED
        BY <1>1, <2>1, <3>1
    <2>2. CASE x # g.id
      <3>1. ~Busy(x)
        BY <1>1, <1>3, <2>2 DEF Busy
      <3> QED
        BY <1>1, <1>3, <2>2, <3>1 DEF BooksAgree
    <2> QED
      BY <2>1, <2>2
  <1>4. BooksAgree'
    BY <1>1, <1>2, <1>3 DEF BooksAgree, Agree
  <1>5. ASSUME NEW q \in Requests, NEW k \in work'[q], k.id \notin tangled PROVE InHand(q, k)'
    <2>1. k \in work[q] /\ InHand(q, k) /\ k.id \in Payments
      BY <1>1, <1>5 DEF HandOK, TypeOK
    <2>2. k.id # g.id
      BY <1>1, <1>5, <2>1 DEF Alone
    <2>3. row'[k.id] = row[k.id] /\ pc'[q] = pc[q]
      BY <1>1, <1>5, <2>1, <2>2
    <2> QED
      BY <1>2, <2>1, <2>3 DEF InHand, Agree
  <1> QED
    BY <1>1, <1>4, <1>5 DEF HandOK

\* A row is inserted.
LEMMA RecordStep ==
  ASSUME IInv, NEW x \in Payments, NEW n \in Amounts[x], Record(x, n)
  PROVE  IInv'
  <1> DEFINE new == [status |-> IF x \in Expenses THEN "DRAFT" ELSE "PENDING", amount |-> n, ref |-> None]
  <1>1. TypeOK /\ IdsUnique /\ RefsOwn /\ Alone /\ PaidIsMoved /\ BooksAgree
        /\ (\A p \in Requests : ShapeOf(p))
        /\ (\A p \in Requests : \A g \in work[p] : g.id \notin tangled => InHand(p, g))
    BY DEF IInv
  <1>2. /\ row[x].status = "none" /\ row[x].ref = None
        /\ UNCHANGED <<book_vars, pc, work, account, serial, tangled, faults>>
        /\ row' = [row EXCEPT ![x] = new]
    BY DEF Record, NoRow
  <1>3. n \in Nat /\ new \in Row /\ new.status \notin Settled /\ new.ref = None
    BY PaymentsAssumption DEF PaymentsAssumption, Row, ExpenseStatus, DonationStatus, Settled, None
  <1> HIDE DEF new
  <1>4. \A y \in Payments : row'[y] = IF y = x THEN new ELSE row[y]
    BY <1>1, <1>2 DEF TypeOK
  <1>5. TypeOK'
    BY <1>1, <1>2, <1>3 DEF TypeOK, book_vars
  <1>6. IdsUnique' /\ Alone'
    BY <1>1, <1>2 DEF IdsUnique, Alone, book_vars
  <1>7. RefsOwn'
    BY <1>1, <1>2, <1>3, <1>4 DEF RefsOwn, OwnRef, book_vars
  <1>8. \A p \in Requests : ShapeOf(p)'
    BY <1>1, <1>2 DEF ShapeOf, Moved, book_vars
  <1>9. PaidIsMoved'
    BY <1>1, <1>2, <1>3, <1>4 DEF PaidIsMoved, Moved, book_vars
  <1>10. \A y : Standing(y)' = Standing(y)
    BY <1>2 DEF Standing, book_vars
  <1>11. \A y \in Payments : Agree(y, row[y]) => Agree(y, row[y])'
    <2> TAKE y \in Payments
    <2> HAVE Agree(y, row[y])
    <2>1. CASE y = x
      BY <1>2, <1>3, <1>4, <1>10, <2>1 DEF Agree, Settled
    <2>2. CASE y # x
      BY <1>4, <1>10, <2>2 DEF Agree
    <2> QED
      BY <2>1, <2>2
  <1>12. BooksAgree'
    BY <1>1, <1>2, <1>11 DEF BooksAgree, Busy
  <1>13. ASSUME NEW p \in Requests, NEW g \in work'[p], g.id \notin tangled' PROVE InHand(p, g)'
    <2>1. g \in work[p] /\ g.id \in Payments /\ InHand(p, g) /\ pc'[p] = pc[p]
      BY <1>1, <1>2, <1>13 DEF TypeOK
    <2>2. CASE pc[p] = "save"
      BY <1>10, <2>1, <2>2 DEF InHand, Agree
    <2>3. CASE pc[p] # "save" /\ g.id # x
      <3>1. row'[g.id] = row[g.id]
        BY <1>4, <2>1, <2>3
      <3> QED
        BY <1>10, <2>1, <2>3, <3>1 DEF InHand, Agree
    <2>4. CASE pc[p] # "save" /\ g.id = x
      <3>1. Agree(g.id, row[g.id])' /\ row'[g.id].status \notin Settled
        BY <1>3, <1>4, <1>11, <2>1, <2>4 DEF InHand
      <3>2. pc[p] # "reverse"
        BY <1>2, <2>1, <2>4 DEF InHand, Settled
      <3> QED
        BY <2>1, <2>4, <3>1, <3>2 DEF InHand
    <2> QED
      BY <2>2, <2>3, <2>4
  <1> QED
    BY <1>5, <1>6, <1>7, <1>8, <1>9, <1>12, <1>13 DEF IInv

-----------------------------------------------------------------------------
(* The invariant and what follows from it *)

LEMMA InitInv == Init => IInv
  <1> SUFFICES ASSUME Init PROVE IInv
    OBVIOUS
  <1>1. TypeOK
    BY PaymentsAssumption DEF Init, TypeOK, PaymentsAssumption, Row, NoRow, None
  <1>2. IdsUnique /\ RefsOwn /\ Alone
    BY <1>1 DEF Init, IdsUnique, RefsOwn, OwnRef, Alone, NoRow, None
  <1>3. \A p \in Requests : ShapeOf(p)
    BY DEF Init, ShapeOf
  <1>4. \A x \in Payments : row[x].status \notin Settled
    BY DEF Init, NoRow, Settled
  <1>5. \A x : Standing(x) = {}
    BY DEF Init, Standing
  <1>6. PaidIsMoved /\ BooksAgree
    BY <1>4, <1>5 DEF PaidIsMoved, BooksAgree, Agree
  <1>7. \A p \in Requests : work[p] = {}
    BY DEF Init
  <1> QED
    BY <1>1, <1>2, <1>3, <1>6, <1>7 DEF IInv

\* The books of untangled rows, whatever the request does
LEMMA BooksStep ==
  ASSUME TypeOK, IdsUnique, RefsOwn, Alone, BooksAgree, HandOK, NEW p \in Requests, ShapeOf(p), Does(p)
  PROVE  BooksAgree' /\ HandOK'
  BY BooksTakes, BooksLeaves, BooksChecks, BooksPosts, BooksUndoes, BooksWrites DEF Does

LEMMA NextInv ==
  ASSUME IInv, [Next]_vars
  PROVE  IInv'
  <1>1. ASSUME NEW p \in Requests, Step(p) PROVE IInv'
    <2>1. /\ TypeOK /\ IdsUnique /\ RefsOwn /\ Alone /\ PaidIsMoved /\ BooksAgree /\ HandOK
          /\ \A q \in Requests : ShapeOf(q)
      BY DEF IInv, HandOK
    <2>2. Does(p)
      BY <1>1, <2>1, StepFacts DEF Does
    <2>3. TypeOK' /\ IdsUnique' /\ RefsOwn' /\ Alone' /\ PaidIsMoved'
      BY <2>1, <2>2, TypeStep, IdsStep, RefsStep, AloneStep, PaidStep
    <2>4. \A q \in Requests : ShapeOf(q)'
      BY <2>1, <2>2, ShapeStep
    <2>5. BooksAgree' /\ HandOK'
      BY <2>1, <2>2, BooksStep
    <2> QED
      BY <2>3, <2>4, <2>5 DEF IInv, HandOK
  <1>2. ASSUME NEW x \in Payments, NEW n \in Amounts[x], Record(x, n) PROVE IInv'
    BY <1>2, RecordStep
  <1>3. CASE UNCHANGED vars
    <2>1. /\ TypeOK /\ IdsUnique /\ RefsOwn /\ Alone /\ PaidIsMoved /\ BooksAgree /\ HandOK
          /\ \A q \in Requests : ShapeOf(q)
      BY DEF IInv, HandOK
    <2>2. UNCHANGED <<book, balance, reversed, kept, row, pc, work, account, serial, tangled, faults>>
      BY <1>3 DEF vars
    <2>3. TypeOK' /\ IdsUnique' /\ RefsOwn' /\ Alone'
      BY <2>1, <2>2 DEF TypeOK, IdsUnique, RefsOwn, OwnRef, Alone
    <2>4. PaidIsMoved' /\ \A q \in Requests : ShapeOf(q)'
      BY <2>1, <2>2 DEF PaidIsMoved, ShapeOf, Moved
    <2>5. \A x : Standing(x)' = Standing(x)
      BY <2>2 DEF Standing
    <2>6. BooksAgree'
      BY <2>1, <2>2, <2>5 DEF BooksAgree, Agree, Busy
    <2>7. HandOK'
      BY <2>1, <2>2, <2>5 DEF HandOK, InHand, Agree
    <2> QED
      BY <2>3, <2>4, <2>6, <2>7 DEF IInv, HandOK
  <1> QED
    BY <1>1, <1>2, <1>3 DEF Next, Step

\* The inductive invariant holds in every reachable state.
THEOREM InvTheorem == Spec => []IInv
  <1>1. IInv /\ [Next]_vars => IInv'
    BY NextInv
  <1> QED
    BY <1>1, InitInv, PTL DEF Spec

\* The rows, the books and what requests hold in memory keep their types.
THEOREM TypeTheorem == Spec => []TypeOK
  <1>1. IInv => TypeOK
    BY DEF IInv
  <1> QED
    BY <1>1, InvTheorem, PTL

\* No donation is PAID, no expense SETTLED and no earning RECEIVED without the
\* transaction it names: markAsPaid, settle and markAsReceived are saved only
\* after CreateTransactionCommand returned, whoever else writes the row.
THEOREM PaidIsMovedTheorem == Spec => []PaidIsMoved
  <1>1. IInv => PaidIsMoved
    BY DEF IInv
  <1> QED
    BY <1>1, InvTheorem, PTL

\* A row no two requests worked on at once and none failed on is paid exactly
\* when one unreversed transaction pays it, through corrections and repayments.
THEOREM BooksAgreeTheorem == Spec => []BooksAgree
  <1>1. IInv => BooksAgree
    BY DEF IInv
  <1> QED
    BY <1>1, InvTheorem, PTL
=============================================================================
