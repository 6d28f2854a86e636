--------------------------- MODULE FinancePayments ---------------------------
(***************************************************************************)
(* Donations, expenses and earnings, and the transactions that pay them.   *)
(* A handler reads the row, moves the money through the command bus, then  *)
(* writes the whole row; nothing locks the row and nothing ties the two    *)
(* writes together.  The ledger is LedgerBook: a command is one step of it *)
(* (FinanceLedger implements that).  One action is the code between two    *)
(* awaits.                                                                 *)
(***************************************************************************)
EXTENDS Integers

CONSTANTS
    Accounts,
    Donations,    \* regular donations of one donor, all for one period
    Expenses,
    Earnings,
    Requests,     \* requests, jobs and event handlers in flight
    Amounts,      \* amounts the clients name, for each row
    Opening,      \* what each account holds at the start
    MaxSerial,    \* money moves while fewer ids were given out
    MaxFaults     \* awaits that reject and crashes

VARIABLES
    book, balance, reversed, kept,   \* the ledger
    row,          \* finance_donations, finance_expenses, finance_earnings
    pc,           \* where a request is
    work,         \* the aggregates it has in memory, changed and not yet saved
    account,      \* the account its command names
    serial,       \* next transaction id
    tangled,      \* history: rows two requests worked on at once, or one failed on
    faults

book_vars == <<book, balance, reversed, kept>>
vars == <<book, balance, reversed, kept, row, pc, work, account, serial, tangled, faults>>

Payments == Donations \cup Expenses \cup Earnings
None == 0         \* no transaction
NoAccount == "none"

PaymentsAssumption ==
    /\ Donations \cap Expenses = {}
    /\ Donations \cap Earnings = {}
    /\ Expenses \cap Earnings = {}
    /\ NoAccount \notin Accounts
    /\ Amounts \in [Payments -> SUBSET (Nat \ {0})]
    /\ Opening \in [Accounts -> Nat]
    /\ MaxSerial \in Nat
    /\ MaxFaults \in Nat
ASSUME PaymentsAssumption

Ledger == INSTANCE LedgerBook

-----------------------------------------------------------------------------
(* The aggregates *)

DonationStatus == {"RAISED", "PENDING", "PAID", "PAYMENT_FAILED", "PAY_LATER", "CANCELLED", "UPDATE_MISTAKE"}
ExpenseStatus == {"DRAFT", "SUBMITTED", "FINALIZED", "SETTLED", "REJECTED"}
EarningStatus == {"PENDING", "RECEIVED", "CANCELLED"}

Outstanding == {"RAISED", "PENDING", "PAYMENT_FAILED", "PAY_LATER", "UPDATE_MISTAKE"}

\* The statuses in which the money has moved
Settled == {"PAID", "SETTLED", "RECEIVED"}

\* From which statuses a command is accepted; one that names no status only
\* edits the row.
DonationFrom ==
    [CANCELLED      |-> DonationStatus \ {"PAID", "CANCELLED"},
     PAYMENT_FAILED |-> DonationStatus \ {"PAID"},
     PAY_LATER      |-> DonationStatus \ {"PAID"},
     UPDATE_MISTAKE |-> {"PAID"},
     PENDING        |-> {"RAISED", "UPDATE_MISTAKE"},
     PAID           |-> DonationStatus \ {"PAID", "CANCELLED", "UPDATE_MISTAKE"},
     EDIT           |-> DonationStatus]

ExpenseFrom ==
    [SUBMITTED |-> {"DRAFT"},
     FINALIZED |-> {"SUBMITTED"},
     REJECTED  |-> {"SUBMITTED", "FINALIZED"},
     SETTLED   |-> {"FINALIZED"},
     EDIT      |-> {"DRAFT", "SUBMITTED"}]

EarningFrom ==
    [RECEIVED  |-> {"PENDING"},
     CANCELLED |-> EarningStatus \ {"RECEIVED"},
     EDIT      |-> EarningStatus]

\* Mutation: a paid donation may be cancelled.
FromLoosely(x) == CASE x \in Donations -> [DonationFrom EXCEPT !.CANCELLED = @ \cup {"PAID"}]
                    [] x \in Expenses  -> ExpenseFrom
                    [] OTHER           -> EarningFrom

\* The table of a row
From(x) == CASE x \in Donations -> DonationFrom
             [] x \in Expenses  -> ExpenseFrom
             [] OTHER           -> EarningFrom

\* When a command may change the amount
AmountOpen(x, s) ==
    CASE x \in Donations -> row[x].status # "PAID"
      [] x \in Expenses  -> s = "EDIT"
      [] OTHER           -> row[x].status = "PENDING"

Row == [status: DonationStatus \cup ExpenseStatus \cup EarningStatus \cup {"none"},
        amount: Nat, ref: Nat]

NoRow == [status |-> "none", amount |-> 0, ref |-> None]

\* A donation as an aggregate in memory: its row and whose row it is
Aggregate(x, r) == [id |-> x, row |-> r]

-----------------------------------------------------------------------------

Init ==
    /\ book = [a \in Accounts |-> {}]
    /\ balance = Opening
    /\ reversed = [a \in Accounts |-> {}]
    /\ kept = Accounts
    /\ row = [x \in Payments |-> NoRow]
    /\ pc = [p \in Requests |-> "idle"]
    /\ work = [p \in Requests |-> {}]
    /\ account = [p \in Requests |-> NoAccount]
    /\ serial = 1
    /\ tangled = {}
    /\ faults = 0

Goto(p, l) == pc' = [pc EXCEPT ![p] = l]

Busy(x) == \E p \in Requests : \E g \in work[p] : g.id = x

\* A request takes rows into memory.
Take(p, aggs) ==
    /\ work' = [work EXCEPT ![p] = aggs]
    /\ tangled' = tangled \cup {x \in {g.id : g \in aggs} : Busy(x)}

\* It is over; what it had not saved is gone.
Leave(p) ==
    /\ Goto(p, "idle")
    /\ work' = [work EXCEPT ![p] = {}]
    /\ account' = [account EXCEPT ![p] = NoAccount]

-----------------------------------------------------------------------------
(* New rows *)

\* A regular donation is raised for a period in which the donor has none.
FindOverlapping(p, d, n) ==
    /\ pc[p] = "idle"
    /\ row[d] = NoRow /\ ~Busy(d)
    /\ \A e \in Donations : row[e].status \notin Outstanding \cup {"PAID"}
    /\ Take(p, {Aggregate(d, [NoRow EXCEPT !.status = "RAISED", !.amount = n])})
    /\ Goto(p, "save")
    /\ UNCHANGED <<book_vars, row, account, serial, faults>>

\* Expenses and earnings are inserted at once.
Record(x, n) ==
    /\ x \in Expenses \cup Earnings
    /\ row[x] = NoRow
    /\ row' = [row EXCEPT ![x] = [status |-> IF x \in Expenses THEN "DRAFT" ELSE "PENDING",
                                  amount |-> n, ref |-> None]]
    /\ UNCHANGED <<book_vars, pc, work, account, serial, tangled, faults>>

-----------------------------------------------------------------------------
(* One row: update, process payment, finalize, settle *)

\* Mutation: the status is written as the command names it, EDIT too.
ChangedToCommand(x, s, n) == [row[x] EXCEPT !.status = s, !.amount = n]

\* The row as the command changes it in memory
Changed(x, s, n) == [row[x] EXCEPT !.status = IF s = "EDIT" THEN @ ELSE s, !.amount = n]

\* What comes before the row is saved
FirstStep(x, s) ==
    CASE s \in {"PAID", "RECEIVED"}                    -> "pay"
      [] s = "SETTLED"                                 -> "funds"
      [] s = "UPDATE_MISTAKE" /\ row[x].ref # None     -> "reverse"
      [] OTHER                                         -> "save"

\* findById and the aggregate's checks; the command is applied in memory.
ReadRow(p, x, s, n, a) ==
    /\ pc[p] = "idle"
    /\ s \in DOMAIN From(x)
    /\ row[x].status \in From(x)[s]
    /\ n = row[x].amount \/ AmountOpen(x, s)
    /\ Take(p, {Aggregate(x, Changed(x, s, n))})
    /\ account' = [account EXCEPT ![p] = IF s \in Settled THEN a ELSE NoAccount]
    /\ Goto(p, FirstStep(x, s))
    /\ UNCHANGED <<book_vars, row, serial, faults>>

\* SettleExpense looks at the account before it asks for the transaction.
CheckFunds(p) ==
    /\ pc[p] = "funds"
    /\ \E g \in work[p] :
           \/ /\ balance[account[p]] >= g.row.amount
              /\ Goto(p, "pay")
              /\ UNCHANGED <<work, account>>
           \/ balance[account[p]] < g.row.amount /\ Leave(p)
    /\ UNCHANGED <<book_vars, row, serial, tangled, faults>>

Payment(g) == [id |-> serial, ref |-> serial, amount |-> g.row.amount, of |-> None, for |-> g.id,
               type |-> IF g.id \in Expenses THEN "OUT" ELSE "IN"]

\* Mutation: the new transaction is not linked.
LinkedNot(g) == g

\* linkTransaction, settle, setTransactionId
Linked(g) == [g EXCEPT !.row.ref = serial]

\* CreateTransactionCommand moves the money, or rejects: too few funds, or the
\* account was closed.
Pay(p) ==
    /\ pc[p] = "pay"
    /\ \E g \in work[p] :
           \/ /\ serial < MaxSerial
              /\ Ledger!Post(account[p], Payment(g))
              /\ work' = [work EXCEPT ![p] = {Linked(g)}]
              /\ serial' = serial + 1
              /\ Goto(p, "save")
              /\ UNCHANGED <<row, account, tangled, faults>>
           \/ Leave(p) /\ UNCHANGED <<book_vars, row, serial, tangled, faults>>

\* The unreversed transactions of a reference: at most one here
Open(a, r) == {t \in book[a] : t.ref = r /\ t.id \notin reversed[a] /\ t.of = None}

Reversal(t) == [id |-> serial, ref |-> t.ref, amount |-> t.amount, of |-> t.id, for |-> t.for,
                type |-> IF t.type = "IN" THEN "OUT" ELSE "IN"]

\* resetPaymentDetails
Reset(g) == [g EXCEPT !.row.ref = None]

\* ReverseTransactionCommand, then the payment details go.  It rejects when
\* nothing is left to reverse, for want of funds, or on a closed account.
UndoPayment(p) ==
    /\ pc[p] = "reverse"
    /\ \E g \in work[p] :
           \/ \E a \in Accounts : \E t \in Open(a, g.row.ref) :
                  /\ serial < MaxSerial
                  /\ Ledger!Reverse(a, Reversal(t), t)
                  /\ work' = [work EXCEPT ![p] = {Reset(g)}]
                  /\ serial' = serial + 1
                  /\ Goto(p, "save")
                  /\ UNCHANGED <<row, account, tangled, faults>>
           \/ Leave(p) /\ UNCHANGED <<book_vars, row, serial, tangled, faults>>

-----------------------------------------------------------------------------
(* Many rows: the pending job and the handler of a deleted user *)

\* They read all their donations first.
ReadRows(p, s) ==
    LET found == {d \in Donations : row[d].status \in IF s = "PENDING" THEN {"RAISED"} ELSE Outstanding}
    IN
    /\ pc[p] = "idle"
    /\ s \in {"PENDING", "CANCELLED"}
    /\ found # {}
    /\ Take(p, {Aggregate(d, Changed(d, s, row[d].amount)) : d \in found})
    /\ Goto(p, "save")
    /\ UNCHANGED <<book_vars, row, account, serial, faults>>

\* The update (or insert) of the next row: all its columns
SaveRow(p) ==
    /\ pc[p] = "save"
    /\ \E g \in work[p] :
           /\ row' = [row EXCEPT ![g.id] = g.row]
           /\ work' = [work EXCEPT ![p] = @ \ {g}]
           /\ IF work[p] = {g}
              THEN Goto(p, "idle") /\ account' = [account EXCEPT ![p] = NoAccount]
              ELSE UNCHANGED <<pc, account>>
    /\ UNCHANGED <<book_vars, serial, tangled, faults>>

\* An await rejects or the process dies.  A transaction command may reject
\* after its work is saved: that is a failure right after it here.
Fail(p) ==
    /\ pc[p] # "idle"
    /\ faults < MaxFaults
    /\ faults' = faults + 1
    /\ tangled' = tangled \cup {g.id : g \in work[p]}
    /\ Leave(p)
    /\ UNCHANGED <<book_vars, row, serial>>

-----------------------------------------------------------------------------

Next ==
    \/ \E x \in Payments : \E n \in Amounts[x] : Record(x, n)
    \/ \E p \in Requests :
           \/ \E d \in Donations : \E n \in Amounts[d] : FindOverlapping(p, d, n)
           \/ \E x \in Payments, a \in Accounts : \E n \in Amounts[x], s \in DOMAIN From(x) :
                  ReadRow(p, x, s, n, a)
           \/ \E s \in {"PENDING", "CANCELLED"} : ReadRows(p, s)
           \/ CheckFunds(p)
           \/ Pay(p)
           \/ UndoPayment(p)
           \/ SaveRow(p)
           \/ Fail(p)

Spec == Init /\ [][Next]_vars

-----------------------------------------------------------------------------
(* Properties *)

Txn == [id: Nat, ref: Nat, amount: Nat, of: Nat, for: Payments, type: {"IN", "OUT"}]

TypeOK ==
    /\ book \in [Accounts -> SUBSET Txn]
    /\ balance \in [Accounts -> Nat]
    /\ reversed \in [Accounts -> SUBSET Nat]
    /\ kept \subseteq Accounts
    /\ row \in [Payments -> Row]
    /\ pc \in [Requests -> {"idle", "funds", "pay", "reverse", "save"}]
    /\ work \in [Requests -> SUBSET [id: Payments, row: Row]]
    /\ account \in [Requests -> Accounts \cup {NoAccount}]
    /\ serial \in Nat
    /\ tangled \subseteq Payments
    /\ faults \in 0 .. MaxFaults

\* The ledger moved this row's money: its amount, in its direction.
Moved(x, r) ==
    \E a \in Accounts : \E t \in book[a] :
        /\ t.for = x /\ t.ref = r.ref /\ t.of = None
        /\ t.amount = r.amount
        /\ t.type = IF x \in Expenses THEN "OUT" ELSE "IN"

\* However requests race, overwrite each other's rows or die between the two
\* writes: no row says paid without the transaction it names, over its amount.
PaidIsMoved == \A x \in Payments : row[x].status \in Settled => Moved(x, row[x])

\* The transactions of a row that no reversal has undone
Standing(x) == {t \in UNION {book[a] : a \in Accounts} :
                    t.for = x /\ t.of = None /\ \A a \in Accounts : t.id \notin reversed[a]}

\* The row is paid exactly when one transaction of it stands, the one it names.
Agree(x, r) ==
    IF r.status \in Settled
    THEN \E t \in Standing(x) : Standing(x) = {t} /\ t.ref = r.ref
    ELSE Standing(x) = {}

\* Between commands, and as long as no two of them ever worked on the row at
\* once and none failed on it, books and rows agree - through all the
\* payments, corrections and renewed payments of the row.
BooksAgree == \A x \in Payments \ tangled : ~Busy(x) => Agree(x, row[x])

-----------------------------------------------------------------------------
(* The inductive invariant *)

\* Ids are given out once, and the reference of a payment is its id.
IdsUnique ==
    /\ serial > 0
    /\ \A a \in Accounts : \A t \in book[a] :
           t.id \in 1 .. serial - 1 /\ (t.of = None => t.ref = t.id)
    /\ \A a, b \in Accounts : \A t \in book[a], u \in book[b] : t.id = u.id => t = u
    /\ \A a \in Accounts : reversed[a] \subseteq 1 .. serial - 1

\* What a request has in memory where it stands
ShapeOf(p) ==
    /\ pc[p] = "idle" => work[p] = {}
    /\ pc[p] \in {"funds", "pay"} => account[p] \in Accounts
    /\ pc[p] \in {"funds", "pay", "reverse"} => \E g \in work[p] : work[p] = {g}
    /\ pc[p] \in {"funds", "pay"} => \A g \in work[p] : g.row.status \in Settled
    /\ pc[p] = "reverse" => \A g \in work[p] : g.row.status = "UPDATE_MISTAKE"
    /\ pc[p] = "save" => \A g \in work[p] : g.row.status \in Settled => Moved(g.id, g.row)

\* A row only names transactions of its own.
OwnRef(x, r) ==
    /\ r.ref < serial
    /\ \A a \in Accounts : \A t \in book[a] : t.ref = r.ref /\ t.of = None => t.for = x

RefsOwn ==
    /\ \A x \in Payments : OwnRef(x, row[x])
    /\ \A p \in Requests : \A g \in work[p] : OwnRef(g.id, g.row)

\* A row that was never tangled is in one request's hands.
Alone ==
    \A p, q \in Requests : \A g \in work[p], h \in work[q] :
        g.id = h.id /\ g.id \notin tangled => p = q /\ g = h

\* The books against the row in somebody's hands: they agree with what he is
\* about to save, and before that with the row as it is.
InHand(p, g) ==
    IF pc[p] = "save" THEN Agree(g.id, g.row)
    ELSE /\ Agree(g.id, row[g.id])
         /\ row[g.id].status \in Settled <=> pc[p] = "reverse"
         /\ pc[p] = "reverse" => g.row.ref = row[g.id].ref

IInv ==
    /\ TypeOK
    /\ IdsUnique
    /\ RefsOwn
    /\ \A p \in Requests : ShapeOf(p)
    /\ Alone
    /\ PaidIsMoved
    /\ BooksAgree
    /\ \A p \in Requests : \A g \in work[p] : g.id \notin tangled => InHand(p, g)

-----------------------------------------------------------------------------
(* What messages of the code say, and the code does not keep *)

\* "Donation is already paid", "Can only settle finalized expenses": nothing is
\* paid twice.
PaidOnce == \A x \in Payments : \A t, u \in Standing(x) : t = u
=============================================================================
