------------------------ MODULE FinanceLedgerProofs ------------------------
(***************************************************************************)
(* Proofs about FinanceLedger: the inductive invariant IInv and what it    *)
(* implies, for any number of accounts, requests and faults.               *)
(***************************************************************************)
EXTENDS FinanceLedger, WellFoundedInduction, TLAPS

-----------------------------------------------------------------------------
(* Types *)

LEMMA NoTxnType == NoTxn \in Txn
  BY DEF NoTxn, Txn, None

LEMMA NoAggregateType == NoAggregate \in Aggregate
  BY NoTxnType DEF NoAggregate, Aggregate, Status

LEMMA NoCommandType == NoCommand \in Command
  BY DEF NoCommand, Command, None

LEMMA CommandType ==
  ASSUME NEW c \in Command, NEW a \in Accounts
  PROVE  [c EXCEPT !.account = a] \in Command
  BY DEF Command

LEMMA FindType ==
  ASSUME TypeOK, NEW a \in Accounts
  PROVE  Find(a) \in Aggregate
  BY NoTxnType DEF TypeOK, Row, Find, Aggregate

LEMMA SignedType ==
  ASSUME NEW t \in Txn
  PROVE  Signed(t) \in Int
  BY DEF Signed, Txn

LEMMA PostType ==
  ASSUME NEW agg \in Aggregate, NEW t \in Txn
  PROVE  /\ Post(agg, t) \in Aggregate
         /\ Post(agg, t).new = t
         /\ Post(agg, t).txns = agg.txns
         /\ Post(agg, t).reversed = agg.reversed
         /\ Post(agg, t).balance = agg.balance
  BY DEF Post, Aggregate

LEMMA MarkType ==
  ASSUME NEW agg \in Aggregate, NEW t \in Txn
  PROVE  /\ Mark(agg, t) \in Aggregate
         /\ Mark(agg, t).new = agg.new
         /\ Mark(agg, t).txns = agg.txns
         /\ Mark(agg, t).reversed = agg.reversed \cup {t.id}
         /\ Mark(agg, t).balance = agg.balance
  BY DEF Mark, Aggregate, Txn

LEMMA WrittenType ==
  ASSUME NEW row \in Row, NEW agg \in Aggregate
  PROVE  Written(row, agg) \in Row
  <1>1. Signed(agg.new) \in Int
    BY SignedType DEF Aggregate
  <1>2. row.balance + Signed(agg.new) \in Int
    BY <1>1 DEF Row
  <1> QED
    BY <1>2 DEF Written, Row, Aggregate

LEMMA OppositeType ==
  ASSUME TypeOK, NEW t \in Txn
  PROVE  Opposite(t) \in Txn
  BY DEF TypeOK, Opposite, OppositeOf, Txn

LEMMA NewTxnType ==
  ASSUME TypeOK, NEW p \in Requests, NEW id \in Nat, NEW type \in {"IN", "OUT"},
         NEW other \in Accounts \cup {None}
  PROVE  NewTxn(p, id, type, other) \in Txn
  BY DEF TypeOK, NewTxn, Txn, Command, None

LEMMA UpdateType ==
  ASSUME TypeOK, NEW p \in Requests, NEW a \in Accounts, NEW agg \in Aggregate, Update(p, a, agg)
  PROVE  account' \in [Accounts -> Row] /\ unguarded' \in [Accounts -> SUBSET {"command", "update"}]
  <1>1. Written(account[a], agg) \in Row
    BY WrittenType DEF TypeOK
  <1> QED
    BY <1>1 DEF Update, TypeOK

LEMMA InitType == Init => TypeOK
  <1> SUFFICES ASSUME Init PROVE TypeOK
    OBVIOUS
  <1>1. \A a \in Accounts : Opened(a) \in Row
    <2> TAKE a \in Accounts
    <2>1. a \in Nat /\ Opening[a] \in Nat
      BY LedgerAssumption DEF LedgerAssumption, Accounts
    <2>2. [id |-> a, ref |-> a, type |-> "IN", amount |-> Opening[a], other |-> None, of |-> None] \in Txn
      BY <2>1 DEF Txn, None
    <2> QED
      BY <2>1, <2>2 DEF Opened, Row, Status
  <1> QED
    BY <1>1, NoCommandType, NoAggregateType, LedgerAssumption
    DEF Init, TypeOK, Places, LedgerAssumption

LEMMA ThrowType ==
  ASSUME TypeOK, NEW p \in Requests, Throw(p)
  PROVE  TypeOK'
  BY DEF Throw, End, Goto, Release, ledger, TypeOK, Places

LEMMA BeginType ==
  ASSUME TypeOK, NEW p \in Requests, Begin(p)
  PROVE  TypeOK'
  <1>1. ASSUME NEW op \in {"IN", "OUT", "TRANSFER"}, NEW a \in Accounts,
               NEW b \in Accounts \cup {None}, NEW n \in Amounts, BeginTransaction(p, op, a, b, n)
        PROVE  TypeOK'
    <2>1. [op |-> op, account |-> a, to |-> b, amount |-> n, ref |-> None] \in Command
      BY LedgerAssumption DEF LedgerAssumption, Command, None
    <2>2. {a, b} \ {None} \subseteq Accounts
      OBVIOUS
    <2> QED
      BY <1>1, <2>1, <2>2 DEF BeginTransaction, Goto, ledger, TypeOK, Places
  <1>2. ASSUME NEW r \in Refs, BeginReverse(p, r)
        PROVE  TypeOK'
    <2>1. r \in Nat
      BY <1>2 DEF Refs, TypeOK, Row, Txn
    <2>2. [NoCommand EXCEPT !.op = "REVERSE", !.ref = r] \in Command
      BY <2>1 DEF NoCommand, Command, None
    <2> QED
      BY <1>2, <2>2 DEF BeginReverse, Goto, ledger, TypeOK, Places
  <1>3. ASSUME NEW a \in Accounts, NEW s \in Status \cup {"none"}, BeginUpdate(p, a, s)
        PROVE  TypeOK'
    <2>1. [NoCommand EXCEPT !.account = a] \in Command
      BY DEF NoCommand, Command, None
    <2>2. Find(a) \in Aggregate
      BY FindType
    <2>3. s \in Status => [Find(a) EXCEPT !.status = s] \in Aggregate
      BY <2>2 DEF Aggregate
    <2> QED
      BY <1>3, <2>1, <2>2, <2>3 DEF BeginUpdate, Goto, ledger, TypeOK, Places
  <1> QED
    BY <1>1, <1>2, <1>3 DEF Begin

LEMMA FindTransactionsType ==
  ASSUME TypeOK, NEW p \in Requests, FindTransactions(p), ~Throw(p)
  PROVE  TypeOK'
  <1> DEFINE found == UNION {{<<a, t>> : t \in {x \in account[a].txns :
                             x.ref = req[p].ref /\ x.id \notin account[a].reversed}} : a \in Accounts}
  <1>1. \A e \in found : e \in Accounts \X Txn /\ e[1] \in Accounts
    BY DEF TypeOK, Row
  <1> HIDE DEF found
  <1>2. found \in SUBSET (Accounts \X Txn) /\ {e[1] : e \in found} \in SUBSET Accounts
    BY <1>1
  <1>3. todo' = [todo EXCEPT ![p] = found] /\ want' = [want EXCEPT ![p] = {e[1] : e \in found}]
    BY DEF FindTransactions, found
  <1> QED
    BY <1>2, <1>3 DEF FindTransactions, Goto, ledger, TypeOK, Places

LEMMA AcquireLockType ==
  ASSUME TypeOK, NEW p \in Requests, AcquireLock(p)
  PROVE  TypeOK'
  BY DEF AcquireLock, Goto, ledger, TypeOK, Places

LEMMA LoadAccountType ==
  ASSUME TypeOK, NEW p \in Requests, ShapeOf(p), LoadAccount(p)
  PROVE  TypeOK'
  <1> DEFINE t == NewTxn(p, serial, req[p].op, None)
             agg == Find(req[p].account)
  <1>1. CASE Throw(p)
    BY <1>1, ThrowType
  <1>2. CASE ~Throw(p)
    <2>1. req[p].account \in Accounts /\ req[p].op \in {"IN", "OUT"}
      BY DEF LoadAccount, ShapeOf
    <2>2. t \in Txn
      BY <2>1, NewTxnType DEF TypeOK
    <2>3. agg \in Aggregate
      BY <2>1, FindType
    <2>4. Post(agg, t) \in Aggregate
      BY <2>2, <2>3, PostType
    <2>5. source' = [source EXCEPT ![p] = Post(agg, t)] /\ serial' = serial + 1 /\ Goto(p, "save")
          /\ UNCHANGED <<account, unguarded, holder, req, want, todo, target, lapsed, result, faults>>
      BY <1>2 DEF LoadAccount
    <2> HIDE DEF t, agg
    <2> QED
      BY <2>4, <2>5 DEF Goto, TypeOK, Places
  <1> QED
    BY <1>1, <1>2

LEMMA LoadPayerType ==
  ASSUME TypeOK, NEW p \in Requests, ShapeOf(p), LoadPayer(p)
  PROVE  TypeOK'
  <1>1. Find(req[p].account) \in Aggregate
    BY FindType DEF LoadPayer, ShapeOf
  <1> QED
    BY <1>1 DEF LoadPayer, Goto, ledger, TypeOK, Places

LEMMA LoadPayeeType ==
  ASSUME TypeOK, NEW p \in Requests, ShapeOf(p), LoadPayee(p)
  PROVE  TypeOK'
  <1> DEFINE debit == NewTxn(p, serial, "OUT", req[p].to)
             credit == NewTxn(p, serial + 1, "IN", req[p].account)
             agg == Find(req[p].to)
  <1>1. CASE Throw(p)
    BY <1>1, ThrowType
  <1>2. CASE ~Throw(p)
    <2>1. req[p].account \in Accounts /\ req[p].to \in Accounts
      BY DEF LoadPayee, ShapeOf
    <2>2. debit \in Txn /\ credit \in Txn
      BY <2>1, NewTxnType DEF TypeOK
    <2>3. agg \in Aggregate
      BY <2>1, FindType
    <2>4. Post(source[p], debit) \in Aggregate /\ Post(agg, credit) \in Aggregate
      BY <2>2, <2>3, PostType DEF TypeOK
    <2>5. /\ source' = [source EXCEPT ![p] = Post(source[p], debit)]
          /\ target' = [target EXCEPT ![p] = Post(agg, credit)]
          /\ serial' = serial + 2 /\ Goto(p, "save")
          /\ UNCHANGED <<account, unguarded, holder, req, want, todo, lapsed, result, faults>>
      BY <1>2 DEF LoadPayee, TypeOK
    <2> HIDE DEF debit, credit, agg
    <2> QED
      BY <2>4, <2>5 DEF Goto, TypeOK, Places
  <1> QED
    BY <1>1, <1>2

LEMMA LoadReversedType ==
  ASSUME TypeOK, NEW p \in Requests, LoadReversed(p)
  PROVE  TypeOK'
  <1>1. CASE Throw(p)
    BY <1>1, ThrowType
  <1>2. CASE ~Throw(p)
    <2>1. PICK e \in todo[p] :
            /\ source' = [source EXCEPT ![p] = Mark(Post(Find(e[1]), Opposite(e[2])), e[2])]
            /\ req' = [req EXCEPT ![p].account = e[1]]
            /\ todo' = [todo EXCEPT ![p] = @ \ {e}]
            /\ serial' = serial + 1 /\ Goto(p, "save")
            /\ UNCHANGED <<account, unguarded, holder, want, target, lapsed, result, faults>>
      BY <1>2 DEF LoadReversed
    <2>2. e[1] \in Accounts /\ e[2] \in Txn
      BY DEF TypeOK
    <2>3. Mark(Post(Find(e[1]), Opposite(e[2])), e[2]) \in Aggregate
      BY <2>2, FindType, OppositeType, PostType, MarkType
    <2>4. [req[p] EXCEPT !.account = e[1]] \in Command
      BY <2>2, CommandType DEF TypeOK
    <2>5. req' = [req EXCEPT ![p] = [req[p] EXCEPT !.account = e[1]]]
      BY <2>1
    <2>6. req' \in [Requests -> Command] /\ todo' \in [Requests -> SUBSET (Accounts \X Txn)]
      BY <2>1, <2>4, <2>5 DEF TypeOK
    <2>7. source' \in [Requests -> Aggregate]
      BY <2>1, <2>3 DEF TypeOK
    <2> QED
      BY <2>1, <2>6, <2>7 DEF Goto, TypeOK, Places
  <1> QED
    BY <1>1, <1>2

LEMMA SaveType ==
  ASSUME TypeOK, NEW p \in Requests, ShapeOf(p), SaveAccount(p) \/ SavePayee(p)
  PROVE  TypeOK'
  <1>1. account' \in [Accounts -> Row] /\ unguarded' \in [Accounts -> SUBSET {"command", "update"}]
    <2>1. CASE SaveAccount(p)
      BY <2>1, UpdateType DEF SaveAccount, ShapeOf, TypeOK
    <2>2. CASE SavePayee(p)
      BY <2>2, UpdateType DEF SavePayee, ShapeOf, TypeOK
    <2> QED
      BY <2>1, <2>2
  <1>2. AfterSave(p) \in Places
    BY DEF AfterSave, Places
  <1> QED
    BY <1>1, <1>2 DEF SaveAccount, SavePayee, Goto, TypeOK, Places

LEMMA EndType ==
  ASSUME TypeOK, NEW p \in Requests, Commit(p) \/ Reply(p) \/ Fail(p) \/ Lapse(p)
  PROVE  TypeOK'
  <1>1. CASE Commit(p)
    BY <1>1 DEF Commit, End, Goto, Release, ledger, TypeOK, Places
  <1>2. CASE Reply(p)
    BY <1>2, NoCommandType, NoAggregateType DEF Reply, Goto, ledger, TypeOK, Places
  <1>3. CASE Fail(p)
    BY <1>3, LedgerAssumption DEF Fail, End, Goto, Release, ledger, TypeOK, Places, LedgerAssumption
  <1>4. CASE Lapse(p)
    BY <1>4, LedgerAssumption DEF Lapse, Release, ledger, TypeOK, LedgerAssumption
  <1> QED
    BY <1>1, <1>2, <1>3, <1>4

LEMMA TypeStep ==
  ASSUME TypeOK, NEW p \in Requests, ShapeOf(p), Begin(p) \/ Work(p) \/ Reply(p)
  PROVE  TypeOK'
  BY BeginType, FindTransactionsType, ThrowType, AcquireLockType, LoadAccountType, LoadPayerType,
     LoadPayeeType, LoadReversedType, SaveType, EndType
  DEF Work

-----------------------------------------------------------------------------
(* What a step of one request does to the others and to the rows *)

Step(p) == Begin(p) \/ Work(p) \/ Reply(p)

SameLocals(q) ==
    /\ pc'[q] = pc[q] /\ req'[q] = req[q] /\ want'[q] = want[q] /\ todo'[q] = todo[q]
    /\ source'[q] = source[q] /\ target'[q] = target[q]
    /\ \A a \in Accounts : holder'[a] = q <=> holder[a] = q

\* A step that leaves the accounts alone
Quiet == UNCHANGED <<account, unguarded>>

Saves(p) == SaveAccount(p) \/ SavePayee(p)

LEMMA ThrowFrame ==
  ASSUME TypeOK, NEW p \in Requests, NEW q \in Requests, q # p, Throw(p)
  PROVE  SameLocals(q) /\ Quiet /\ serial' = serial
  BY LedgerAssumption DEF LedgerAssumption, Throw, End, Goto, Release, ledger, SameLocals, Quiet, TypeOK

LEMMA StepFrame ==
  ASSUME TypeOK, NEW p \in Requests, NEW q \in Requests, q # p, Step(p)
  PROVE  SameLocals(q)
  <1>1. CASE Begin(p)
    BY <1>1 DEF Begin, BeginTransaction, BeginReverse, BeginUpdate, Goto, SameLocals, TypeOK
  <1>2. CASE LoadPayer(p)
    BY <1>2 DEF LoadPayer, Goto, SameLocals, TypeOK
  <1>3. CASE FindTransactions(p)
    BY <1>3, ThrowFrame DEF FindTransactions, Goto, SameLocals, TypeOK
  <1>4. CASE AcquireLock(p)
    BY <1>4, LedgerAssumption DEF AcquireLock, Goto, SameLocals, TypeOK, LedgerAssumption
  <1>5. CASE LoadAccount(p)
    BY <1>5, ThrowFrame DEF LoadAccount, Goto, SameLocals, TypeOK
  <1>6. CASE LoadPayee(p)
    BY <1>6, ThrowFrame DEF LoadPayee, Goto, SameLocals, TypeOK
  <1>7. CASE LoadReversed(p)
    BY <1>7, ThrowFrame DEF LoadReversed, Goto, SameLocals, TypeOK
  <1>8. CASE SaveAccount(p) \/ SavePayee(p)
    BY <1>8 DEF SaveAccount, SavePayee, Goto, SameLocals, TypeOK
  <1>9. CASE Commit(p) \/ Fail(p)
    BY <1>9, LedgerAssumption DEF Commit, Fail, End, Release, Goto, SameLocals, TypeOK, LedgerAssumption
  <1>10. CASE Lapse(p)
    BY <1>10, LedgerAssumption DEF Lapse, Release, SameLocals, TypeOK, LedgerAssumption
  <1>11. CASE Reply(p)
    BY <1>11 DEF Reply, Goto, SameLocals, TypeOK
  <1> QED
    BY <1>1, <1>2, <1>3, <1>4, <1>5, <1>6, <1>7, <1>8, <1>9, <1>10, <1>11 DEF Step, Work

LEMMA StepQuiet ==
  ASSUME TypeOK, NEW p \in Requests, Step(p), ~Saves(p)
  PROVE  Quiet /\ serial' \in {serial, serial + 1, serial + 2}
  <1>1. CASE Begin(p)
    BY <1>1 DEF Begin, BeginTransaction, BeginReverse, BeginUpdate, ledger, Quiet
  <1>2. CASE AcquireLock(p) \/ LoadPayer(p) \/ Reply(p) \/ Lapse(p)
    BY <1>2 DEF AcquireLock, LoadPayer, Reply, Lapse, ledger, Quiet
  <1>3. CASE FindTransactions(p) \/ Commit(p) \/ Fail(p)
    BY <1>3 DEF FindTransactions, Throw, Commit, Fail, ledger, Quiet
  <1>4. CASE LoadAccount(p)
    BY <1>4 DEF LoadAccount, Throw, ledger, Quiet
  <1>5. CASE LoadPayee(p)
    BY <1>5 DEF LoadPayee, Throw, ledger, Quiet
  <1>6. CASE LoadReversed(p)
    BY <1>6 DEF LoadReversed, Throw, ledger, Quiet
  <1> QED
    BY <1>1, <1>2, <1>3, <1>4, <1>5, <1>6 DEF Step, Work, Saves

LEMMA WrittenFacts ==
  ASSUME TypeOK, NEW p \in Requests, NEW a \in Accounts, NEW agg \in Aggregate, Update(p, a, agg)
  PROVE  /\ account'[a].status = agg.status
         /\ account'[a].balance = account[a].balance + Signed(agg.new)
         /\ account'[a].txns = account[a].txns \cup ({agg.new} \ {NoTxn})
         /\ account'[a].reversed = (account[a].reversed \ Ids(agg.txns)) \cup agg.reversed
         /\ \A b \in Accounts : b # a => account'[b] = account[b] /\ unguarded'[b] = unguarded[b]
         /\ holder[a] = p => unguarded'[a] = unguarded[a]
         /\ holder[a] # p => unguarded'[a] # {} /\ unguarded[a] \subseteq unguarded'[a]
         /\ holder[a] # p /\ req[p].op # "UPDATE" => "command" \in unguarded'[a]
  <1>1. account'[a] = Written(account[a], agg)
    BY DEF Update, TypeOK
  <1>2. \A b \in Accounts : b # a => account'[b] = account[b] /\ unguarded'[b] = unguarded[b]
    BY DEF Update, TypeOK
  <1>3. /\ holder[a] = p => unguarded'[a] = unguarded[a]
        /\ holder[a] # p => unguarded'[a] # {} /\ unguarded[a] \subseteq unguarded'[a]
        /\ holder[a] # p /\ req[p].op # "UPDATE" => "command" \in unguarded'[a]
    BY DEF Update, TypeOK
  <1> QED
    BY <1>1, <1>2, <1>3 DEF Written

\* What a save writes, and where
Saved(p) == IF pc[p] = "save" THEN req[p].account ELSE req[p].to
Draft(p) == IF pc[p] = "save" THEN source[p] ELSE target[p]

LEMMA SaveFacts ==
  ASSUME TypeOK, NEW p \in Requests, ShapeOf(p), Saves(p)
  PROVE  /\ pc[p] \in {"save", "saveTo"}
         /\ Saved(p) \in Accounts
         /\ Draft(p) \in Aggregate
         /\ Update(p, Saved(p), Draft(p))
         /\ serial' = serial
         /\ UNCHANGED <<holder, req, want, todo, source, target>>
  <1>1. CASE SaveAccount(p)
    BY <1>1 DEF SaveAccount, ShapeOf, TypeOK, Saved, Draft
  <1>2. CASE SavePayee(p)
    BY <1>2 DEF SavePayee, ShapeOf, TypeOK, Saved, Draft
  <1> QED
    BY <1>1, <1>2 DEF Saves

\* Rows and marks of carelessness only come.
Grows ==
    \A a \in Accounts : account[a].txns \subseteq account'[a].txns /\ unguarded[a] \subseteq unguarded'[a]

LEMMA StepGrows ==
  ASSUME TypeOK, NEW p \in Requests, ShapeOf(p), Step(p)
  PROVE  Grows
  <1>1. CASE Saves(p)
    BY <1>1, SaveFacts, WrittenFacts DEF Grows
  <1>2. CASE ~Saves(p)
    BY <1>2, StepQuiet DEF Grows, Quiet
  <1> QED
    BY <1>1, <1>2

-----------------------------------------------------------------------------
(* The invariants of the requests that do not move *)

LEMMA OtherShape ==
  ASSUME TypeOK, NEW q \in Requests, SameLocals(q), Grows, ShapeOf(q), ReadOf(q)
  PROVE  ShapeOf(q)' /\ ReadOf(q)'
  <1>1. ReadOf(q)'
    <2>1. \A e \in todo[q] : e[1] \in Accounts
      BY DEF TypeOK
    <2>2. /\ pc[q] \in {"loadTo", "save"} => req[q].account \in Accounts
          /\ pc[q] \in {"save", "saveTo"} /\ req[q].op = "TRANSFER" => req[q].to \in Accounts
      BY DEF ShapeOf
    <2> QED
      BY <2>1, <2>2 DEF ReadOf, SameLocals, Grows
  <1>2. ShapeOf(q)'
    <2>1. \A a \in Accounts : Ids(account[a].txns) \subseteq Ids(account'[a].txns)
      BY DEF Grows, Ids
    <2>2. pc[q] \in {"loadTo", "save", "saveTo"} => req[q].account \in Accounts
      BY DEF ShapeOf
    <2> QED
      BY <2>1, <2>2 DEF ShapeOf, SameLocals, Grows
  <1> QED
    BY <1>1, <1>2

LEMMA OtherCovered ==
  ASSUME TypeOK, NEW p \in Requests, NEW q \in Requests, q # p, Step(p), SameLocals(q),
         ShapeOf(p), ShapeOf(q), CoveredOf(q), MarksOf(q)
  PROVE  CoveredOf(q)' /\ MarksOf(q)'
  <1>1. CASE ~Saves(p)
    BY <1>1, StepQuiet DEF Quiet, SameLocals, CoveredOf, MarksOf, Holds, ShapeOf
  <1>2. CASE Saves(p)
    <2> DEFINE a == Saved(p)
               agg == Draft(p)
    <2>1. a \in Accounts /\ agg \in Aggregate /\ Update(p, a, agg)
      BY <1>2, SaveFacts
    <2> HIDE DEF a, agg
    <2>2. \A b \in Accounts : b # a => account'[b] = account[b] /\ unguarded'[b] = unguarded[b]
      BY <2>1, WrittenFacts
    <2>3. holder[a] = q =>
             /\ unguarded'[a] # {}
             /\ req[p].op # "UPDATE" => "command" \in unguarded'[a]
             /\ unguarded[a] \subseteq unguarded'[a]
      BY <2>1, WrittenFacts
    <2>4. req[p].op = "UPDATE" => account'[a].balance = account[a].balance
      <3>1. req[p].op = "UPDATE" => agg.new = NoTxn
        BY <1>2 DEF agg, Draft, Saves, SaveAccount, SavePayee, ShapeOf
      <3>2. Signed(NoTxn) = 0
        BY DEF Signed, NoTxn
      <3> QED
        BY <2>1, <3>1, <3>2, WrittenFacts DEF TypeOK, Row
    <2>5. pc[q] \in {"loadTo", "save"} => req[q].account \in Accounts
      BY DEF ShapeOf
    <2>6. pc[q] \in {"save", "saveTo"} /\ req[q].op = "TRANSFER" => req[q].to \in Accounts
      BY DEF ShapeOf
    <2>7. CoveredOf(q)'
      <3> SUFFICES ASSUME pc[q] \in {"loadTo", "save"}, holder[req[q].account] = q,
                          "command" \notin unguarded'[req[q].account]
                   PROVE  /\ pc[q] = "loadTo" => account'[req[q].account].balance = source[q].balance
                          /\ pc[q] = "save" =>
                                account'[req[q].account].balance + Signed(source[q].new) >= 0
        BY <2>5 DEF CoveredOf, Holds, SameLocals
      <3>1. CASE req[q].account = a
        <4>1. "command" \notin unguarded[a] /\ account'[a].balance = account[a].balance
          BY <3>1, <2>3, <2>4
        <4> QED
          BY <3>1, <4>1 DEF CoveredOf, Holds
      <3>2. CASE req[q].account # a
        BY <3>2, <2>2, <2>5 DEF CoveredOf, Holds
      <3> QED
        BY <3>1, <3>2
    <2>8. MarksOf(q)'
      <3>1. \A b \in Accounts : holder[b] = q /\ unguarded'[b] = {} =>
                account'[b] = account[b] /\ unguarded[b] = {}
        <4> TAKE b \in Accounts
        <4>1. CASE b = a
          BY <4>1, <2>3
        <4>2. CASE b # a
          BY <4>2, <2>1, <2>2
        <4> QED
          BY <4>1, <4>2
      <3>2. \A b \in Accounts : holder'[b] = q <=> holder[b] = q
        BY DEF SameLocals
      <3> QED
        BY <3>1, <3>2, <2>5, <2>6 DEF MarksOf, Holds, SameLocals
    <2> QED
      BY <2>7, <2>8
  <1> QED
    BY <1>1, <1>2

LEMMA OtherLocks ==
  ASSUME NEW q \in Requests, SameLocals(q), LocksOf(q)
  PROVE  LocksOf(q)'
  BY DEF LocksOf, SameLocals, Holds

-----------------------------------------------------------------------------
(* The shape of the request that moves *)

\* Everything about one request that its own step must restore
Own(p) == ShapeOf(p) /\ ReadOf(p)

LEMMA FindFacts ==
  ASSUME TypeOK, IdsUnique, NEW a \in Accounts
  PROVE  /\ Find(a) \in Aggregate
         /\ Find(a).status = account[a].status
         /\ Find(a).balance = account[a].balance
         /\ Find(a).txns = account[a].txns
         /\ Find(a).reversed = account[a].reversed
         /\ Find(a).new = NoTxn
         /\ account[a].reversed \subseteq Ids(account[a].txns)
         /\ None \notin account[a].reversed
  <1>1. account[a].reversed \subseteq Ids(account[a].txns)
    BY DEF IdsUnique
  <1>2. None \notin Ids(account[a].txns)
    BY DEF IdsUnique, Ids, None, TypeOK
  <1> QED
    BY <1>1, <1>2, FindType DEF Find

LEMMA ThrowShape ==
  ASSUME TypeOK, NEW p \in Requests, Own(p), Throw(p)
  PROVE  Own(p)'
  BY DEF Throw, End, Goto, ledger, TypeOK, Own, ShapeOf, ReadOf

LEMMA BeginShape ==
  ASSUME TypeOK, IdsUnique, NEW p \in Requests, Own(p), Begin(p)
  PROVE  Own(p)'
  <1>1. ASSUME NEW op \in {"IN", "OUT", "TRANSFER"}, NEW a \in Accounts,
               NEW b \in Accounts \cup {None}, NEW n \in Amounts, BeginTransaction(p, op, a, b, n),
               op = "TRANSFER" => b \in Accounts
        PROVE  Own(p)'
    BY <1>1 DEF BeginTransaction, Goto, ledger, TypeOK, Own, ShapeOf, ReadOf
  <1>2. ASSUME NEW r \in Refs, BeginReverse(p, r)
        PROVE  Own(p)'
    BY <1>2 DEF BeginReverse, NoCommand, Goto, ledger, TypeOK, Own, ShapeOf, ReadOf
  <1>3. ASSUME NEW a \in Accounts, NEW s \in Status \cup {"none"}, BeginUpdate(p, a, s)
        PROVE  Own(p)'
    <2> DEFINE agg == IF s \in Status THEN [Find(a) EXCEPT !.status = s] ELSE Find(a)
    <2>1. agg.new = NoTxn /\ agg.txns = account[a].txns /\ agg.reversed = account[a].reversed
          /\ account[a].reversed \subseteq Ids(account[a].txns)
      BY FindFacts DEF Aggregate
    <2>2. source' = [source EXCEPT ![p] = agg] /\ req'[p].op = "UPDATE" /\ req'[p].account = a
          /\ pc'[p] = "save" /\ account' = account /\ todo' = todo
      BY <1>3 DEF BeginUpdate, NoCommand, Goto, ledger, TypeOK
    <2> HIDE DEF agg
    <2>3. source'[p] = agg
      BY <2>2 DEF TypeOK
    <2> QED
      BY <2>1, <2>2, <2>3 DEF Own, ShapeOf, ReadOf
  <1> QED
    BY <1>1, <1>2, <1>3 DEF Begin

LEMMA FindTransactionsShape ==
  ASSUME TypeOK, NEW p \in Requests, Own(p), FindTransactions(p), ~Throw(p)
  PROVE  Own(p)'
  <1> DEFINE found == UNION {{<<a, t>> : t \in {x \in account[a].txns :
                             x.ref = req[p].ref /\ x.id \notin account[a].reversed}} : a \in Accounts}
  <1>1. \A e \in found : e[2] \in account[e[1]].txns
    OBVIOUS
  <1>2. todo' = [todo EXCEPT ![p] = found]
    BY DEF FindTransactions
  <1> HIDE DEF found
  <1>3. todo'[p] = found
    BY <1>2 DEF TypeOK
  <1>4. pc'[p] = "lock" /\ req'[p].op = "REVERSE" /\ account' = account
    BY DEF FindTransactions, Goto, ledger, TypeOK, Own, ShapeOf
  <1> QED
    BY <1>1, <1>3, <1>4 DEF Own, ShapeOf, ReadOf

LEMMA AcquireLockShape ==
  ASSUME TypeOK, NEW p \in Requests, Own(p), AcquireLock(p)
  PROVE  Own(p)'
  BY DEF AcquireLock, Goto, ledger, TypeOK, Own, ShapeOf, ReadOf

LEMMA LoadAccountShape ==
  ASSUME TypeOK, IdsUnique, NEW p \in Requests, Own(p), LoadAccount(p)
  PROVE  Own(p)'
  <1> DEFINE t == NewTxn(p, serial, req[p].op, None)
             a == req[p].account
  <1>1. CASE Throw(p)
    BY <1>1, ThrowShape
  <1>2. CASE ~Throw(p)
    <2>1. a \in Accounts /\ req[p].op \in {"IN", "OUT"}
      BY DEF LoadAccount, Own, ShapeOf
    <2>2. t \in Txn /\ t.other = None /\ t.of = None
      BY <2>1, NewTxnType DEF TypeOK, NewTxn
    <2>3. source' = [source EXCEPT ![p] = Post(Find(a), t)] /\ Goto(p, "save")
          /\ UNCHANGED <<account, req, todo>>
      BY <1>2 DEF LoadAccount
    <2>4. source'[p] = Post(Find(a), t) /\ pc'[p] = "save"
      BY <2>3 DEF TypeOK, Goto
    <2> HIDE DEF t
    <2>5. source'[p].new = t /\ source'[p].txns = account[a].txns
          /\ source'[p].reversed \subseteq Ids(account[a].txns)
      BY <2>1, <2>2, <2>4, FindFacts, PostType
    <2> QED
      BY <2>1, <2>2, <2>3, <2>4, <2>5 DEF Own, ShapeOf, ReadOf
  <1> QED
    BY <1>1, <1>2

LEMMA LoadPayerShape ==
  ASSUME TypeOK, IdsUnique, NEW p \in Requests, Own(p), LoadPayer(p)
  PROVE  Own(p)'
  <1>1. req[p].account \in Accounts /\ req[p].to \in Accounts /\ req[p].op = "TRANSFER"
    BY DEF LoadPayer, Own, ShapeOf
  <1>2. source'[p] = Find(req[p].account) /\ pc'[p] = "loadTo" /\ UNCHANGED <<account, req, todo>>
    BY DEF LoadPayer, Goto, ledger, TypeOK
  <1> QED
    BY <1>1, <1>2, FindFacts DEF Own, ShapeOf, ReadOf

\* What LoadPayee drafts
LEMMA LoadPayeeFacts ==
  ASSUME TypeOK, IdsUnique, NEW p \in Requests, Own(p), LoadPayee(p), ~Throw(p)
  PROVE  /\ req[p].account \in Accounts /\ req[p].to \in Accounts /\ req[p].op = "TRANSFER"
         /\ MayPost(source[p], NewTxn(p, serial, "OUT", req[p].to))
         /\ source'[p] = Post(source[p], NewTxn(p, serial, "OUT", req[p].to))
         /\ source'[p].new = NewTxn(p, serial, "OUT", req[p].to)
         /\ source'[p].txns = source[p].txns /\ source'[p].reversed = source[p].reversed
         /\ source'[p].balance = source[p].balance
         /\ target'[p].new = NewTxn(p, serial + 1, "IN", req[p].account)
         /\ target'[p].txns = account[req[p].to].txns
         /\ target'[p].reversed = account[req[p].to].reversed
         /\ NewTxn(p, serial, "OUT", req[p].to) \in Txn
         /\ NewTxn(p, serial + 1, "IN", req[p].account) \in Txn
         /\ serial' = serial + 2 /\ pc[p] = "loadTo" /\ pc'[p] = "save"
         /\ UNCHANGED <<account, unguarded, holder, req, want, todo>>
  <1> DEFINE debit == NewTxn(p, serial, "OUT", req[p].to)
             credit == NewTxn(p, serial + 1, "IN", req[p].account)
  <1>1. req[p].account \in Accounts /\ req[p].to \in Accounts /\ req[p].op = "TRANSFER"
    BY DEF LoadPayee, Own, ShapeOf
  <1>2. debit \in Txn /\ credit \in Txn
    BY <1>1, NewTxnType DEF TypeOK
  <1>3. /\ MayPost(source[p], debit)
        /\ source' = [source EXCEPT ![p] = Post(source[p], debit)]
        /\ target' = [target EXCEPT ![p] = Post(Find(req[p].to), credit)]
        /\ serial' = serial + 2 /\ Goto(p, "save") /\ pc[p] = "loadTo"
        /\ UNCHANGED <<account, unguarded, holder, req, want, todo>>
    BY DEF LoadPayee, TypeOK
  <1> HIDE DEF debit, credit
  <1>4. source'[p] = Post(source[p], debit) /\ target'[p] = Post(Find(req[p].to), credit)
        /\ pc'[p] = "save"
    BY <1>3 DEF TypeOK, Goto
  <1>5. source[p] \in Aggregate
    BY DEF TypeOK
  <1>6. source'[p].new = debit /\ source'[p].txns = source[p].txns
        /\ source'[p].reversed = source[p].reversed /\ source'[p].balance = source[p].balance
    BY <1>2, <1>4, <1>5, PostType
  <1>7. target'[p].new = credit /\ target'[p].txns = account[req[p].to].txns
        /\ target'[p].reversed = account[req[p].to].reversed
    BY <1>1, <1>2, <1>4, FindFacts, PostType
  <1> QED
    BY <1>1, <1>2, <1>3, <1>4, <1>6, <1>7 DEF debit, credit

LEMMA LoadPayeeShape ==
  ASSUME TypeOK, IdsUnique, NEW p \in Requests, Own(p), LoadPayee(p)
  PROVE  Own(p)'
  <1>1. CASE Throw(p)
    BY <1>1, ThrowShape
  <1>2. CASE ~Throw(p)
    <2>1. /\ req[p].account \in Accounts /\ req[p].to \in Accounts /\ req[p].op = "TRANSFER"
          /\ source'[p].new = NewTxn(p, serial, "OUT", req[p].to)
          /\ source'[p].txns = source[p].txns /\ source'[p].reversed = source[p].reversed
          /\ target'[p].new = NewTxn(p, serial + 1, "IN", req[p].account)
          /\ target'[p].txns = account[req[p].to].txns
          /\ target'[p].reversed = account[req[p].to].reversed
          /\ pc[p] = "loadTo" /\ pc'[p] = "save"
          /\ UNCHANGED <<account, req, todo>>
      BY <1>2, LoadPayeeFacts
    <2>2. account[req[p].to].reversed \subseteq Ids(account[req[p].to].txns)
      BY <2>1, FindFacts
    <2>3. ReadOf(p)'
      BY <2>1, <2>2 DEF Own, ReadOf
    <2>4. serial # serial + 1
      BY DEF TypeOK
    <2>5. ShapeOf(p)'
      BY <2>1, <2>4 DEF NewTxn, ShapeOf
    <2> QED
      BY <2>3, <2>5 DEF Own
  <1> QED
    BY <1>1, <1>2

\* What LoadReversed drafts
LEMMA LoadReversedFacts ==
  ASSUME TypeOK, IdsUnique, NEW p \in Requests, Own(p), LoadReversed(p), ~Throw(p)
  PROVE  \E e \in todo[p] :
           /\ e[1] \in Accounts /\ e[2] \in Txn /\ e[2] \in account[e[1]].txns
           /\ Opposite(e[2]) \in Txn
           /\ MayPost(Find(e[1]), Opposite(e[2])) /\ e[2].id \notin account[e[1]].reversed
           /\ source'[p].new = Opposite(e[2])
           /\ source'[p].txns = account[e[1]].txns
           /\ source'[p].reversed = account[e[1]].reversed \cup {e[2].id}
           /\ req'[p].account = e[1] /\ req'[p].op = "REVERSE" /\ req[p].op = "REVERSE"
           /\ todo'[p] \subseteq todo[p]
           /\ serial' = serial + 1 /\ pc[p] = "load" /\ pc'[p] = "save"
           /\ UNCHANGED <<account, unguarded, holder, want, target>>
  <1>1. PICK e \in todo[p] :
            /\ MayPost(Find(e[1]), Opposite(e[2])) /\ MayMark(Find(e[1]), e[2])
            /\ source' = [source EXCEPT ![p] = Mark(Post(Find(e[1]), Opposite(e[2])), e[2])]
            /\ req' = [req EXCEPT ![p].account = e[1]]
            /\ todo' = [todo EXCEPT ![p] = @ \ {e}]
            /\ serial' = serial + 1 /\ Goto(p, "save")
            /\ UNCHANGED <<account, unguarded, holder, want, target>>
    BY DEF LoadReversed
  <1>2. e[1] \in Accounts /\ e[2] \in Txn /\ e[2] \in account[e[1]].txns
    BY DEF TypeOK, Own, ReadOf
  <1>3. Opposite(e[2]) \in Txn
    BY <1>2, OppositeType
  <1>4. source'[p] = Mark(Post(Find(e[1]), Opposite(e[2])), e[2])
    BY <1>1 DEF TypeOK
  <1>5. /\ Post(Find(e[1]), Opposite(e[2])) \in Aggregate
        /\ Post(Find(e[1]), Opposite(e[2])).new = Opposite(e[2])
        /\ Post(Find(e[1]), Opposite(e[2])).txns = account[e[1]].txns
        /\ Post(Find(e[1]), Opposite(e[2])).reversed = account[e[1]].reversed
    BY <1>2, <1>3, FindFacts, PostType
  <1>6. source'[p].new = Opposite(e[2]) /\ source'[p].txns = account[e[1]].txns
        /\ source'[p].reversed = account[e[1]].reversed \cup {e[2].id}
    BY <1>2, <1>4, <1>5, MarkType
  <1>7. e[2].id \notin account[e[1]].reversed
    BY <1>1, <1>2, FindFacts DEF MayMark
  <1>8. req'[p].account = e[1] /\ req'[p].op = "REVERSE" /\ req[p].op = "REVERSE"
    BY <1>1 DEF TypeOK, Command, LoadReversed
  <1>9. todo'[p] \subseteq todo[p] /\ pc'[p] = "save" /\ pc[p] = "load"
    BY <1>1 DEF TypeOK, Goto, LoadReversed
  <1> QED
    BY <1>1, <1>2, <1>3, <1>6, <1>7, <1>8, <1>9

LEMMA LoadReversedShape ==
  ASSUME TypeOK, IdsUnique, NEW p \in Requests, Own(p), LoadReversed(p)
  PROVE  Own(p)'
  <1>1. CASE Throw(p)
    BY <1>1, ThrowShape
  <1>2. CASE ~Throw(p)
    <2>1. PICK e \in todo[p] :
           /\ e[1] \in Accounts /\ e[2] \in Txn /\ e[2] \in account[e[1]].txns
           /\ source'[p].new = Opposite(e[2])
           /\ source'[p].txns = account[e[1]].txns
           /\ source'[p].reversed = account[e[1]].reversed \cup {e[2].id}
           /\ req'[p].account = e[1] /\ req'[p].op = "REVERSE"
           /\ todo'[p] \subseteq todo[p]
           /\ pc'[p] = "save"
           /\ UNCHANGED account
      BY <1>2, LoadReversedFacts
    <2>2. e[2].id \in Ids(account[e[1]].txns)
      BY <2>1 DEF Ids
    <2>3. account[e[1]].reversed \subseteq Ids(account[e[1]].txns)
      BY <2>1, FindFacts
    <2>4. source'[p].new.of = e[2].id
          /\ source'[p].new = OppositeOf(e[2], source'[p].new.id)
      BY <2>1 DEF Opposite, OppositeOf
    <2>5. ReadOf(p)'
      BY <2>1, <2>2, <2>3 DEF Own, ReadOf
    <2>6. ShapeOf(p)'
      BY <2>1, <2>2, <2>4 DEF ShapeOf
    <2> QED
      BY <2>5, <2>6 DEF Own
  <1> QED
    BY <1>1, <1>2

LEMMA SaveShape ==
  ASSUME TypeOK, NEW p \in Requests, Own(p), Saves(p)
  PROVE  Own(p)'
  <1>1. Grows
    BY StepGrows DEF Own, Step, Work, Saves
  <1>2. UNCHANGED <<req, todo, source, target>>
    BY SaveFacts DEF Own
  <1>3. \A e \in todo'[p] : e[2] \in account'[e[1]].txns
    <2>1. \A e \in todo[p] : e[1] \in Accounts /\ e[2] \in account[e[1]].txns
      BY DEF TypeOK, Own, ReadOf
    <2> QED
      BY <1>1, <1>2, <2>1 DEF Grows
  <1>4. CASE SaveAccount(p)
    <2>1. pc[p] = "save" /\ pc'[p] = AfterSave(p)
      BY <1>4 DEF SaveAccount, Goto, TypeOK
    <2>2. /\ pc'[p] \in {"saveTo", "load", "commit"}
          /\ pc'[p] = "saveTo" => req[p].op = "TRANSFER"
          /\ pc'[p] = "load" => req[p].op = "REVERSE"
      BY <2>1 DEF AfterSave
    <2>3. pc'[p] = "saveTo" => source[p].new \in account'[req[p].account].txns
      <3> SUFFICES ASSUME req[p].op = "TRANSFER" PROVE source[p].new \in account'[req[p].account].txns
        BY <2>2
      <3>1. source[p].new # NoTxn /\ req[p].account \in Accounts
        BY <2>1 DEF Own, ShapeOf, NoTxn
      <3>2. account'[req[p].account].txns = account[req[p].account].txns \cup ({source[p].new} \ {NoTxn})
        BY <1>4, <3>1, WrittenFacts DEF SaveAccount, TypeOK
      <3> QED
        BY <3>1, <3>2
    <2>4. ShapeOf(p)'
      BY <1>2, <2>1, <2>2, <2>3 DEF Own, ShapeOf
    <2>5. ReadOf(p)'
      <3>1. pc'[p] = "saveTo" => target[p].txns \subseteq account'[req[p].to].txns
                                  /\ target[p].reversed \subseteq Ids(target[p].txns)
        BY <1>1, <2>1, <2>2 DEF Own, ShapeOf, ReadOf, Grows
      <3> QED
        BY <1>2, <1>3, <2>2, <3>1 DEF ReadOf
    <2> QED
      BY <2>4, <2>5 DEF Own
  <1>5. CASE SavePayee(p)
    <2>1. pc'[p] = "commit"
      BY <1>5 DEF SavePayee, Goto, TypeOK
    <2>2. ReadOf(p)'
      BY <1>3, <2>1 DEF ReadOf
    <2>3. ShapeOf(p)'
      BY <2>1 DEF ShapeOf
    <2> QED
      BY <2>2, <2>3 DEF Own
  <1> QED
    BY <1>4, <1>5 DEF Saves

LEMMA EndShape ==
  ASSUME TypeOK, NEW p \in Requests, Own(p), Commit(p) \/ Reply(p) \/ Fail(p) \/ Lapse(p)
  PROVE  Own(p)'
  <1>1. CASE Commit(p) \/ Fail(p)
    BY <1>1 DEF Commit, Fail, End, Goto, ledger, TypeOK, Own, ShapeOf, ReadOf
  <1>2. CASE Reply(p)
    BY <1>2 DEF Reply, Goto, ledger, TypeOK, Own, ShapeOf, ReadOf
  <1>3. CASE Lapse(p)
    BY <1>3 DEF Lapse, ledger, TypeOK, Own, ShapeOf, ReadOf
  <1> QED
    BY <1>1, <1>2, <1>3

LEMMA OwnShape ==
  ASSUME TypeOK, IdsUnique, NEW p \in Requests, Own(p), Step(p)
  PROVE  Own(p)'
  BY BeginShape, FindTransactionsShape, ThrowShape, AcquireLockShape, LoadAccountShape,
     LoadPayerShape, LoadPayeeShape, LoadReversedShape, SaveShape, EndShape
  DEF Step, Work, Saves

-----------------------------------------------------------------------------
(* Funds and marks of the request that moves *)

Kept(p) == CoveredOf(p) /\ MarksOf(p)

\* A step to a place where no aggregate is at work
LEMMA IdleKept ==
  ASSUME NEW p \in Requests, pc'[p] \notin {"loadTo", "save", "saveTo"}
  PROVE  Kept(p)'
  BY DEF Kept, CoveredOf, MarksOf

\* A step after which the request holds no lock
LEMMA LooseKept ==
  ASSUME NEW p \in Requests, ShapeOf(p)', \A a \in Accounts : holder'[a] # p
  PROVE  Kept(p)'
  BY DEF Kept, CoveredOf, MarksOf, Holds, ShapeOf

\* Posting a transaction the aggregate may post leaves no debt.
LEMMA PostCovered ==
  ASSUME NEW agg \in Aggregate, NEW t \in Txn, agg.balance >= 0, MayPost(agg, t)
  PROVE  agg.balance + Signed(t) >= 0
  BY DEF MayPost, MayCredit, MayDebit, HasSufficientFunds, Signed, Aggregate, Txn

LEMMA LoadAccountKept ==
  ASSUME TypeOK, IdsUnique, NoOverdraft, NEW p \in Requests, Own(p), LoadAccount(p)
  PROVE  Kept(p)'
  <1> DEFINE t == NewTxn(p, serial, req[p].op, None)
             a == req[p].account
  <1>1. CASE Throw(p)
    BY <1>1, IdleKept DEF Throw, End, Goto, TypeOK
  <1>2. CASE ~Throw(p)
    <2>1. a \in Accounts /\ req[p].op \in {"IN", "OUT"}
      BY DEF LoadAccount, Own, ShapeOf
    <2>2. t \in Txn /\ t.of = None
      BY <2>1, NewTxnType DEF TypeOK, NewTxn
    <2>3. source' = [source EXCEPT ![p] = Post(Find(a), t)] /\ Goto(p, "save") /\ MayPost(Find(a), t)
          /\ UNCHANGED <<account, unguarded, holder, req>>
      BY <1>2 DEF LoadAccount
    <2>4. source'[p] = Post(Find(a), t) /\ pc'[p] = "save"
      BY <2>3 DEF TypeOK, Goto
    <2> HIDE DEF t
    <2>5. source'[p].new = t /\ source'[p].reversed = account[a].reversed /\ None \notin account[a].reversed
      BY <2>1, <2>2, <2>4, FindFacts, PostType
    <2>6. "command" \notin unguarded[a] => account[a].balance + Signed(t) >= 0
      BY <2>1, <2>2, <2>3, FindFacts, PostCovered DEF NoOverdraft
    <2> QED
      BY <2>1, <2>2, <2>3, <2>4, <2>5, <2>6 DEF Kept, CoveredOf, MarksOf, Holds
  <1> QED
    BY <1>1, <1>2

LEMMA LoadPayerKept ==
  ASSUME TypeOK, IdsUnique, NEW p \in Requests, Own(p), LoadPayer(p)
  PROVE  Kept(p)'
  <1>1. req[p].account \in Accounts
    BY DEF LoadPayer, Own, ShapeOf
  <1>2. source'[p] = Find(req[p].account) /\ pc'[p] = "loadTo" /\ UNCHANGED <<account, req>>
    BY DEF LoadPayer, Goto, ledger, TypeOK
  <1> QED
    BY <1>1, <1>2, FindFacts DEF Kept, CoveredOf, MarksOf

LEMMA LoadPayeeKept ==
  ASSUME TypeOK, IdsUnique, NoOverdraft, NEW p \in Requests, Own(p), Kept(p), LoadPayee(p)
  PROVE  Kept(p)'
  <1>1. CASE Throw(p)
    BY <1>1, IdleKept DEF Throw, End, Goto, TypeOK
  <1>2. CASE ~Throw(p)
    <2> DEFINE debit == NewTxn(p, serial, "OUT", req[p].to)
    <2>1. /\ req[p].account \in Accounts /\ req[p].to \in Accounts /\ req[p].op = "TRANSFER"
          /\ MayPost(source[p], debit)
          /\ source'[p].new = debit
          /\ source'[p].reversed = source[p].reversed
          /\ target'[p].reversed = account[req[p].to].reversed
          /\ debit \in Txn
          /\ pc[p] = "loadTo" /\ pc'[p] = "save"
          /\ UNCHANGED <<account, unguarded, holder, req>>
      BY <1>2, LoadPayeeFacts
    <2>2. debit.of = None
      BY DEF NewTxn
    <2> HIDE DEF debit
    <2>3. source[p] \in Aggregate
      BY DEF TypeOK
    <2>4. source[p].balance >= 0 => source[p].balance + Signed(debit) >= 0
      BY <2>1, <2>3, PostCovered
    <2>5. CoveredOf(p)'
      BY <2>1, <2>4 DEF Kept, CoveredOf, Holds, NoOverdraft
    <2>6. MarksOf(p)'
      BY <2>1, <2>2 DEF Kept, MarksOf, Holds
    <2> QED
      BY <2>5, <2>6 DEF Kept
  <1> QED
    BY <1>1, <1>2

LEMMA LoadReversedKept ==
  ASSUME TypeOK, IdsUnique, NoOverdraft, NEW p \in Requests, Own(p), LoadReversed(p)
  PROVE  Kept(p)'
  <1>1. CASE Throw(p)
    BY <1>1, IdleKept DEF Throw, End, Goto, TypeOK
  <1>2. CASE ~Throw(p)
    <2>1. PICK e \in todo[p] :
           /\ e[1] \in Accounts /\ e[2] \in Txn /\ e[2] \in account[e[1]].txns
           /\ Opposite(e[2]) \in Txn
           /\ MayPost(Find(e[1]), Opposite(e[2])) /\ e[2].id \notin account[e[1]].reversed
           /\ source'[p].new = Opposite(e[2])
           /\ source'[p].reversed = account[e[1]].reversed \cup {e[2].id}
           /\ req'[p].account = e[1] /\ req'[p].op = "REVERSE"
           /\ pc'[p] = "save"
           /\ UNCHANGED <<account, unguarded, holder>>
      BY <1>2, LoadReversedFacts
    <2>2. source'[p].new.of = e[2].id /\ e[2].id # None
      BY <2>1 DEF Opposite, OppositeOf, IdsUnique, TypeOK, None
    <2>3. "command" \notin unguarded[e[1]] => account[e[1]].balance + Signed(Opposite(e[2])) >= 0
      BY <2>1, FindFacts, PostCovered DEF NoOverdraft
    <2> QED
      BY <2>1, <2>2, <2>3 DEF Kept, CoveredOf, MarksOf, Holds
  <1> QED
    BY <1>1, <1>2

\* A transfer that saved the payer's account writes the payee's marks next.
LEMMA SaveKept ==
  ASSUME TypeOK, NEW p \in Requests, Own(p), Kept(p), Saves(p)
  PROVE  Kept(p)'
  <1>1. CASE SavePayee(p)
    BY <1>1, IdleKept DEF SavePayee, Goto, TypeOK
  <1>2. CASE SaveAccount(p)
    <2>1. pc[p] = "save" /\ pc'[p] = AfterSave(p) /\ UNCHANGED <<holder, req, source, target>>
          /\ Update(p, req[p].account, source[p])
      BY <1>2 DEF SaveAccount, Goto, TypeOK
    <2>2. pc'[p] \in {"saveTo", "load", "commit"}
      BY <2>1 DEF AfterSave
    <2>3. CASE pc'[p] # "saveTo"
      BY <2>2, <2>3, IdleKept
    <2>4. CASE pc'[p] = "saveTo"
      <3>1. req[p].op = "TRANSFER"
        BY <2>1, <2>4 DEF AfterSave
      <3>2. /\ req[p].account \in Accounts /\ req[p].to \in Accounts /\ source[p] \in Aggregate
            /\ source[p].new.of = None
        BY <2>1, <3>1 DEF Own, ShapeOf, TypeOK
      <3>3. ASSUME holder[req[p].to] = p, unguarded'[req[p].to] = {}
            PROVE  target[p].reversed = account'[req[p].to].reversed
        <4>1. CASE req[p].to # req[p].account
          <5>1. account'[req[p].to] = account[req[p].to] /\ unguarded[req[p].to] = {}
            BY <2>1, <3>2, <3>3, <4>1, WrittenFacts
          <5> QED
            BY <2>1, <3>1, <3>3, <5>1 DEF Kept, MarksOf, Holds
        <4>2. CASE req[p].to = req[p].account
          <5>1. /\ unguarded[req[p].to] = {}
                /\ account'[req[p].to].reversed =
                      (account[req[p].to].reversed \ Ids(source[p].txns)) \cup source[p].reversed
            BY <2>1, <3>2, <3>3, <4>2, WrittenFacts
          <5>2. source[p].reversed = account[req[p].to].reversed
            BY <2>1, <3>2, <3>3, <4>2, <5>1 DEF Kept, MarksOf, Holds
          <5>3. target[p].reversed = account[req[p].to].reversed
            BY <2>1, <3>1, <3>3, <5>1 DEF Kept, MarksOf, Holds
          <5> QED
            BY <5>1, <5>2, <5>3
        <4> QED
          BY <4>1, <4>2
      <3>4. CoveredOf(p)'
        BY <2>4 DEF CoveredOf
      <3>5. MarksOf(p)'
        BY <2>1, <2>4, <3>3 DEF MarksOf, Holds
      <3> QED
        BY <3>4, <3>5 DEF Kept
    <2> QED
      BY <2>3, <2>4
  <1> QED
    BY <1>1, <1>2 DEF Saves

LEMMA OtherKept ==
  ASSUME TypeOK, NEW p \in Requests, Own(p), LocksOf(p),
         \/ Begin(p) \/ FindTransactions(p) \/ Throw(p) \/ AcquireLock(p)
         \/ Commit(p) \/ Fail(p) \/ Lapse(p) \/ Reply(p),
         Own(p)'
  PROVE  Kept(p)'
  <1>1. CASE Begin(p)
    <2>1. pc[p] = "idle" /\ holder' = holder
      BY <1>1 DEF Begin, BeginTransaction, BeginReverse, BeginUpdate
    <2> QED
      BY <2>1, LooseKept DEF LocksOf, Holds, Own
  <1>2. CASE FindTransactions(p)
    BY <1>2, IdleKept DEF FindTransactions, Throw, End, Goto, TypeOK
  <1>3. CASE AcquireLock(p)
    <2>1. pc'[p] \in {"load", "lock"}
      BY <1>3 DEF AcquireLock, Goto, TypeOK
    <2> QED
      BY <2>1, IdleKept
  <1>4. CASE Throw(p) \/ Commit(p) \/ Fail(p)
    <2>1. pc'[p] = "done"
      BY <1>4 DEF Throw, Commit, Fail, End, Goto, TypeOK
    <2> QED
      BY <2>1, IdleKept
  <1>5. CASE Reply(p)
    BY <1>5, IdleKept DEF Reply, Goto, TypeOK
  <1>6. CASE Lapse(p)
    BY <1>6, LooseKept, LedgerAssumption DEF Lapse, Release, LedgerAssumption, Own
  <1> QED
    BY <1>1, <1>2, <1>3, <1>4, <1>5, <1>6

LEMMA OwnKept ==
  ASSUME TypeOK, IdsUnique, NoOverdraft, NEW p \in Requests, Own(p), Kept(p), LocksOf(p), Step(p), Own(p)'
  PROVE  Kept(p)'
  BY LoadAccountKept, LoadPayerKept, LoadPayeeKept, LoadReversedKept, SaveKept, OtherKept
  DEF Step, Work, Saves

-----------------------------------------------------------------------------
(* The locks of the request that moves *)

\* Every nonempty set of accounts has a least and a greatest element.
LEMMA LeastAccount ==
  ASSUME NEW S \in SUBSET Accounts, S # {}
  PROVE  \E a \in S : \A b \in S : a <= b
  <1>1. S \subseteq Nat
    BY LedgerAssumption DEF LedgerAssumption, Accounts
  <1>2. PICK a \in S : \A b \in S : <<b, a>> \notin OpToRel(<, Nat)
    BY <1>1, WFMin, NatLessThanWellFounded
  <1>3. \A b \in S : ~(b < a)
    BY <1>1, <1>2 DEF OpToRel
  <1> QED
    BY <1>1, <1>3

LEMMA GreatestAccount ==
  ASSUME NEW S \in SUBSET Accounts, S # {}
  PROVE  \E a \in S : \A b \in S : b <= a
  <1> DEFINE T == {NumAccounts + 1 - a : a \in S}
  <1>1. NumAccounts \in Nat /\ \A a \in S : a \in Nat /\ 1 <= a /\ a <= NumAccounts
    BY LedgerAssumption DEF LedgerAssumption, Accounts
  <1>2. T \in SUBSET Accounts /\ T # {}
    <2>1. \A a \in S : NumAccounts + 1 - a \in Accounts
      BY <1>1 DEF Accounts
    <2> QED
      BY <2>1
  <1>3. PICK t \in T : \A u \in T : t <= u
    BY <1>2, LeastAccount
  <1>4. PICK a \in S : t = NumAccounts + 1 - a
    BY <1>3
  <1>5. \A b \in S : NumAccounts + 1 - a <= NumAccounts + 1 - b
    BY <1>3, <1>4
  <1> QED
    BY <1>1, <1>4, <1>5

LEMMA NextKeyFacts ==
  ASSUME TypeOK, NEW p \in Requests, want[p] # {}
  PROVE  NextKey(p) \in want[p] /\ \A b \in want[p] : NextKey(p) <= b
  <1>1. \E a \in want[p] : \A b \in want[p] : a <= b
    BY LeastAccount DEF TypeOK
  <1> QED
    BY <1>1 DEF NextKey

LEMMA AcquireLocks ==
  ASSUME TypeOK, NEW p \in Requests, LocksOf(p), AcquireLock(p)
  PROVE  LocksOf(p)'
  <1> DEFINE k == NextKey(p)
  <1>1. /\ pc[p] = "lock" /\ holder' = [holder EXCEPT ![k] = p]
        /\ want' = [want EXCEPT ![p] = @ \ {k}]
        /\ pc' = [pc EXCEPT ![p] = IF want[p] = {k} THEN "load" ELSE "lock"]
    BY DEF AcquireLock, Goto
  <1>2. want[p] # {} /\ \A a \in Accounts : holder[a] = p => \A b \in want[p] : a < b
    BY <1>1 DEF LocksOf, Holds
  <1>3. k \in want[p] /\ \A b \in want[p] : k <= b
    BY <1>2, NextKeyFacts
  <1> HIDE DEF k
  <1>4. want[p] \subseteq Accounts /\ Accounts \subseteq Nat
    BY LedgerAssumption DEF LedgerAssumption, Accounts, TypeOK
  <1>5. want'[p] = want[p] \ {k} /\ pc'[p] = IF want[p] = {k} THEN "load" ELSE "lock"
    BY <1>1 DEF TypeOK
  <1>6. CASE want[p] = {k}
    BY <1>5, <1>6 DEF LocksOf
  <1>7. CASE want[p] # {k}
    <2>1. want'[p] # {}
      BY <1>3, <1>5, <1>7
    <2>2. \A a \in Accounts : holder'[a] = p => holder[a] = p \/ a = k
      BY <1>1 DEF TypeOK
    <2>3. \A b \in want'[p] : k < b
      <3> TAKE b \in want'[p]
      <3>1. b \in want[p] /\ b # k
        BY <1>5
      <3>2. b \in Nat /\ k \in Nat /\ k <= b
        BY <1>3, <1>4, <3>1
      <3> QED
        BY <3>1, <3>2
    <2>4. \A a \in Accounts : holder'[a] = p => \A b \in want'[p] : a < b
      BY <1>2, <1>5, <2>2, <2>3
    <2> QED
      BY <1>5, <1>7, <2>1, <2>4 DEF LocksOf, Holds
  <1> QED
    BY <1>6, <1>7

LEMMA OwnLocks ==
  ASSUME TypeOK, NEW p \in Requests, LocksOf(p), Step(p)
  PROVE  LocksOf(p)'
  <1>1. CASE Begin(p)
    <2>1. pc[p] = "idle" /\ holder' = holder
      BY <1>1 DEF Begin, BeginTransaction, BeginReverse, BeginUpdate
    <2>2. pc'[p] = "lock" => want'[p] # {}
      <3>1. ASSUME NEW op, NEW a \in Accounts, NEW b, NEW n, BeginTransaction(p, op, a, b, n)
            PROVE  want'[p] # {}
        <4>1. a # None
          BY DEF Accounts, None
        <4> QED
          BY <3>1, <4>1 DEF BeginTransaction, TypeOK
      <3>2. ASSUME NEW r, BeginReverse(p, r) PROVE pc'[p] = "find"
        BY <3>2 DEF BeginReverse, Goto, TypeOK
      <3>3. ASSUME NEW a, NEW s, BeginUpdate(p, a, s) PROVE pc'[p] = "save"
        BY <3>3 DEF BeginUpdate, Goto, TypeOK
      <3> QED
        BY <1>1, <3>1, <3>2, <3>3 DEF Begin
    <2> QED
      BY <2>1, <2>2 DEF LocksOf, Holds
  <1>2. CASE FindTransactions(p) /\ ~Throw(p)
    <2>1. want'[p] # {} /\ pc[p] = "find" /\ pc'[p] = "lock" /\ holder' = holder
      <3> DEFINE found == UNION {{<<a, t>> : t \in {x \in account[a].txns :
                             x.ref = req[p].ref /\ x.id \notin account[a].reversed}} : a \in Accounts}
      <3>1. found # {} /\ want' = [want EXCEPT ![p] = {e[1] : e \in found}]
            /\ pc[p] = "find" /\ Goto(p, "lock") /\ holder' = holder
        BY <1>2 DEF FindTransactions
      <3> HIDE DEF found
      <3> QED
        BY <3>1 DEF Goto, TypeOK
    <2> QED
      BY <2>1 DEF LocksOf, Holds
  <1>3. CASE AcquireLock(p)
    BY <1>3, AcquireLocks
  <1>4. CASE Throw(p) \/ Commit(p) \/ Fail(p)
    <2>1. pc'[p] = "done" /\ \A a \in Accounts : holder'[a] # p
      BY <1>4, LedgerAssumption
      DEF Throw, Commit, Fail, End, Goto, Release, TypeOK, LedgerAssumption
    <2> QED
      BY <2>1 DEF LocksOf, Holds
  <1>5. CASE Reply(p)
    BY <1>5 DEF Reply, Goto, LocksOf, Holds, TypeOK
  <1>6. CASE Lapse(p)
    BY <1>6 DEF Lapse, LocksOf
  <1>7. CASE Saves(p)
    BY <1>7 DEF Saves, SaveAccount, SavePayee, AfterSave, Goto, LocksOf, TypeOK
  <1>8. CASE LoadPayer(p)
    BY <1>8 DEF LoadPayer, Goto, LocksOf, TypeOK
  <1>9. CASE (LoadAccount(p) \/ LoadPayee(p) \/ LoadReversed(p)) /\ ~Throw(p)
    <2>1. pc'[p] = "save"
      BY <1>9 DEF LoadAccount, LoadPayee, LoadReversed, Goto, TypeOK
    <2> QED
      BY <2>1 DEF LocksOf
  <1> QED
    BY <1>1, <1>2, <1>3, <1>4, <1>5, <1>6, <1>7, <1>8, <1>9 DEF Step, Work, Saves

-----------------------------------------------------------------------------
(* Ids *)

\* Without a save, the moving request keeps its drafts, drops them or has new
\* ones under new ids.
NewDrafts(p) ==
    /\ \A t \in Drafts(p)' : t.id \in serial .. serial' - 1
    /\ \A t, u \in Drafts(p)' : t.id = u.id => t = u

LEMMA DraftsType ==
  ASSUME TypeOK, NEW p \in Requests
  PROVE  Drafts(p) \subseteq Txn
  BY DEF Drafts, TypeOK, Aggregate

LEMMA LoadDrafts ==
  ASSUME TypeOK, IdsUnique, NEW p \in Requests, Own(p), ~Throw(p),
         LoadAccount(p) \/ LoadPayee(p) \/ LoadReversed(p)
  PROVE  NewDrafts(p)
  <1> serial \in Nat
    BY DEF TypeOK
  <1>1. CASE LoadAccount(p)
    <2> DEFINE t == NewTxn(p, serial, req[p].op, None)
               a == req[p].account
    <2>1. a \in Accounts /\ req[p].op \in {"IN", "OUT"}
      BY <1>1 DEF LoadAccount, Own, ShapeOf
    <2>2. t \in Txn /\ t.id = serial
      BY <2>1, NewTxnType DEF TypeOK, NewTxn
    <2>3. source' = [source EXCEPT ![p] = Post(Find(a), t)] /\ Goto(p, "save") /\ req' = req
          /\ serial' = serial + 1
      BY <1>1 DEF LoadAccount
    <2>4. source'[p] = Post(Find(a), t) /\ pc'[p] = "save"
      BY <2>3 DEF TypeOK, Goto
    <2> HIDE DEF t
    <2>5. source'[p].new = t
      BY <2>1, <2>2, <2>4, FindFacts, PostType
    <2>6. Drafts(p)' \subseteq {t}
      BY <2>1, <2>3, <2>4, <2>5 DEF Drafts
    <2> QED
      BY <2>2, <2>3, <2>6 DEF NewDrafts
  <1>2. CASE LoadPayee(p)
    <2> DEFINE t == NewTxn(p, serial, "OUT", req[p].to)
               u == NewTxn(p, serial + 1, "IN", req[p].account)
    <2>1. source'[p].new = t /\ target'[p].new = u /\ serial' = serial + 2
      BY <1>2, LoadPayeeFacts
    <2>2. t.id = serial /\ u.id = serial + 1
      BY DEF NewTxn
    <2> HIDE DEF t, u
    <2>3. Drafts(p)' \subseteq {t, u}
      BY <2>1 DEF Drafts
    <2> QED
      BY <2>1, <2>2, <2>3 DEF NewDrafts
  <1>3. CASE LoadReversed(p)
    <2>1. PICK e \in todo[p] :
             /\ source'[p].new = Opposite(e[2]) /\ req'[p].op = "REVERSE" /\ serial' = serial + 1
      BY <1>3, LoadReversedFacts
    <2>2. Opposite(e[2]).id = serial
      BY DEF Opposite, OppositeOf
    <2>3. Drafts(p)' \subseteq {Opposite(e[2])}
      BY <2>1 DEF Drafts
    <2> QED
      BY <2>1, <2>2, <2>3 DEF NewDrafts
  <1> QED
    BY <1>1, <1>2, <1>3

LEMMA QuietDrafts ==
  ASSUME TypeOK, IdsUnique, NEW p \in Requests, Own(p), Own(p)', Step(p), ~Saves(p)
  PROVE  Drafts(p)' \subseteq Drafts(p) \/ NewDrafts(p)
  <1>1. CASE (LoadAccount(p) \/ LoadPayee(p) \/ LoadReversed(p)) /\ ~Throw(p)
    BY <1>1, LoadDrafts
  <1>2. CASE Lapse(p)
    BY <1>2 DEF Lapse, Drafts
  <1>3. CASE \/ FindTransactions(p) \/ Throw(p) \/ AcquireLock(p) \/ LoadPayer(p)
             \/ Commit(p) \/ Fail(p) \/ Reply(p)
    <2>1. pc'[p] \notin {"save", "saveTo"}
      BY <1>3
      DEF FindTransactions, Throw, AcquireLock, LoadPayer, Commit, Fail, Reply, End, Goto, TypeOK
    <2> QED
      BY <2>1 DEF Drafts
  <1>4. CASE Begin(p)
    <2>1. pc'[p] = "save" => req'[p].op = "UPDATE"
      <3>1. ASSUME NEW op, NEW a, NEW b, NEW n, BeginTransaction(p, op, a, b, n)
            PROVE  pc'[p] = "lock"
        BY <3>1 DEF BeginTransaction, Goto, TypeOK
      <3>2. ASSUME NEW r, BeginReverse(p, r) PROVE pc'[p] = "find"
        BY <3>2 DEF BeginReverse, Goto, TypeOK
      <3>3. ASSUME NEW a, NEW s, BeginUpdate(p, a, s) PROVE req'[p].op = "UPDATE"
        BY <3>3 DEF BeginUpdate, NoCommand, TypeOK
      <3> QED
        BY <1>4, <3>1, <3>2, <3>3 DEF Begin
    <2>2. pc'[p] # "saveTo"
      BY <1>4 DEF Begin, BeginTransaction, BeginReverse, BeginUpdate, Goto, TypeOK
    <2>3. pc'[p] = "save" => source'[p].new = NoTxn
      BY <2>1 DEF Own, ShapeOf
    <2> QED
      BY <2>1, <2>2, <2>3 DEF Drafts
  <1> QED
    BY <1>1, <1>2, <1>3, <1>4 DEF Step, Work, Saves

\* What a save adds to the rows is no longer a draft.
LEMMA SaveDrafts ==
  ASSUME TypeOK, NEW p \in Requests, Own(p), Saves(p)
  PROVE  /\ Drafts(p)' \subseteq Drafts(p)
         /\ Draft(p).new # NoTxn => Draft(p).new \in Drafts(p)
         /\ Draft(p).new \notin Drafts(p)'
  <1>1. CASE SaveAccount(p)
    <2>1. /\ pc[p] = "save" /\ pc'[p] = AfterSave(p) /\ UNCHANGED <<req, source, target>>
      BY <1>1 DEF SaveAccount, Goto, TypeOK
    <2>2. /\ pc'[p] \in {"saveTo", "load", "commit"}
          /\ pc'[p] = "saveTo" => req[p].op = "TRANSFER"
      BY <2>1 DEF AfterSave
    <2>3. req[p].op = "TRANSFER" => source[p].new # target[p].new
      BY <2>1 DEF Own, ShapeOf
    <2> QED
      BY <2>1, <2>2, <2>3 DEF Drafts, Draft
  <1>2. CASE SavePayee(p)
    <2>1. /\ pc[p] = "saveTo" /\ pc'[p] = "commit" /\ req[p].op = "TRANSFER"
      BY <1>2 DEF SavePayee, Goto, TypeOK, Own, ShapeOf
    <2> QED
      BY <2>1 DEF Drafts, Draft
  <1> QED
    BY <1>1, <1>2 DEF Saves

LEMMA OtherDrafts ==
  ASSUME NEW q \in Requests, SameLocals(q)
  PROVE  Drafts(q)' = Drafts(q)
  BY DEF SameLocals, Drafts

LEMMA FreshStep ==
  ASSUME TypeOK, IdsUnique, DraftsFresh, NEW p \in Requests, Own(p), Own(p)', Step(p),
         \A q \in Requests \ {p} : SameLocals(q)
  PROVE  DraftsFresh'
  <1>1. \A q \in Requests : q # p => Drafts(q)' = Drafts(q)
    BY OtherDrafts
  <1>2. serial \in Nat /\ \A q \in Requests : \A t \in Drafts(q) : t.id \in 1 .. serial - 1
    BY DEF TypeOK, DraftsFresh
  <1>3. CASE ~Saves(p)
    <2>1. account' = account /\ serial' \in {serial, serial + 1, serial + 2}
      BY <1>3, StepQuiet DEF Quiet
    <2>2. CASE Drafts(p)' \subseteq Drafts(p)
      <3>1. \A q \in Requests : Drafts(q)' \subseteq Drafts(q)
        BY <1>1, <2>2
      <3> QED
        BY <1>2, <2>1, <3>1 DEF DraftsFresh
    <2>3. CASE NewDrafts(p)
      <3>1. \A a \in Accounts : \A u \in account[a].txns : u.id \in 1 .. serial - 1
        BY DEF IdsUnique
      <3>2. serial > 0
        BY LedgerAssumption DEF LedgerAssumption, IdsUnique, TypeOK
      <3>3. \A t \in Drafts(p)' : t.id \in 1 .. serial' - 1 /\ t.id >= serial
        BY <1>2, <2>1, <2>3, <3>2 DEF NewDrafts
      <3>4. \A q \in Requests : \A t \in Drafts(q)' :
                /\ t.id \in 1 .. serial' - 1
                /\ \A a \in Accounts : \A u \in account'[a].txns : t.id # u.id
        <4> TAKE q \in Requests
        <4> TAKE t \in Drafts(q)'
        <4>1. CASE q = p
          BY <1>2, <2>1, <3>1, <3>3, <4>1
        <4>2. CASE q # p
          <5>1. t \in Drafts(q)
            BY <1>1, <4>2
          <5> QED
            BY <1>2, <2>1, <5>1 DEF DraftsFresh
        <4> QED
          BY <4>1, <4>2
      <3>5. \A q, r \in Requests : \A t \in Drafts(q)', u \in Drafts(r)' :
                t.id = u.id => q = r /\ t = u
        <4> TAKE q, r \in Requests
        <4> TAKE t \in Drafts(q)', u \in Drafts(r)'
        <4>1. CASE q = p /\ r = p
          BY <2>3, <4>1 DEF NewDrafts
        <4>2. CASE q = p /\ r # p
          <5>1. t.id >= serial /\ t.id \in Nat /\ u.id \in 1 .. serial - 1
            BY <1>1, <1>2, <2>1, <3>3, <4>2
          <5> QED
            BY <1>2, <5>1
        <4>3. CASE q # p /\ r = p
          <5>1. u.id >= serial /\ u.id \in Nat /\ t.id \in 1 .. serial - 1
            BY <1>1, <1>2, <2>1, <3>3, <4>3
          <5> QED
            BY <1>2, <5>1
        <4>4. CASE q # p /\ r # p
          BY <1>1, <4>4 DEF DraftsFresh
        <4> QED
          BY <4>1, <4>2, <4>3, <4>4
      <3> QED
        BY <3>4, <3>5 DEF DraftsFresh
    <2> QED
      BY <1>3, <2>2, <2>3, QuietDrafts
  <1>4. CASE Saves(p)
    <2> DEFINE new == Draft(p).new
    <2>1. Saved(p) \in Accounts /\ Draft(p) \in Aggregate /\ Update(p, Saved(p), Draft(p)) /\ serial' = serial
      BY <1>4, SaveFacts DEF Own
    <2>2. \A a \in Accounts : account'[a].txns \subseteq account[a].txns \cup ({new} \ {NoTxn})
      BY <2>1, WrittenFacts
    <2>3. /\ Drafts(p)' \subseteq Drafts(p)
          /\ new # NoTxn => new \in Drafts(p)
          /\ new \notin Drafts(p)'
      BY <1>4, SaveDrafts
    <2> HIDE DEF new
    <2>4. \A q \in Requests : Drafts(q)' \subseteq Drafts(q) /\ new \notin {t \in Drafts(q)' : new # NoTxn}
      BY <1>1, <2>3 DEF DraftsFresh
    <2>5. \A q \in Requests : \A t \in Drafts(q)' : \A a \in Accounts : \A u \in account'[a].txns : t.id # u.id
      <3> TAKE q \in Requests
      <3> TAKE t \in Drafts(q)'
      <3> TAKE a \in Accounts
      <3> TAKE u \in account'[a].txns
      <3>1. CASE u \in account[a].txns
        BY <2>4, <3>1 DEF DraftsFresh
      <3>2. CASE u = new /\ new # NoTxn
        <4>1. u \in Drafts(p) /\ t \in Drafts(q) /\ t # u
          BY <2>3, <2>4, <3>2
        <4> QED
          BY <4>1 DEF DraftsFresh
      <3> QED
        BY <2>2, <3>1, <3>2
    <2> QED
      BY <2>1, <2>4, <2>5 DEF DraftsFresh
  <1> QED
    BY <1>3, <1>4

\* What a save adds: nothing, or a draft whose opposite's original is there.
LEMMA NewRow ==
  ASSUME TypeOK, IdsUnique, DraftsFresh, NEW p \in Requests, Own(p), Saves(p)
  PROVE  /\ Draft(p).txns \subseteq account[Saved(p)].txns
         /\ Draft(p).reversed \subseteq Ids(account[Saved(p)].txns)
         /\ Draft(p).new.of # None => Draft(p).new.of \in Ids(account[Saved(p)].txns)
         /\ Draft(p).new # NoTxn =>
               /\ Draft(p).new.id \in 1 .. serial - 1
               /\ \A a \in Accounts : \A u \in account[a].txns : Draft(p).new.id # u.id
         /\ Draft(p).new \in Txn
  <1>1. Draft(p).txns \subseteq account[Saved(p)].txns /\ Draft(p).reversed \subseteq Ids(Draft(p).txns)
    <2>1. CASE pc[p] = "save"
      BY <2>1 DEF Own, ReadOf, Draft, Saved
    <2>2. CASE pc[p] = "saveTo"
      <3>1. req[p].op = "TRANSFER"
        BY <2>2 DEF Own, ShapeOf
      <3> QED
        BY <2>2, <3>1 DEF Own, ReadOf, Draft, Saved
    <2> QED
      BY <2>1, <2>2, SaveFacts DEF Own
  <1>2. Draft(p).reversed \subseteq Ids(account[Saved(p)].txns)
    BY <1>1 DEF Ids
  <1>3. Draft(p).new.of # None => Draft(p).new.of \in Ids(account[Saved(p)].txns)
    <2>1. CASE pc[p] = "save"
      <3>1. req[p].op \in {"IN", "OUT", "TRANSFER", "REVERSE", "UPDATE"}
        BY DEF TypeOK, Command
      <3>2. NoTxn.of = None
        BY DEF NoTxn
      <3> QED
        BY <2>1, <3>1, <3>2 DEF Own, ShapeOf, Draft, Saved
    <2>2. CASE pc[p] = "saveTo"
      BY <2>2 DEF Own, ShapeOf, Draft, Saved
    <2> QED
      BY <2>1, <2>2, SaveFacts DEF Own
  <1>4. Draft(p).new # NoTxn => Draft(p).new \in Drafts(p)
    BY SaveDrafts
  <1>5. Draft(p).new \in Txn
    BY SaveFacts DEF Own, Aggregate
  <1> QED
    BY <1>1, <1>2, <1>3, <1>4, <1>5 DEF DraftsFresh

LEMMA IdsStep ==
  ASSUME TypeOK, IdsUnique, DraftsFresh, NEW p \in Requests, Own(p), Step(p)
  PROVE  IdsUnique'
  <1>1. CASE ~Saves(p)
    <2>1. account' = account /\ serial' \in {serial, serial + 1, serial + 2} /\ serial \in Nat
      BY <1>1, StepQuiet DEF Quiet, TypeOK
    <2>2. serial' > NumAccounts
      BY <2>1, LedgerAssumption DEF LedgerAssumption, IdsUnique
    <2>3. \A a \in Accounts : \A t \in account[a].txns : t.id \in 1 .. serial' - 1
      BY <2>1 DEF IdsUnique
    <2> QED
      BY <2>1, <2>2, <2>3 DEF IdsUnique
  <1>2. CASE Saves(p)
    <2> DEFINE a == Saved(p)
               new == Draft(p).new
    <2>1. a \in Accounts /\ Draft(p) \in Aggregate /\ Update(p, a, Draft(p)) /\ serial' = serial
      BY <1>2, SaveFacts DEF Own
    <2>2. account'[a].txns = account[a].txns \cup ({new} \ {NoTxn})
          /\ account'[a].reversed = (account[a].reversed \ Ids(Draft(p).txns)) \cup Draft(p).reversed
          /\ \A b \in Accounts : b # a => account'[b] = account[b]
      BY <2>1, WrittenFacts
    <2>3. /\ Draft(p).reversed \subseteq Ids(account[a].txns)
          /\ new.of # None => new.of \in Ids(account[a].txns)
          /\ new # NoTxn =>
               /\ new.id \in 1 .. serial - 1
               /\ \A b \in Accounts : \A u \in account[b].txns : new.id # u.id
      BY <1>2, NewRow
    <2> HIDE DEF a, new
    <2>4. Ids(account[a].txns) \subseteq Ids(account'[a].txns)
      BY <2>2 DEF Ids
    <2>5. \A b \in Accounts : \A t \in account'[b].txns :
              t \in account[b].txns \/ (b = a /\ t = new /\ new # NoTxn)
      BY <2>2
    <2>6. \A b \in Accounts : \A t \in account'[b].txns : t.id \in 1 .. serial - 1
      BY <2>3, <2>5 DEF IdsUnique
    <2>7. \A b, c \in Accounts : \A t \in account'[b].txns, u \in account'[c].txns :
              t.id = u.id => b = c /\ t = u
      BY <2>3, <2>5 DEF IdsUnique
    <2>8. \A b \in Accounts : account'[b].reversed \subseteq Ids(account'[b].txns)
      <3> TAKE b \in Accounts
      <3>1. CASE b = a
        BY <2>1, <2>2, <2>3, <2>4, <3>1 DEF IdsUnique
      <3>2. CASE b # a
        BY <2>2, <3>2 DEF IdsUnique
      <3> QED
        BY <3>1, <3>2
    <2>9. \A b \in Accounts : \A t \in account'[b].txns : t.of # None => t.of \in Ids(account'[b].txns)
      <3> TAKE b \in Accounts
      <3> TAKE t \in account'[b].txns
      <3>1. CASE b = a
        BY <2>1, <2>3, <2>4, <2>5, <3>1 DEF IdsUnique
      <3>2. CASE b # a
        BY <2>2, <3>2 DEF IdsUnique
      <3> QED
        BY <3>1, <3>2
    <2> QED
      BY <2>1, <2>6, <2>7, <2>8, <2>9 DEF IdsUnique
  <1> QED
    BY <1>1, <1>2

-----------------------------------------------------------------------------
(* Funds, transfers and reversals of the accounts *)

LEMMA OverdraftStep ==
  ASSUME TypeOK, NoOverdraft, NEW p \in Requests, Own(p), Kept(p), Step(p)
  PROVE  NoOverdraft'
  <1>1. CASE ~Saves(p)
    BY <1>1, StepQuiet DEF Quiet, NoOverdraft
  <1>2. CASE Saves(p)
    <2> DEFINE a == Saved(p)
               new == Draft(p).new
    <2>1. a \in Accounts /\ Draft(p) \in Aggregate /\ Update(p, a, Draft(p))
          /\ pc[p] \in {"save", "saveTo"}
      BY <1>2, SaveFacts DEF Own
    <2>2. /\ account'[a].balance = account[a].balance + Signed(new)
          /\ \A b \in Accounts : b # a => account'[b] = account[b] /\ unguarded'[b] = unguarded[b]
          /\ holder[a] = p => unguarded'[a] = unguarded[a]
          /\ holder[a] # p => unguarded[a] \subseteq unguarded'[a]
          /\ holder[a] # p /\ req[p].op # "UPDATE" => "command" \in unguarded'[a]
      BY <2>1, WrittenFacts
    <2>3. new \in Txn /\ account[a].balance \in Int
      BY <2>1 DEF Aggregate, TypeOK, Row
    <2>4. ASSUME "command" \notin unguarded'[a]
          PROVE  account[a].balance + Signed(new) >= 0
      <3>1. "command" \notin unguarded[a]
        BY <2>2, <2>4
      <3>2. account[a].balance >= 0
        BY <2>1, <3>1 DEF NoOverdraft
      <3>3. CASE req[p].op = "UPDATE"
        <4>1. new = NoTxn
          BY <2>1, <3>3 DEF Own, ShapeOf, Draft
        <4> QED
          BY <2>3, <3>2, <4>1 DEF Signed, NoTxn
      <3>4. CASE req[p].op # "UPDATE" /\ pc[p] = "save"
        BY <2>2, <2>4, <3>1, <3>4 DEF Kept, CoveredOf, Holds, Saved, Draft
      <3>5. CASE req[p].op # "UPDATE" /\ pc[p] = "saveTo"
        <4>1. new.type = "IN"
          BY <3>5 DEF Own, ShapeOf, Draft
        <4> QED
          BY <2>3, <3>2, <4>1 DEF Signed, Txn
      <3> QED
        BY <2>1, <3>3, <3>4, <3>5
    <2> HIDE DEF a, new
    <2> QED
      BY <2>1, <2>2, <2>4 DEF NoOverdraft
  <1> QED
    BY <1>1, <1>2

LEMMA CreditStep ==
  ASSUME TypeOK, IdsUnique, CreditFollowsDebit, NEW p \in Requests, Own(p), Step(p)
  PROVE  CreditFollowsDebit'
  <1>1. CASE ~Saves(p)
    BY <1>1, StepQuiet DEF Quiet, CreditFollowsDebit
  <1>2. CASE Saves(p)
    <2> DEFINE new == Draft(p).new
    <2>1. Saved(p) \in Accounts /\ Draft(p) \in Aggregate /\ Update(p, Saved(p), Draft(p))
          /\ pc[p] \in {"save", "saveTo"}
      BY <1>2, SaveFacts DEF Own
    <2>2. \A a \in Accounts : account'[a].txns \subseteq account[a].txns \cup ({new} \ {NoTxn})
      BY <2>1, WrittenFacts
    <2>3. Grows
      BY StepGrows DEF Own
    <2>4. ASSUME new # NoTxn, new.type = "IN", new.other # None, new.of = None
          PROVE  /\ pc[p] = "saveTo" /\ new.other = req[p].account /\ req[p].account \in Accounts
                 /\ source[p].new \in account[req[p].account].txns
                 /\ source[p].new.type = "OUT" /\ source[p].new.ref = new.ref
                 /\ source[p].new.amount = new.amount /\ source[p].new.of = None
      <3>1. pc[p] = "saveTo"
        <4> SUFFICES ASSUME pc[p] = "save" PROVE FALSE
          BY <2>1
        <4>1. req[p].op \in {"IN", "OUT", "TRANSFER", "REVERSE", "UPDATE"}
          BY DEF TypeOK, Command
        <4>2. req[p].account \in Accounts
          BY DEF Own, ShapeOf
        <4>3. None \notin Ids(account[req[p].account].txns)
          BY <4>2 DEF IdsUnique, Ids, None, TypeOK
        <4> QED
          BY <2>4, <4>1, <4>3 DEF Own, ShapeOf, Draft
      <3> QED
        BY <3>1 DEF Own, ShapeOf, Draft
    <2> HIDE DEF new
    <2> SUFFICES ASSUME NEW a \in Accounts, NEW t \in account'[a].txns,
                        t.type = "IN", t.other # None, t.of = None
                 PROVE  \E u \in account'[t.other].txns :
                            u.type = "OUT" /\ u.ref = t.ref /\ u.amount = t.amount /\ u.of = None
      BY DEF CreditFollowsDebit
    <2>5. CASE t \in account[a].txns
      <3>1. t.other \in Accounts
        BY <2>5 DEF TypeOK, Row, Txn
      <3>2. PICK u \in account[t.other].txns :
                u.type = "OUT" /\ u.ref = t.ref /\ u.amount = t.amount /\ u.of = None
        BY <2>5 DEF CreditFollowsDebit
      <3> QED
        BY <2>3, <3>1, <3>2 DEF Grows
    <2>6. CASE t = new /\ new # NoTxn
      BY <2>3, <2>4, <2>6 DEF Grows
    <2> QED
      BY <2>2, <2>5, <2>6
  <1> QED
    BY <1>1, <1>2

LEMMA ReversedStep ==
  ASSUME TypeOK, IdsUnique, DraftsFresh, ReversedOnce, NEW p \in Requests, Own(p), Kept(p), Step(p)
  PROVE  ReversedOnce'
  <1>1. CASE ~Saves(p)
    BY <1>1, StepQuiet DEF Quiet, ReversedOnce
  <1>2. CASE Saves(p)
    <2> DEFINE a == Saved(p)
               new == Draft(p).new
               old == account[a].txns
    <2>1. a \in Accounts /\ Draft(p) \in Aggregate /\ Update(p, a, Draft(p))
          /\ pc[p] \in {"save", "saveTo"}
      BY <1>2, SaveFacts DEF Own
    <2>2. /\ account'[a].txns = old \cup ({new} \ {NoTxn})
          /\ account'[a].reversed = (account[a].reversed \ Ids(Draft(p).txns)) \cup Draft(p).reversed
          /\ \A b \in Accounts : b # a => account'[b] = account[b] /\ unguarded'[b] = unguarded[b]
          /\ holder[a] = p => unguarded'[a] = unguarded[a]
          /\ holder[a] # p => unguarded'[a] # {}
      BY <2>1, WrittenFacts
    <2>3. /\ new.of # None => new.of \in Ids(old)
          /\ new # NoTxn =>
               /\ new.id \in 1 .. serial - 1
               /\ \A u \in old : new.id # u.id
      BY <1>2, <2>1, NewRow
    <2>4. ASSUME unguarded'[a] = {}
          PROVE  /\ Draft(p).reversed = account[a].reversed \cup ({new.of} \ {None})
                 /\ new.of \notin account[a].reversed
                 /\ unguarded[a] = {}
      <3>1. holder[a] = p /\ unguarded[a] = {}
        BY <2>2, <2>4
      <3>2. CASE pc[p] = "save"
        BY <3>1, <3>2 DEF Kept, MarksOf, Holds, Saved, Draft
      <3>3. CASE pc[p] = "saveTo"
        <4>1. new.of = None /\ req[p].op = "TRANSFER"
          BY <3>3 DEF Own, ShapeOf, Draft
        <4>2. Draft(p).reversed = account[a].reversed
          BY <3>1, <3>3, <4>1 DEF Kept, MarksOf, Holds, Saved, Draft
        <4>3. None \notin account[a].reversed
          BY <2>1, FindFacts
        <4> QED
          BY <3>1, <4>1, <4>2, <4>3
      <3> QED
        BY <2>1, <3>2, <3>3
    <2>5. /\ account[a].reversed \subseteq Ids(old) /\ None \notin Ids(old)
          /\ \A t \in old : t.of # None => t.of \in Ids(old)
          /\ \A t, u \in old : t.id = u.id => t = u
      BY <2>1 DEF IdsUnique, Ids, None, TypeOK
    <2>6. unguarded[a] = {} =>
            /\ \A t \in old : t.id \in account[a].reversed <=> \E r \in old : r.of = t.id
            /\ \A r, s \in old : r.of = s.of /\ r.of # None => r = s
      BY <2>1 DEF ReversedOnce
    <2>7. NoTxn.of = None
      BY DEF NoTxn
    <2> HIDE DEF a, new, old
    <2>8. ASSUME unguarded'[a] = {}
          PROVE  /\ \A t \in account'[a].txns :
                       t.id \in account'[a].reversed <=> \E r \in account'[a].txns : r.of = t.id
                 /\ \A r, s \in account'[a].txns : r.of = s.of /\ r.of # None => r = s
      <3>1. account'[a].reversed = account[a].reversed \cup ({new.of} \ {None})
        BY <2>2, <2>4, <2>8
      <3>2. /\ \A t \in old : t.id \in account[a].reversed <=> \E r \in old : r.of = t.id
            /\ \A r, s \in old : r.of = s.of /\ r.of # None => r = s
        BY <2>4, <2>6, <2>8
      <3>3. \A t \in account'[a].txns :
                t.id \in account'[a].reversed <=> \E r \in account'[a].txns : r.of = t.id
        <4> TAKE t \in account'[a].txns
        <4>1. CASE t \in old
          <5>1. t.id # None
            BY <2>5, <4>1 DEF Ids
          <5>2. t.id \in account'[a].reversed <=> (\E r \in old : r.of = t.id) \/ new.of = t.id
            BY <3>1, <3>2, <4>1, <5>1
          <5>3. (\E r \in account'[a].txns : r.of = t.id) <=> (\E r \in old : r.of = t.id) \/ new.of = t.id
            BY <2>2, <2>7, <5>1
          <5> QED
            BY <5>2, <5>3
        <4>2. CASE t = new /\ new # NoTxn
          <5>1. t.id \notin Ids(old) /\ t.id # None
            BY <2>3, <4>2 DEF Ids, None, TypeOK
          <5>2. t.id \notin account'[a].reversed
            BY <2>3, <2>5, <3>1, <5>1
          <5>3. \A r \in account'[a].txns : r.of # t.id
            BY <2>2, <2>3, <2>5, <5>1
          <5> QED
            BY <5>2, <5>3
        <4> QED
          BY <2>2, <4>1, <4>2
      <3>4. \A r \in old : r.of = new.of => r.of = None
        <4> SUFFICES ASSUME NEW r \in old, r.of = new.of, r.of # None PROVE FALSE
          OBVIOUS
        <4>1. PICK u \in old : u.id = new.of
          BY <2>3 DEF Ids
        <4>2. u.id \in account[a].reversed
          BY <3>2, <4>1
        <4> QED
          BY <2>4, <2>8, <4>1, <4>2
      <3>5. \A r, s \in account'[a].txns : r.of = s.of /\ r.of # None => r = s
        BY <2>2, <3>2, <3>4
      <3> QED
        BY <3>3, <3>5
    <2> QED
      BY <2>1, <2>2, <2>8 DEF ReversedOnce
  <1> QED
    BY <1>1, <1>2

-----------------------------------------------------------------------------
(* The theorems *)

LEMMA InitInv == Init => IInv
  <1> SUFFICES ASSUME Init PROVE IInv
    OBVIOUS
  <1>1. TypeOK
    BY InitType
  <1>2. \A a \in Accounts :
          /\ account[a].reversed = {}
          /\ account[a].balance \in Nat
          /\ \A t \in account[a].txns : t.id = a /\ t.other = None /\ t.of = None
          /\ \A t, u \in account[a].txns : t = u
    BY LedgerAssumption DEF LedgerAssumption, Init, Opened
  <1>3. IdsUnique
    <2>1. serial = NumAccounts + 1 /\ NumAccounts \in Nat
      BY LedgerAssumption DEF LedgerAssumption, Init
    <2>2. \A a \in Accounts : a \in 1 .. serial - 1
      BY <2>1 DEF Accounts
    <2> QED
      BY <1>2, <2>1, <2>2 DEF IdsUnique
  <1>4. \A p \in Requests : pc[p] = "idle" /\ todo[p] = {} /\ \A a \in Accounts : holder[a] # p
    BY LedgerAssumption DEF LedgerAssumption, Init
  <1>5. DraftsFresh
    <2>1. \A p \in Requests : Drafts(p) = {}
      BY <1>4 DEF Drafts
    <2> QED
      BY <2>1 DEF DraftsFresh
  <1>6. \A p \in Requests : ShapeOf(p) /\ ReadOf(p) /\ CoveredOf(p) /\ MarksOf(p) /\ LocksOf(p)
    BY <1>4 DEF ShapeOf, ReadOf, CoveredOf, MarksOf, LocksOf, Holds
  <1>7. NoOverdraft
    BY <1>2 DEF NoOverdraft
  <1>8. CreditFollowsDebit
    BY <1>2 DEF CreditFollowsDebit
  <1>9. ReversedOnce
    <2>1. \A a \in Accounts : a # None
      BY DEF Accounts, None
    <2> QED
      BY <1>2, <2>1 DEF ReversedOnce
  <1> QED
    BY <1>1, <1>3, <1>5, <1>6, <1>7, <1>8, <1>9 DEF IInv

\* One step of one request preserves the invariant.
LEMMA StepInv ==
  ASSUME IInv, NEW p \in Requests, Step(p)
  PROVE  IInv'
  <1>1. /\ TypeOK /\ IdsUnique /\ DraftsFresh /\ NoOverdraft /\ CreditFollowsDebit /\ ReversedOnce
        /\ \A q \in Requests : Own(q) /\ Kept(q) /\ LocksOf(q)
    BY DEF IInv, Own, Kept
  <1>2. TypeOK'
    BY <1>1, TypeStep DEF Own, Step
  <1>3. Grows
    BY <1>1, StepGrows DEF Own
  <1>4. \A q \in Requests \ {p} : SameLocals(q)
    BY <1>1, StepFrame
  <1>5. Own(p)'
    BY <1>1, OwnShape
  <1>6. Kept(p)'
    BY <1>1, <1>5, OwnKept
  <1>7. LocksOf(p)'
    BY <1>1, OwnLocks
  <1>8. \A q \in Requests \ {p} : Own(q)' /\ Kept(q)' /\ LocksOf(q)'
    <2> TAKE q \in Requests \ {p}
    <2>1. SameLocals(q) /\ q # p
      BY <1>4
    <2>2. Own(q) /\ Kept(q) /\ LocksOf(q) /\ Own(p)
      BY <1>1
    <2>3. ShapeOf(q)' /\ ReadOf(q)'
      BY <1>1, <1>3, <2>1, <2>2, OtherShape DEF Own
    <2>4. CoveredOf(q)' /\ MarksOf(q)'
      BY <1>1, <2>1, <2>2, OtherCovered DEF Own, Kept
    <2>5. LocksOf(q)'
      BY <2>1, <2>2, OtherLocks
    <2> QED
      BY <2>3, <2>4, <2>5 DEF Own, Kept
  <1>9. \A q \in Requests : Own(q)' /\ Kept(q)' /\ LocksOf(q)'
    BY <1>5, <1>6, <1>7, <1>8
  <1>10. IdsUnique'
    BY <1>1, IdsStep
  <1>11. DraftsFresh'
    BY <1>1, <1>4, <1>5, FreshStep
  <1>12. NoOverdraft' /\ CreditFollowsDebit' /\ ReversedOnce'
    BY <1>1, OverdraftStep, CreditStep, ReversedStep
  <1> QED
    BY <1>2, <1>9, <1>10, <1>11, <1>12 DEF IInv, Own, Kept

LEMMA StutterInv ==
  ASSUME IInv, UNCHANGED vars
  PROVE  IInv'
  <1>1. TypeOK' /\ IdsUnique' /\ NoOverdraft' /\ CreditFollowsDebit' /\ ReversedOnce'
    BY DEF IInv, vars, TypeOK, IdsUnique, NoOverdraft, CreditFollowsDebit, ReversedOnce
  <1>2. DraftsFresh'
    <2>1. \A p \in Requests : Drafts(p)' = Drafts(p)
      BY DEF vars, Drafts
    <2> QED
      BY <2>1 DEF IInv, vars, DraftsFresh
  <1>3. ASSUME NEW p \in Requests
        PROVE  ShapeOf(p)' /\ ReadOf(p)' /\ CoveredOf(p)' /\ MarksOf(p)' /\ LocksOf(p)'
    <2>1. ShapeOf(p)' /\ ReadOf(p)'
      BY DEF IInv, vars, ShapeOf, ReadOf
    <2>2. CoveredOf(p)' /\ MarksOf(p)' /\ LocksOf(p)'
      BY DEF IInv, vars, CoveredOf, MarksOf, LocksOf, Holds
    <2> QED
      BY <2>1, <2>2
  <1> QED
    BY <1>1, <1>2, <1>3 DEF IInv

\* The inductive invariant holds in every reachable state.
THEOREM InvTheorem == Spec => []IInv
  <1>1. Init => IInv
    BY InitInv
  <1>2. IInv /\ [Next]_vars => IInv'
    BY StepInv, StutterInv DEF Next, Step
  <1> QED
    BY <1>1, <1>2, PTL DEF Spec

\* Type correctness of the ledger and of every command in flight.
THEOREM TypeTheorem == Spec => []TypeOK
  <1>1. IInv => TypeOK
    BY DEF IInv
  <1> QED
    BY <1>1, InvTheorem, PTL

\* An account all of whose commands kept their locks is never overdrawn
\* (hasSufficientFunds and withLocks together).
THEOREM NoOverdraftTheorem == Spec => []NoOverdraft
  <1>1. IInv => NoOverdraft
    BY DEF IInv
  <1> QED
    BY <1>1, InvTheorem, PTL

\* A transfer never credits the payee without having debited the payer (the
\* order of the two updates in the handler).
THEOREM CreditFollowsDebitTheorem == Spec => []CreditFollowsDebit
  <1>1. IInv => CreditFollowsDebit
    BY DEF IInv
  <1> QED
    BY <1>1, InvTheorem, PTL

\* On an account only written under its lock a transaction is reversed once,
\* and marked exactly when its opposite is posted (Transaction.reverse).
THEOREM ReversedOnceTheorem == Spec => []ReversedOnce
  <1>1. IInv => ReversedOnce
    BY DEF IInv
  <1> QED
    BY <1>1, InvTheorem, PTL

\* Requests never wait for each other in a circle (the sort in withLocks).
THEOREM NoWaitCycleTheorem == Spec => []NoWaitCycle
  <1>1. IInv => NoWaitCycle
    <2> SUFFICES ASSUME IInv, NEW S \in SUBSET {p \in Requests : Waiting(p)}, S # {},
                        \A p \in S : holder[NextKey(p)] \in S
                 PROVE  FALSE
      BY DEF NoWaitCycle
    <2>1. TypeOK /\ \A p \in S : p \in Requests /\ pc[p] = "lock" /\ LocksOf(p)
      BY DEF IInv, Waiting
    <2>2. \A p \in S : NextKey(p) \in want[p] /\ NextKey(p) \in Accounts
      BY <2>1, NextKeyFacts DEF LocksOf, TypeOK
    <2> DEFINE K == {NextKey(p) : p \in S}
    <2>3. K \in SUBSET Accounts /\ K # {}
      BY <2>2
    <2>4. PICK k \in K : \A b \in K : b <= k
      BY <2>3, GreatestAccount
    <2>5. PICK p \in S : k = NextKey(p)
      BY <2>4
    <2>6. PICK q \in S : holder[k] = q
      BY <2>5
    <2>7. k < NextKey(q)
      BY <2>1, <2>2, <2>5, <2>6 DEF LocksOf, Holds
    <2>8. NextKey(q) <= k /\ k \in Nat /\ NextKey(q) \in Nat
      BY <2>2, <2>3, <2>4, LedgerAssumption DEF LedgerAssumption, Accounts
    <2> QED
      BY <2>7, <2>8
  <1> QED
    BY <1>1, InvTheorem, PTL

-----------------------------------------------------------------------------
(* The commands implement the book *)

\* What a save writes on an account whose promise is kept: the statuses of the
\* row as it stands, and the mark of the transaction the new one reverses.
LEMMA KeptSave ==
  ASSUME TypeOK, IdsUnique, NEW p \in Requests, Own(p), Kept(p), Saves(p), unguarded'[Saved(p)] = {}
  PROVE  /\ unguarded' = unguarded
         /\ Draft(p).reversed = account[Saved(p)].reversed \cup ({Draft(p).new.of} \ {None})
         /\ Draft(p).new.of \notin account[Saved(p)].reversed
  <1>1. Saved(p) \in Accounts /\ Update(p, Saved(p), Draft(p)) /\ pc[p] \in {"save", "saveTo"}
        /\ Draft(p) \in Aggregate
    BY SaveFacts DEF Own
  <1>2. holder[Saved(p)] = p /\ unguarded[Saved(p)] = {}
    BY <1>1, WrittenFacts
  <1>3. unguarded' = unguarded
    BY <1>1, <1>2 DEF Update
  <1>4. CASE pc[p] = "save"
    BY <1>2, <1>3, <1>4 DEF Kept, MarksOf, Holds, Saved, Draft
  <1>5. CASE pc[p] = "saveTo"
    <2>1. Draft(p).new.of = None /\ req[p].op = "TRANSFER"
      BY <1>5 DEF Own, ShapeOf, Draft
    <2>2. Draft(p).reversed = account[Saved(p)].reversed
      BY <1>2, <1>5, <2>1 DEF Kept, MarksOf, Holds, Saved, Draft
    <2>3. None \notin account[Saved(p)].reversed
      BY <1>1, FindFacts
    <2> QED
      BY <1>3, <2>1, <2>2, <2>3
  <1> QED
    BY <1>1, <1>4, <1>5

\* A draft that names an original is its opposite.
LEMMA DraftUndoes ==
  ASSUME TypeOK, IdsUnique, NEW p \in Requests, Own(p), Saves(p), Draft(p).new.of # None
  PROVE  \E o \in account[Saved(p)].txns :
             o.id = Draft(p).new.of /\ Book!Undoes(Draft(p).new, o)
  <1>1. pc[p] \in {"save", "saveTo"}
    BY SaveFacts DEF Own
  <1>2. pc[p] = "save"
    BY <1>1 DEF Own, ShapeOf, Draft
  <1>3. req[p].op \in {"IN", "OUT", "TRANSFER", "REVERSE", "UPDATE"} /\ NoTxn.of = None
    BY DEF TypeOK, Command, NoTxn
  <1>4. req[p].op = "REVERSE"
    BY <1>2, <1>3 DEF Own, ShapeOf, Draft
  <1>5. PICK o \in account[req[p].account].txns :
            source[p].new = OppositeOf(o, source[p].new.id)
    BY <1>2, <1>4 DEF Own, ShapeOf
  <1>6. Saved(p) = req[p].account /\ Draft(p) = source[p] /\ Saved(p) \in Accounts
    BY <1>2, SaveFacts DEF Saved, Draft, Own
  <1>7. o \in Txn
    BY <1>5, <1>6 DEF TypeOK, Row
  <1>8. OppositeOf(o, source[p].new.id).of = o.id /\ Book!Undoes(OppositeOf(o, source[p].new.id), o)
    BY <1>7 DEF OppositeOf, Book!Undoes, Txn
  <1> QED
    BY <1>5, <1>6, <1>8

\* A save seen from outside: a posting, a reversal, a write without the lock,
\* or nothing.
LEMMA BookSave ==
  ASSUME IInv, IInv', NEW p \in Requests, Saves(p)
  PROVE  [Book!Next]_(Book!book_vars)
  <1> DEFINE txns == [b \in Accounts |-> account[b].txns]
             sums == [b \in Accounts |-> account[b].balance]
             marks == [b \in Accounts |-> account[b].reversed]
             clean == {b \in Accounts : unguarded[b] = {}}
  <1>1. TypeOK /\ IdsUnique /\ DraftsFresh /\ Own(p) /\ Kept(p) /\ TypeOK' /\ NoOverdraft'
    BY DEF IInv, Own, Kept
  <1>2. PICK a \in Accounts : a = Saved(p)
    BY <1>1, SaveFacts DEF Own
  <1>3. PICK new \in Txn : new = Draft(p).new
    BY <1>1, NewRow
  <1>4. Draft(p) \in Aggregate /\ Update(p, a, Draft(p))
    BY <1>1, <1>2, SaveFacts DEF Own
  <1>5. /\ account'[a].balance = account[a].balance + Signed(new)
        /\ account'[a].txns = account[a].txns \cup ({new} \ {NoTxn})
        /\ account'[a].reversed = (account[a].reversed \ Ids(Draft(p).txns)) \cup Draft(p).reversed
        /\ \A b \in Accounts : b # a => account'[b] = account[b] /\ unguarded'[b] = unguarded[b]
    BY <1>1, <1>3, <1>4, WrittenFacts
  <1>6. CASE unguarded'[a] # {}
    <2>1. clean' = clean \ {a}
      BY <1>5, <1>6
    <2>2. Book!Spoil(a)
      BY <1>5, <2>1 DEF Book!Spoil
    <2> QED
      BY <2>2 DEF Book!Next
  <1>7. CASE unguarded'[a] = {}
    <2>1. /\ unguarded' = unguarded
          /\ Draft(p).reversed = account[a].reversed \cup ({new.of} \ {None})
          /\ new.of \notin account[a].reversed
      BY <1>1, <1>2, <1>3, <1>7, KeptSave
    <2>2. account'[a].reversed = account[a].reversed \cup ({new.of} \ {None})
      BY <1>5, <2>1
    <2>3. clean' = clean /\ a \in clean
      BY <1>7, <2>1
    <2>4. CASE new = NoTxn
      <3>1. new.of = None /\ Signed(new) = 0
        BY <2>4 DEF NoTxn, Signed
      <3>2. account[a].balance \in Int
        BY <1>1 DEF TypeOK, Row
      <3>3. /\ account'[a].txns = account[a].txns
            /\ account'[a].balance = account[a].balance
            /\ account'[a].reversed = account[a].reversed
        <4>1. account'[a].txns = account[a].txns
          BY <1>5, <2>4
        <4>2. account'[a].balance = account[a].balance
          BY <1>5, <3>1, <3>2
        <4>3. account'[a].reversed = account[a].reversed
          BY <2>2, <3>1
        <4> QED
          BY <4>1, <4>2, <4>3
      <3>4. \A b \in Accounts : /\ account'[b].txns = account[b].txns
                                /\ account'[b].balance = account[b].balance
                                /\ account'[b].reversed = account[b].reversed
        BY <1>5, <3>3
      <3> QED
        BY <2>3, <3>4 DEF Book!book_vars
    <2>5. CASE new # NoTxn
      <3>1. new \notin account[a].txns /\ \A b \in Accounts : \A u \in account[b].txns : u.id # new.id
        BY <1>1, <1>3, <2>5, NewRow
      <3>2. account[a].balance + Signed(new) >= 0
        BY <1>5, <1>7 DEF NoOverdraft, IInv
      <3>3. \A b \in Accounts :
              /\ account'[b].txns = IF b = a THEN account[a].txns \cup {new} ELSE account[b].txns
              /\ account'[b].balance = IF b = a THEN account[a].balance + Signed(new) ELSE account[b].balance
              /\ account'[b].reversed = IF b = a THEN account[a].reversed \cup ({new.of} \ {None})
                                        ELSE account[b].reversed
        BY <1>5, <2>2, <2>5
      <3>4. txns' = [txns EXCEPT ![a] = @ \cup {new}]
        BY <3>3
      <3>5. sums' = [sums EXCEPT ![a] = @ + Signed(new)]
        BY <3>3
      <3>6. marks' = [marks EXCEPT ![a] = @ \cup ({new.of} \ {None})]
        BY <3>3
      <3>7. Book!Change(new) = Signed(new)
        BY DEF Book!Change, Signed
      <3>8. Book!Enter(a, new)
        BY <2>3, <3>1, <3>2, <3>4, <3>5, <3>7 DEF Book!Enter
      <3>9. new \in txns'[a] \ txns[a]
        BY <3>1, <3>3
      <3>10. CASE new.of = None
        <4>1. marks' = marks
          BY <3>3, <3>10
        <4>2. Book!Post(a, new)
          BY <3>8, <4>1 DEF Book!Post
        <4> QED
          BY <3>9, <4>2 DEF Book!Next
      <3>11. CASE new.of # None
        <4>1. PICK o \in account[a].txns : o.id = new.of /\ Book!Undoes(new, o)
          BY <1>1, <1>2, <1>3, <3>11, DraftUndoes
        <4>2. marks' = [marks EXCEPT ![a] = @ \cup {o.id}] /\ o.id \notin marks[a]
          BY <2>1, <3>3, <3>11, <4>1
        <4>3. Book!Reverse(a, new, o)
          BY <3>8, <4>1, <4>2 DEF Book!Reverse
        <4>4. o \in txns[a]
          BY <4>1
        <4> QED
          BY <3>9, <4>3, <4>4 DEF Book!Next
      <3> QED
        BY <3>10, <3>11
    <2> QED
      BY <2>4, <2>5
  <1> QED
    BY <1>6, <1>7

\* Everything else a command does is not seen.
LEMMA BookStutter ==
  ASSUME UNCHANGED <<account, unguarded>>
  PROVE  UNCHANGED Book!book_vars
  BY DEF Book!book_vars

LEMMA BookInit ==
  ASSUME Init
  PROVE  Book!Init
  <1>1. \A a \in Accounts : account[a].balance >= 0 /\ account[a].reversed = {} /\ unguarded[a] = {}
    BY LedgerAssumption DEF Init, Opened, LedgerAssumption
  <1> QED
    BY <1>1 DEF Book!Init

\* The commands of the finance module, with their reads, locks, saves, failures
\* and expired locks, implement the book: on accounts written under their lock
\* every command is one funded posting or one reversal, or nothing at all.
THEOREM BookTheorem == Spec => ImplementsBook
  <1>1. Init => Book!Init
    BY BookInit
  <1>2. IInv /\ IInv' /\ [Next]_vars => [Book!Next]_(Book!book_vars)
    <2> SUFFICES ASSUME IInv, IInv', [Next]_vars PROVE [Book!Next]_(Book!book_vars)
      OBVIOUS
    <2>1. CASE UNCHANGED vars
      BY <2>1, BookStutter DEF vars
    <2>2. ASSUME NEW p \in Requests, Step(p) PROVE [Book!Next]_(Book!book_vars)
      <3>1. CASE Saves(p)
        BY <3>1, BookSave
      <3>2. CASE ~Saves(p)
        BY <2>2, <3>2, StepQuiet, BookStutter DEF Quiet, IInv
      <3> QED
        BY <3>1, <3>2
    <2> QED
      BY <2>1, <2>2 DEF Next, Step
  <1> QED
    BY <1>1, <1>2, InvTheorem, PTL DEF Spec, ImplementsBook, Book!Spec
=============================================================================
