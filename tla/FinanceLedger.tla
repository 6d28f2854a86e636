--------------------------- MODULE FinanceLedger ---------------------------
(***************************************************************************)
(* Accounts and their transactions under concurrent commands: create a     *)
(* transaction (credit, debit, transfer), reverse one, update an account.  *)
(* The first two run under Postgres advisory locks (LockingService), the   *)
(* third does not.  An account is read and written whole; there is no      *)
(* version.  One action is the code between two awaits.                    *)
(***************************************************************************)
EXTENDS Integers, FiniteSets

CONSTANTS
    NumAccounts,  \* accounts are numbered in the order of their ids' strings
    Requests,     \* requests in flight
    Nobody,       \* the holder of a free lock
    Amounts,      \* amounts the clients name
    Ops,          \* the commands the clients use
    Opening,      \* what each account holds at the start
    MaxSerial,    \* requests start while fewer ids were given out
    MaxFaults     \* awaits that reject, crashes and expired lock transactions

VARIABLES
    account,      \* finance_accounts with their finance_transactions
    holder,       \* advisory locks: the request whose transaction holds it
    pc,           \* where a request is
    req,          \* its command
    want,         \* lock keys still to be acquired
    todo,         \* transactions still to be reversed, as read before locking
    source,       \* the aggregate it works on
    target,       \* the payee's aggregate of a transfer
    lapsed,       \* its lock transaction has expired under it
    result,       \* what the command answered
    serial,       \* next transaction id or reference
    unguarded,    \* history: who wrote an account without its lock
    faults

ledger == <<account, serial, unguarded>>
locals == <<pc, req, want, todo, source, target, lapsed, result>>
vars == <<account, holder, pc, req, want, todo, source, target, lapsed, result,
          serial, unguarded, faults>>

Accounts == 1 .. NumAccounts
None == 0         \* no account, no id

LedgerAssumption ==
    /\ NumAccounts \in Nat
    /\ Nobody \notin Requests
    /\ Amounts \subseteq Nat \ {0}
    /\ Opening \in [Accounts -> Nat]
    /\ MaxSerial \in Nat
    /\ MaxFaults \in Nat
ASSUME LedgerAssumption

-----------------------------------------------------------------------------
(* Transactions and aggregates *)

Txn == [id: Nat, ref: Nat, type: {"IN", "OUT"}, amount: Nat,
        other: Accounts \cup {None}, of: Nat]

NoTxn == [id |-> None, ref |-> None, type |-> "IN", amount |-> 0, other |-> None, of |-> None]

Status == {"ACTIVE", "CLOSED"}

\* An account row with the rows of its transactions.  balance is the getter's
\* sum over them, reversed or not.
Row == [status: Status, balance: Int, txns: SUBSET Txn, reversed: SUBSET Nat]

\* An account in memory: the rows as read, with the transaction it appended.
Aggregate == [status: Status, balance: Int, txns: SUBSET Txn, reversed: SUBSET Nat, new: Txn]

NoAggregate == [status |-> "ACTIVE", balance |-> 0, txns |-> {}, reversed |-> {}, new |-> NoTxn]

Command == [op: {"IN", "OUT", "TRANSFER", "REVERSE", "UPDATE"},
            account: Accounts \cup {None}, to: Accounts \cup {None}, amount: Nat, ref: Nat]

NoCommand == [op |-> "UPDATE", account |-> None, to |-> None, amount |-> 0, ref |-> None]

Signed(t) == IF t.type = "IN" THEN t.amount ELSE -t.amount

Ids(S) == {t.id : t \in S}

\* findById
Find(a) == [status |-> account[a].status, balance |-> account[a].balance,
            txns |-> account[a].txns, reversed |-> account[a].reversed, new |-> NoTxn]

Active(agg) == agg.status = "ACTIVE"

HasSufficientFunds(agg, n) == agg.balance >= n

MayCredit(agg) == Active(agg)

\* Mutation: the funds are not looked at.
MayDebitAnyhow(agg, n) == Active(agg)

MayDebit(agg, n) == Active(agg) /\ HasSufficientFunds(agg, n)

MayPost(agg, t) == IF t.type = "IN" THEN MayCredit(agg) ELSE MayDebit(agg, t.amount)

\* credit and debit append one transaction
Post(agg, t) == [agg EXCEPT !.new = t]

\* Mutation: reverse accepts a transaction that is not SUCCESS.
MayMarkAgain(agg, t) == TRUE

\* Transaction.reverse
MayMark(agg, t) == t.id \notin agg.reversed

Mark(agg, t) == [agg EXCEPT !.reversed = @ \cup {t.id}]

\* accountRepository.update: one statement writes the account's columns and
\* upserts every transaction of the aggregate, so rows it has not seen stay and
\* the status of those it has seen is overwritten.
Written(row, agg) ==
    [status   |-> agg.status,
     balance  |-> row.balance + Signed(agg.new),
     txns     |-> row.txns \cup ({agg.new} \ {NoTxn}),
     reversed |-> (row.reversed \ Ids(agg.txns)) \cup agg.reversed]

Update(p, a, agg) ==
    /\ account' = [account EXCEPT ![a] = Written(@, agg)]
    /\ unguarded' = IF holder[a] = p THEN unguarded
                    ELSE [unguarded EXCEPT ![a] =
                             @ \cup {IF req[p].op = "UPDATE" THEN "update" ELSE "command"}]

-----------------------------------------------------------------------------

Opened(a) ==
    [status |-> "ACTIVE", balance |-> Opening[a], reversed |-> {},
     txns |-> IF Opening[a] = 0 THEN {}
              ELSE {[id |-> a, ref |-> a, type |-> "IN", amount |-> Opening[a],
                     other |-> None, of |-> None]}]

Init ==
    /\ account = [a \in Accounts |-> Opened(a)]
    /\ holder = [a \in Accounts |-> Nobody]
    /\ pc = [p \in Requests |-> "idle"]
    /\ req = [p \in Requests |-> NoCommand]
    /\ want = [p \in Requests |-> {}]
    /\ todo = [p \in Requests |-> {}]
    /\ source = [p \in Requests |-> NoAggregate]
    /\ target = [p \in Requests |-> NoAggregate]
    /\ lapsed = [p \in Requests |-> FALSE]
    /\ result = [p \in Requests |-> "none"]
    /\ serial = NumAccounts + 1
    /\ unguarded = [a \in Accounts |-> {}]
    /\ faults = 0

Goto(p, l) == pc' = [pc EXCEPT ![p] = l]

\* Mutation: only the lock of the command's own account is released.
ReleaseOwn(p) == holder' = [a \in Accounts |-> IF holder[a] = p /\ a = req[p].account THEN Nobody ELSE holder[a]]

\* The lock transaction ends: commit, rollback and a lost connection all
\* release its locks.
Release(p) == holder' = [a \in Accounts |-> IF holder[a] = p THEN Nobody ELSE holder[a]]

End(p, r) ==
    /\ Goto(p, "done")
    /\ result' = [result EXCEPT ![p] = r]
    /\ Release(p)

Throw(p) ==
    /\ End(p, "failed")
    /\ UNCHANGED <<ledger, req, want, todo, source, target, lapsed, faults>>

-----------------------------------------------------------------------------
(* Commands *)

\* CreateTransactionCommand, up to the first lock.  A transfer may name the
\* same account twice.
BeginTransaction(p, op, a, b, n) ==
    /\ pc[p] = "idle"
    /\ serial < MaxSerial
    /\ req' = [req EXCEPT ![p] = [op |-> op, account |-> a, to |-> b, amount |-> n, ref |-> None]]
    /\ want' = [want EXCEPT ![p] = {a, b} \ {None}]
    /\ Goto(p, "lock")
    /\ UNCHANGED <<ledger, holder, todo, source, target, lapsed, result, faults>>

\* ReverseTransactionCommand
BeginReverse(p, r) ==
    /\ pc[p] = "idle"
    /\ serial < MaxSerial
    /\ req' = [req EXCEPT ![p] = [NoCommand EXCEPT !.op = "REVERSE", !.ref = r]]
    /\ Goto(p, "find")
    /\ UNCHANGED <<ledger, holder, want, todo, source, target, lapsed, result, faults>>

\* Its transactions are read before any lock is taken.
FindTransactions(p) ==
    LET found == UNION {{<<a, t>> : t \in {x \in account[a].txns :
                             x.ref = req[p].ref /\ x.id \notin account[a].reversed}} : a \in Accounts}
    IN
    /\ pc[p] = "find"
    /\ \/ /\ found # {}
          /\ todo' = [todo EXCEPT ![p] = found]
          /\ want' = [want EXCEPT ![p] = {e[1] : e \in found}]
          /\ Goto(p, "lock")
          /\ UNCHANGED <<ledger, holder, req, source, target, lapsed, result, faults>>
       \/ found = {} /\ Throw(p)

\* What an UpdateAccountCommand makes of the status: activate, close, or only
\* names and details.
NewStatus(agg, s) ==
    CASE s = "ACTIVE" -> agg.status = "ACTIVE"
      [] s = "CLOSED" -> agg.status = "ACTIVE" /\ agg.balance = 0
      [] OTHER        -> TRUE

\* UpdateAccountCommand: read and apply; no lock.
BeginUpdate(p, a, s) ==
    /\ pc[p] = "idle"
    /\ serial < MaxSerial
    /\ NewStatus(Find(a), s)
    /\ req' = [req EXCEPT ![p] = [NoCommand EXCEPT !.account = a]]
    /\ source' = [source EXCEPT ![p] = IF s \in Status THEN [Find(a) EXCEPT !.status = s] ELSE Find(a)]
    /\ Goto(p, "save")
    /\ UNCHANGED <<ledger, holder, want, todo, target, lapsed, result, faults>>

-----------------------------------------------------------------------------
(* Locks *)

\* Mutation: withLocks takes the keys in the order the command names them.
NamedKey(p) == IF req[p].account \in want[p] THEN req[p].account
               ELSE CHOOSE a \in want[p] : \A b \in want[p] : a <= b

\* withLocks sorts the keys
NextKey(p) == CHOOSE a \in want[p] : \A b \in want[p] : a <= b

AcquireLock(p) ==
    /\ pc[p] = "lock"
    /\ holder[NextKey(p)] = Nobody
    /\ holder' = [holder EXCEPT ![NextKey(p)] = p]
    /\ want' = [want EXCEPT ![p] = @ \ {NextKey(p)}]
    /\ Goto(p, IF want[p] = {NextKey(p)} THEN "load" ELSE "lock")
    /\ UNCHANGED <<ledger, req, todo, source, target, lapsed, result, faults>>

-----------------------------------------------------------------------------
(* The work under the locks *)

\* Mutation: the transaction has the type the request names.
NewTxnAsNamed(p, id, type, other) ==
    [id |-> id, ref |-> serial, type |-> req[p].op, amount |-> req[p].amount, other |-> other, of |-> None]

\* Mutation: every transaction gets a reference of its own.
NewTxnOwnRef(p, id, type, other) ==
    [id |-> id, ref |-> id, type |-> type, amount |-> req[p].amount, other |-> other, of |-> None]

\* A new transaction of the command's reference
NewTxn(p, id, type, other) ==
    [id |-> id, ref |-> serial, type |-> type, amount |-> req[p].amount, other |-> other, of |-> None]

\* Credit or debit one account
LoadAccount(p) ==
    LET t == NewTxn(p, serial, req[p].op, None)
        agg == Find(req[p].account)
    IN
    /\ pc[p] = "load"
    /\ req[p].op \in {"IN", "OUT"}
    /\ \/ /\ MayPost(agg, t)
          /\ source' = [source EXCEPT ![p] = Post(agg, t)]
          /\ serial' = serial + 1
          /\ Goto(p, "save")
          /\ UNCHANGED <<account, unguarded, holder, req, want, todo, target, lapsed, result, faults>>
       \/ ~MayPost(agg, t) /\ Throw(p)

\* A transfer reads the payer, then the payee, then debits and credits.
LoadPayer(p) ==
    /\ pc[p] = "load"
    /\ req[p].op = "TRANSFER"
    /\ source' = [source EXCEPT ![p] = Find(req[p].account)]
    /\ Goto(p, "loadTo")
    /\ UNCHANGED <<ledger, holder, req, want, todo, target, lapsed, result, faults>>

LoadPayee(p) ==
    LET debit == NewTxn(p, serial, "OUT", req[p].to)
        credit == NewTxn(p, serial + 1, "IN", req[p].account)
        agg == Find(req[p].to)
    IN
    /\ pc[p] = "loadTo"
    /\ \/ /\ MayPost(source[p], debit)
          /\ MayPost(agg, credit)
          /\ source' = [source EXCEPT ![p] = Post(@, debit)]
          /\ target' = [target EXCEPT ![p] = Post(agg, credit)]
          /\ serial' = serial + 2
          /\ Goto(p, "save")
          /\ UNCHANGED <<account, unguarded, holder, req, want, todo, lapsed, result, faults>>
       \/ ~(MayPost(source[p], debit) /\ MayPost(agg, credit)) /\ Throw(p)

\* Mutation: the original's type is kept.
OppositeSameType(t, i) == [id |-> i, ref |-> t.ref, type |-> t.type,
                           amount |-> t.amount, other |-> t.other, of |-> t.id]

OppositeOf(t, i) == [id |-> i, ref |-> t.ref, type |-> IF t.type = "IN" THEN "OUT" ELSE "IN",
                     amount |-> t.amount, other |-> t.other, of |-> t.id]

\* One transaction of a reversal: read its account, append the opposite
\* transaction, mark the original.
Opposite(t) == OppositeOf(t, serial)

LoadReversed(p) ==
    /\ pc[p] = "load"
    /\ req[p].op = "REVERSE"
    /\ \E e \in todo[p] :
        LET a == e[1]
            t == e[2]
            agg == Find(a)
            may == MayPost(agg, Opposite(t)) /\ MayMark(agg, t)
        IN
        \/ /\ may
           /\ source' = [source EXCEPT ![p] = Mark(Post(agg, Opposite(t)), t)]
           /\ req' = [req EXCEPT ![p].account = a]
           /\ todo' = [todo EXCEPT ![p] = @ \ {e}]
           /\ serial' = serial + 1
           /\ Goto(p, "save")
           /\ UNCHANGED <<account, unguarded, holder, want, target, lapsed, result, faults>>
        \/ ~may /\ Throw(p)

\* Where a command goes once its account is saved
AfterSave(p) ==
    CASE req[p].op = "TRANSFER"                     -> "saveTo"
      [] req[p].op = "REVERSE" /\ todo[p] # {}      -> "load"
      [] OTHER                                      -> "commit"

SaveAccount(p) ==
    /\ pc[p] = "save"
    /\ Update(p, req[p].account, source[p])
    /\ Goto(p, AfterSave(p))
    /\ UNCHANGED <<serial, holder, req, want, todo, source, target, lapsed, result, faults>>

SavePayee(p) ==
    /\ pc[p] = "saveTo"
    /\ Update(p, req[p].to, target[p])
    /\ Goto(p, "commit")
    /\ UNCHANGED <<serial, holder, req, want, todo, source, target, lapsed, result, faults>>

\* The lock transaction commits; one that expired rejects the command although
\* its work is saved.
Commit(p) ==
    /\ pc[p] = "commit"
    /\ End(p, IF lapsed[p] THEN "failed" ELSE "ok")
    /\ UNCHANGED <<ledger, req, want, todo, source, target, lapsed, faults>>

\* The answer reaches the caller; its locals go.
Reply(p) ==
    /\ pc[p] = "done"
    /\ Goto(p, "idle")
    /\ req' = [req EXCEPT ![p] = NoCommand]
    /\ want' = [want EXCEPT ![p] = {}]
    /\ todo' = [todo EXCEPT ![p] = {}]
    /\ source' = [source EXCEPT ![p] = NoAggregate]
    /\ target' = [target EXCEPT ![p] = NoAggregate]
    /\ lapsed' = [lapsed EXCEPT ![p] = FALSE]
    /\ result' = [result EXCEPT ![p] = "none"]
    /\ UNCHANGED <<ledger, holder, faults>>

-----------------------------------------------------------------------------
(* Faults *)

\* An await rejects, or the process dies; either ends the command.
Fail(p) ==
    /\ pc[p] \notin {"idle", "done"}
    /\ faults < MaxFaults
    /\ faults' = faults + 1
    /\ End(p, "failed")
    /\ UNCHANGED <<ledger, req, want, todo, source, target, lapsed>>

\* The lock transaction reaches its timeout.  A request that still waits for a
\* lock fails; one at work goes on, its statements run on other connections.
Lapse(p) ==
    /\ pc[p] \in {"load", "loadTo", "save", "saveTo", "commit"}
    /\ req[p].op # "UPDATE"
    /\ ~lapsed[p]
    /\ faults < MaxFaults
    /\ faults' = faults + 1
    /\ lapsed' = [lapsed EXCEPT ![p] = TRUE]
    /\ Release(p)
    /\ UNCHANGED <<ledger, pc, req, want, todo, source, target, result>>

-----------------------------------------------------------------------------

\* Only the correction of a donation reverses a transaction: the one that
\* credited it.
Refs == {t.ref : t \in {x \in UNION {account[a].txns : a \in Accounts} :
                            x.type = "IN" /\ x.other = None /\ x.of = None}}

Begin(p) ==
    \/ \E op \in Ops \cap {"IN", "OUT"}, a \in Accounts, n \in Amounts :
           BeginTransaction(p, op, a, None, n)
    \/ /\ "TRANSFER" \in Ops
       /\ \E a, b \in Accounts, n \in Amounts : BeginTransaction(p, "TRANSFER", a, b, n)
    \/ "REVERSE" \in Ops /\ \E r \in Refs : BeginReverse(p, r)
    \/ /\ "UPDATE" \in Ops
       /\ \E a \in Accounts, s \in Status \cup {"none"} : BeginUpdate(p, a, s)

\* What a command does by itself once it has begun
Work(p) ==
    \/ FindTransactions(p)
    \/ AcquireLock(p)
    \/ LoadAccount(p)
    \/ LoadPayer(p)
    \/ LoadPayee(p)
    \/ LoadReversed(p)
    \/ SaveAccount(p)
    \/ SavePayee(p)
    \/ Commit(p)
    \/ Fail(p)
    \/ Lapse(p)

Next == \E p \in Requests : Begin(p) \/ Work(p) \/ Reply(p)

Spec == Init /\ [][Next]_vars

-----------------------------------------------------------------------------
(* Properties *)

Places == {"idle", "find", "lock", "load", "loadTo", "save", "saveTo", "commit", "done"}

TypeOK ==
    /\ account \in [Accounts -> Row]
    /\ holder \in [Accounts -> Requests \cup {Nobody}]
    /\ pc \in [Requests -> Places]
    /\ req \in [Requests -> Command]
    /\ want \in [Requests -> SUBSET Accounts]
    /\ todo \in [Requests -> SUBSET (Accounts \X Txn)]
    /\ source \in [Requests -> Aggregate]
    /\ target \in [Requests -> Aggregate]
    /\ lapsed \in [Requests -> BOOLEAN]
    /\ result \in [Requests -> {"none", "ok", "failed"}]
    /\ serial \in Nat
    /\ unguarded \in [Accounts -> SUBSET {"command", "update"}]
    /\ faults \in 0 .. MaxFaults

\* An account whose commands all kept their locks is never overdrawn, however
\* many debits, transfers, reversals and account updates race on it: the funds
\* are checked on an aggregate nobody else can have changed when it is saved.
NoOverdraft == \A a \in Accounts : "command" \notin unguarded[a] => account[a].balance >= 0

\* No command sequence, failure or expired lock makes a transfer credit the
\* payee without having debited the payer: the payer is saved first.
CreditFollowsDebit ==
    \A a \in Accounts : \A t \in account[a].txns :
        (t.type = "IN" /\ t.other # None /\ t.of = None) =>
            \E u \in account[t.other].txns :
                u.type = "OUT" /\ u.ref = t.ref /\ u.amount = t.amount /\ u.of = None

\* On an account that was only written under its lock, a transaction is marked
\* reversed exactly when its opposite was posted, and no transaction has two
\* opposites - although the candidates for reversal are read before the lock.
ReversedOnce ==
    \A a \in Accounts : unguarded[a] = {} =>
        /\ \A t \in account[a].txns :
               t.id \in account[a].reversed <=> \E r \in account[a].txns : r.of = t.id
        /\ \A r, s \in account[a].txns : r.of = s.of /\ r.of # None => r = s

Waiting(p) == pc[p] = "lock"

\* Requests never wait for each other in a circle, because withLocks takes the
\* keys of a command in one order.
NoWaitCycle ==
    \A S \in SUBSET {p \in Requests : Waiting(p)} :
        S # {} => \E p \in S : holder[NextKey(p)] \notin S

-----------------------------------------------------------------------------
(* The inductive invariant *)

\* Ids are given out once, and only rows that exist are marked or reversed.
IdsUnique ==
    /\ serial > NumAccounts
    /\ \A a \in Accounts : \A t \in account[a].txns : t.id \in 1 .. serial - 1
    /\ \A a, b \in Accounts : \A t \in account[a].txns, u \in account[b].txns :
           t.id = u.id => a = b /\ t = u
    /\ \A a \in Accounts : account[a].reversed \subseteq Ids(account[a].txns)
    /\ \A a \in Accounts : \A t \in account[a].txns :
           t.of # None => t.of \in Ids(account[a].txns)

\* Transactions a request has appended to an aggregate and not yet saved
Drafts(p) ==
    {t \in {source[p].new, target[p].new} \ {NoTxn} :
        \/ pc[p] = "save" /\ t = source[p].new
        \/ pc[p] \in {"save", "saveTo"} /\ req[p].op = "TRANSFER" /\ t = target[p].new}

DraftsFresh ==
    /\ \A p \in Requests : \A t \in Drafts(p) :
           /\ t.id \in 1 .. serial - 1
           /\ \A a \in Accounts : \A u \in account[a].txns : t.id # u.id
    /\ \A p, q \in Requests : \A t \in Drafts(p), u \in Drafts(q) :
           t.id = u.id => p = q /\ t = u

\* Which command stands where, and what it has drafted
ShapeOf(p) ==
    /\ pc[p] = "find" => req[p].op = "REVERSE"
    /\ pc[p] \in {"loadTo", "save", "saveTo"} => req[p].account \in Accounts
    /\ pc[p] \in {"loadTo", "saveTo"} => req[p].op = "TRANSFER"
    /\ pc[p] \in {"lock", "load"} /\ req[p].op # "REVERSE" => req[p].account \in Accounts
    /\ pc[p] \in {"lock", "load", "loadTo", "save", "saveTo"} /\ req[p].op = "TRANSFER" =>
           req[p].to \in Accounts
    /\ pc[p] \in {"lock", "load"} => req[p].op # "UPDATE"
    /\ pc[p] = "save" /\ req[p].op = "UPDATE" => source[p].new = NoTxn
    /\ pc[p] = "save" /\ req[p].op \in {"IN", "OUT"} =>
           source[p].new.other = None /\ source[p].new.of = None
    /\ pc[p] = "save" /\ req[p].op = "REVERSE" =>
           /\ source[p].new.of \in Ids(account[req[p].account].txns)
           /\ \E o \in account[req[p].account].txns :
                  source[p].new = OppositeOf(o, source[p].new.id)
    /\ pc[p] \in {"save", "saveTo"} /\ req[p].op = "TRANSFER" =>
           /\ source[p].new.type = "OUT" /\ source[p].new.of = None
           /\ source[p].new.ref = target[p].new.ref
           /\ source[p].new.amount = target[p].new.amount
           /\ target[p].new.type = "IN" /\ target[p].new.of = None
           /\ target[p].new.other = req[p].account
           /\ source[p].new.id # target[p].new.id
    /\ pc[p] = "saveTo" => source[p].new \in account[req[p].account].txns

\* Rows are never deleted: what was read is still there.
ReadOf(p) ==
    /\ \A e \in todo[p] : e[2] \in account[e[1]].txns
    /\ pc[p] \in {"loadTo", "save"} =>
           /\ source[p].txns \subseteq account[req[p].account].txns
           /\ source[p].reversed \subseteq Ids(source[p].txns)
    /\ pc[p] \in {"save", "saveTo"} /\ req[p].op = "TRANSFER" =>
           /\ target[p].txns \subseteq account[req[p].to].txns
           /\ target[p].reversed \subseteq Ids(target[p].txns)

Holds(p, a) == holder[a] = p

\* While a request holds the lock of an account only commands wrote under,
\* its aggregate has the row's balance and the draft is covered.
CoveredOf(p) ==
    (pc[p] \in {"loadTo", "save"} /\ Holds(p, req[p].account)
       /\ "command" \notin unguarded[req[p].account]) =>
        /\ pc[p] = "loadTo" => account[req[p].account].balance = source[p].balance
        /\ pc[p] = "save" => account[req[p].account].balance + Signed(source[p].new) >= 0

\* And if nobody else wrote it at all, the statuses it is about to write are
\* the row's, but for the transaction it reverses.
MarksOf(p) ==
    /\ (pc[p] \in {"loadTo", "save"} /\ Holds(p, req[p].account)
          /\ unguarded[req[p].account] = {}) =>
           LET row == account[req[p].account]
               of == IF pc[p] = "save" THEN source[p].new.of ELSE None IN
           /\ source[p].reversed = row.reversed \cup ({of} \ {None})
           /\ of \notin row.reversed
    /\ (pc[p] \in {"save", "saveTo"} /\ req[p].op = "TRANSFER" /\ Holds(p, req[p].to)
          /\ unguarded[req[p].to] = {}) =>
           target[p].reversed = account[req[p].to].reversed

\* Locks are held by requests at work, and lie below those still wanted.
LocksOf(p) ==
    /\ pc[p] \in {"idle", "find", "done"} => \A a \in Accounts : ~Holds(p, a)
    /\ pc[p] = "lock" =>
           /\ want[p] # {}
           /\ \A a \in Accounts : Holds(p, a) => \A b \in want[p] : a < b

IInv ==
    /\ TypeOK
    /\ IdsUnique
    /\ DraftsFresh
    /\ \A p \in Requests :
           ShapeOf(p) /\ ReadOf(p) /\ CoveredOf(p) /\ MarksOf(p) /\ LocksOf(p)
    /\ NoOverdraft
    /\ CreditFollowsDebit
    /\ ReversedOnce

-----------------------------------------------------------------------------
(* The promise to the callers *)

Book == INSTANCE LedgerBook WITH
            book     <- [a \in Accounts |-> account[a].txns],
            balance  <- [a \in Accounts |-> account[a].balance],
            reversed <- [a \in Accounts |-> account[a].reversed],
            kept     <- {a \in Accounts : unguarded[a] = {}}

\* Seen from outside, the commands are single steps: of all the reads, locks,
\* saves and failures of racing commands, a debit with too few funds, a
\* transaction saved twice or reversed twice never shows on an account that
\* was written under its lock.
ImplementsBook == Book!Spec
=============================================================================
