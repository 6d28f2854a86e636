----------------------------- MODULE LedgerBook -----------------------------
(***************************************************************************)
(* What the ledger promises its callers.  Money moves in single steps: a   *)
(* credit or a funded debit is posted, or a posted transaction is reversed *)
(* once by its opposite.  The promise is for accounts that were only       *)
(* written under their lock; of the others only this much is left, that no *)
(* transaction ever disappears.                                            *)
(***************************************************************************)
EXTENDS Integers

CONSTANT Accounts

VARIABLES
    book,      \* the transactions of each account
    balance,   \* and what they sum up to
    reversed,  \* the ids of the reversed ones
    kept       \* the accounts of which the promise is kept

book_vars == <<book, balance, reversed, kept>>

Init ==
    /\ \A a \in Accounts : balance[a] >= 0 /\ reversed[a] = {}
    /\ kept = Accounts

Change(t) == IF t.type = "IN" THEN t.amount ELSE -t.amount

\* A new transaction, on an account whose promise is kept and with funds.
Enter(a, t) ==
    /\ a \in kept
    /\ \A b \in Accounts : \A u \in book[b] : u.id # t.id
    /\ balance[a] + Change(t) >= 0
    /\ book' = [book EXCEPT ![a] = @ \cup {t}]
    /\ balance' = [balance EXCEPT ![a] = @ + Change(t)]
    /\ UNCHANGED kept

Post(a, t) ==
    /\ Enter(a, t)
    /\ UNCHANGED reversed

\* The opposite of a transaction: same amount, other direction.
Undoes(t, o) ==
    /\ t.of = o.id
    /\ t.type # o.type
    /\ t.amount = o.amount
    /\ t.ref = o.ref

Reverse(a, t, o) ==
    /\ o \in book[a]
    /\ o.id \notin reversed[a]
    /\ Undoes(t, o)
    /\ Enter(a, t)
    /\ reversed' = [reversed EXCEPT ![a] = @ \cup {o.id}]

\* A write without the lock.
Spoil(a) ==
    /\ kept' = kept \ {a}
    /\ book[a] \subseteq book'[a]
    /\ \A b \in Accounts \ {a} :
           book'[b] = book[b] /\ balance'[b] = balance[b] /\ reversed'[b] = reversed[b]

Next ==
    \E a \in Accounts :
        \/ \E t \in book'[a] \ book[a] :
               Post(a, t) \/ \E o \in book[a] : Reverse(a, t, o)
        \/ Spoil(a)

Spec == Init /\ [][Next]_book_vars
=============================================================================
