-------------------------- MODULE MCFinanceLedger --------------------------
(***************************************************************************)
(* Two accounts, two requests.                                             *)
(***************************************************************************)
EXTENDS FinanceLedger, TLC

CONSTANTS p1, p2

MCOpening == [a \in 1 .. NumAccounts |-> IF a = 1 THEN 2 ELSE 0]

MCRequests == Permutations(Requests)
=============================================================================
