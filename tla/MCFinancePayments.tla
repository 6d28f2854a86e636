------------------------- MODULE MCFinancePayments -------------------------
(* FinancePayments with small sets *)
EXTENDS FinancePayments, TLC

MCOpening == [a \in Accounts |-> 2]

MCAmounts == [x \in Payments |-> IF x \in Earnings THEN {1, 2} ELSE {1}]

Symmetry == Permutations(Requests)
=============================================================================
