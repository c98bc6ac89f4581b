---------------------------- MODULE MCModelBudget ----------------------------
(* Small instances of ModelBudget for TLC. *)
EXTENDS ModelBudget, TLC

CONSTANTS p1, p2, p3, p4

\* A process that was deployed with a smaller limit than the others.
TwoLimits == [c \in Clients |-> IF c = p1 THEN 1 ELSE 2]
OneEach == [c \in Clients |-> 1]

OthersAlike == Permutations(Clients \ {p1})
=============================================================================
