--------------------------- MODULE MCTaskCreation ---------------------------
(* A small instance of TaskCreation for TLC: four creations, two of them with *)
(* the same id, of which two fit.                                             *)
EXTENDS TaskCreation, TLC

CONSTANTS c1, c2, c3, c4, i1, i2, i3

MCIdOf == c1 :> i1 @@ c2 :> i1 @@ c3 :> i2 @@ c4 :> i3

Alike == Permutations({c1, c2})
=============================================================================
