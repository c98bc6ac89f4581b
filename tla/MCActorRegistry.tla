--------------------------- MODULE MCActorRegistry ---------------------------
(* A small instance of ActorRegistry for TLC: a process of one version of the *)
(* service and one of another, which gives an actor another role, two         *)
(* registrations, one of them of an actor that the processes initialize too,  *)
(* and a cycle, over three actors of which two fit.                           *)
EXTENDS ActorRegistry, TLC

CONSTANTS s1, s2, g1, g2, y1, a1, a2, a3

MCKind == [c \in Clients |->
  CASE c \in {s1, s2} -> "start" [] c = y1 -> "cycle" [] OTHER -> "register"]

Only(roles) == [a \in Actors |-> IF a \in DOMAIN roles THEN roles[a] ELSE NoRole]

MCWish == [c \in Clients |-> Only(
  CASE c = s1 -> a1 :> "worker" @@ a2 :> "verifier"
    [] c = s2 -> a2 :> "worker"
    [] c = g1 -> a3 :> "worker"
    [] c = g2 -> a1 :> "worker"
    [] c = y1 -> a2 :> "verifier")]
=============================================================================
