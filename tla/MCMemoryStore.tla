---------------------------- MODULE MCMemoryStore ----------------------------
(* A small instance of MemoryStore for TLC: three threads, three cycle keys, a *)
(* worker and a verifier.                                                  *)
EXTENDS MemoryStore, TLC

CONSTANTS t1, t2, t3, k1, k2, k3, w1, v1

MCRole == [a \in Actors |-> IF a = v1 THEN "verifier" ELSE "worker"]

VerifiedPass ==
  [target |-> "PASSED", failed |-> FALSE, baton |-> NoKey,
   evidence |-> {[id |-> k2, actor_id |-> v1, kind |-> "verification"]}]

\* Two items under one id.
Twice ==
  [target |-> "RUNNING", failed |-> FALSE, baton |-> NoKey,
   evidence |-> {[id |-> k2, actor_id |-> a, kind |-> "progress"] : a \in Actors}]

\* The service's outcomes, and a pass.
MCOutcomes ==
  {Failure, VerifiedPass, Twice} \cup {Progress(k, a) : k \in Keys, a \in Actors}

\* Direct callers work, verify, or try the action of the other role.
MCIntents ==
  {[actor_id |-> w1, action |-> "record_progress"],
   [actor_id |-> v1, action |-> "verify_task"],
   [actor_id |-> v1, action |-> "record_progress"]}
MCDirectOutcomes == {Progress(k2, w1), VerifiedPass, Twice}

\* Two threads repeat and contest each other's keys, one reads the status.
MCCallsOf ==
  t1 :> {[kind |-> "normal", key |-> k1]}
  @@ t2 :> {[kind |-> "normal", key |-> k1], [kind |-> "breaker", key |-> k2],
            [kind |-> "apply", key |-> k2]}
  @@ t3 :> {[kind |-> "normal", key |-> k3], [kind |-> "apply", key |-> k2],
            [kind |-> "status", key |-> k1]}

MCItems == {[id |-> k2, actor_id |-> w1, kind |-> "progress"]}
=============================================================================
