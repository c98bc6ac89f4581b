-------------------------- MODULE MCFirestoreCycles --------------------------
(* Small instances of FirestoreCycles for TLC: two workers or a worker and a *)
(* verifier, two cycle keys, two or three requests.                          *)
EXTENDS FirestoreCycles, TLC

CONSTANTS r1, r2, r3, k1, k2, k3, e1, w1, w2, v1, c1

MCRole == [a \in Actors |->
  CASE a = v1 -> "verifier" [] a = c1 -> "coordinator" [] OTHER -> "worker"]

\* The service's outcomes, and the ones direct callers of apply_cycle try:
\* a pass with and without verification, and a hand-over to the operator.
Service == {Failure} \cup {Progress(k, a) : k \in Keys, a \in Actors}
Verified(k, a, kind) ==
  [target |-> "PASSED", failed |-> FALSE, baton |-> NoKey,
   evidence |-> {[id |-> k, actor_id |-> a, kind |-> kind]}]
HandOver ==
  [target |-> "NEEDS_OPERATOR", failed |-> FALSE, baton |-> NoKey, evidence |-> {}]
\* Two items under one id.
Twice(k) ==
  [target |-> "RUNNING", failed |-> FALSE, baton |-> NoKey,
   evidence |-> {[id |-> k, actor_id |-> a, kind |-> "progress"] : a \in Actors}]
ServiceAndTwice == Service \cup {Twice(k) : k \in Keys}
ServiceAndPass ==
  Service \cup {HandOver}
  \cup {Verified(k, v1, kind) : k \in Keys, kind \in {"progress", "verification"}}

InStep == [r \in Requests |-> 0]
\* The clock of the second request runs ahead by one.
Skewed == [r \in Requests |-> IF r = r2 THEN 1 ELSE 0]

ServiceCalls == [kind : {"normal", "breaker"}, key : Keys]
NormalCalls == [kind : {"normal"}, key : Keys]
VerdictCalls == {[kind |-> "normal", key |-> k1], [kind |-> "apply", key |-> k2],
                 [kind |-> "normal", key |-> k3]}
MixedCalls == {[kind |-> "normal", key |-> k1], [kind |-> "apply", key |-> k2]}

LedgerCalls == ServiceCalls \cup {[kind |-> "apply", key |-> k2]}

\* A direct writer takes an id of its own, or the one a service cycle will use.
Items == {[id |-> id, actor_id |-> w1, kind |-> "progress"] : id \in {e1, k2}}
OneItem == {[id |-> e1, actor_id |-> w1, kind |-> "progress"]}

Symmetry == Permutations(Requests)
=============================================================================
