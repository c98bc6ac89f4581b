------------------------------ MODULE TaskRules ------------------------------
(***************************************************************************)
(* The rules of one task, free of any store: what the policy admits, what  *)
(* the store re-checks, and what one admitted action does to the task, its *)
(* evidence and its baton.  Both stores run this same code inside their    *)
(* own transaction (MemoryStateStore.apply_cycle and fail_cycle).          *)
(*                                                                         *)
(* A task id, a title, the metadata in references, the names of checks and *)
(* the issue time and payload of an intent are left out: two intents are   *)
(* the same when they name the same actor, action and version.  A          *)
(* "verification" evidence item stands for one record per required check,  *)
(* each with the status "verified".                                        *)
(***************************************************************************)
EXTENDS Naturals, FiniteSets

CONSTANTS
  Actors,        \* the actor ids an intent can name
  NoActor,       \* None, where an actor id is optional
  Role,          \* the registry: a role per actor, "unknown" if not registered
  Keys,          \* the cycle keys
  NoKey,         \* None, where a cycle key is optional
  EvidenceIds,   \* the evidence ids; a cycle key stands for the id made from it
  Outcomes,      \* what an executed action can hand back to the store
  ToolBudget     \* tool actions per task (3 in the code)

Roles == {"coordinator", "worker", "verifier"}

ASSUME ActorsAssumption == NoActor \notin Actors
ASSUME RoleAssumption == Role \in [Actors -> Roles \cup {"unknown"}]
ASSUME KeysAssumption == Keys \subseteq EvidenceIds /\ NoKey \notin EvidenceIds

TaskStates == {"QUEUED", "RUNNING", "NEEDS_OPERATOR", "PASSED", "FAILED"}
Terminal == {"PASSED", "FAILED"}
Actions == {"record_progress", "verify_task"}

LegalTransitions ==
  [QUEUED         |-> {"RUNNING", "NEEDS_OPERATOR", "FAILED"},
   RUNNING        |-> {"RUNNING", "NEEDS_OPERATOR", "PASSED", "FAILED"},
   NEEDS_OPERATOR |-> {"RUNNING", "FAILED"},
   PASSED         |-> {},
   FAILED         |-> {}]

-----------------------------------------------------------------------------
(* Data *)

Tasks == [state : TaskStates, version : Nat, tool_actions : Nat,
          failed_actions : Nat, worker_actor_id : Actors \cup {NoActor}]

NewTask == [state |-> "QUEUED", version |-> 0, tool_actions |-> 0,
            failed_actions |-> 0, worker_actor_id |-> NoActor]

Intents == [actor_id : Actors, action : Actions, expected_version : Nat]

\* None, where a canonical intent is optional.
NoIntent == [actor_id |-> NoActor, action |-> "none", expected_version |-> 0]

Evidence == [id : EvidenceIds, actor_id : Actors, kind : {"progress", "verification"}]
IdsOf(items) == {e.id : e \in items}
DistinctIds(items) == \A e, f \in items : e.id = f.id => e = f

\* CycleOutcome
CycleOutcomes == [target : TaskStates, failed : BOOLEAN,
                  evidence : SUBSET Evidence, baton : Keys \cup {NoKey}]

\* The outcome of the service's own action for key k, reported by actor a.
Progress(k, a) ==
  [target |-> "RUNNING", failed |-> FALSE, baton |-> k,
   evidence |-> {[id |-> k, actor_id |-> a, kind |-> "progress"]}]

\* The outcome of the demo breaker (CycleOutcome.failed).
Failure == [target |-> "NEEDS_OPERATOR", failed |-> TRUE, baton |-> NoKey, evidence |-> {}]

ASSUME ToolBudgetAssumption == ToolBudget \in Nat
ASSUME OutcomesAssumption ==
  /\ Outcomes \subseteq CycleOutcomes
  /\ Failure \in Outcomes
  /\ \A k \in Keys, a \in Actors : Progress(k, a) \in Outcomes

Results == [task : Tasks, evidence : SUBSET Evidence,
            failure_code : {"none", "failed", "denied"}]

\* None, where a result is optional.
NoResult == [task |-> NewTask, evidence |-> {}, failure_code |-> "absent"]

-----------------------------------------------------------------------------
(* Admission *)

RoleAction(role) ==
  CASE role = "worker"   -> "record_progress"
    [] role = "verifier" -> "verify_task"
    [] OTHER             -> "none"

\* Mutant: the failure does not count.
WithinToolBudget(t) == t.tool_actions < ToolBudget

WithinBudget(t) == t.tool_actions < ToolBudget /\ t.failed_actions < 1

\* authorize_intent: the policy gate a proposal passes before the store sees it.
Authorized(i, t) ==
  /\ RoleAction(Role[i.actor_id]) = i.action
  /\ i.expected_version = t.version
  /\ WithinBudget(t)
  /\ t.state \notin Terminal

\* apply_cycle's own checks, before it changes anything.
Admits(t, i) ==
  /\ t.version = i.expected_version
  /\ t.state \notin Terminal
  /\ WithinBudget(t)
  /\ RoleAction(Role[i.actor_id]) = i.action

-----------------------------------------------------------------------------
(* Effects; a book is any record with the fields task, evidence and baton *)

\* The task as the action sees it: started, charged, and given its worker.
Admitted(t, i) ==
  [t EXCEPT !.state = IF t.state = "QUEUED" THEN "RUNNING" ELSE t.state,
            !.version = t.version + 1,
            !.tool_actions = t.tool_actions + 1,
            !.worker_actor_id =
              IF Role[i.actor_id] = "worker" /\ t.worker_actor_id = NoActor
              THEN i.actor_id ELSE t.worker_actor_id]

\* Mutant: the pass does not ask for a worker.
MayPassUnworked(t, i, items) ==
  /\ Role[i.actor_id] = "verifier" /\ i.action = "verify_task"
  /\ t.worker_actor_id # i.actor_id
  /\ \E e \in items : e.kind = "verification" /\ e.actor_id = i.actor_id

\* The verifier check and require_pass_evidence.
MayPass(t, i, items) ==
  /\ Role[i.actor_id] = "verifier" /\ i.action = "verify_task"
  /\ t.worker_actor_id # NoActor
  /\ t.worker_actor_id # i.actor_id
  /\ \E e \in items : e.kind = "verification" /\ e.actor_id = i.actor_id

\* The outcome is stored as it is; otherwise it is stored as a failure.
Succeeds(b, i, o) ==
  LET t == Admitted(b.task, i) IN
  /\ ~ o.failed
  /\ o.target # "FAILED"
  /\ DistinctIds(o.evidence)
  /\ IdsOf(o.evidence) \cap IdsOf(b.evidence) = {}
  /\ o.target = "PASSED" => MayPass(t, i, o.evidence)
  /\ o.target \in LegalTransitions[t.state]

\* The task after the action: moved to its target, or parked with the failure.
TaskAfter(b, i, o) ==
  LET t == Admitted(b.task, i) IN
  IF Succeeds(b, i, o)
  THEN [t EXCEPT !.state = o.target]
  ELSE [t EXCEPT !.state = "NEEDS_OPERATOR", !.failed_actions = t.failed_actions + 1]

EvidenceFrom(b, i, o) == IF Succeeds(b, i, o) THEN o.evidence ELSE {}

Applied(b, i, o) ==
  [b EXCEPT !.task = TaskAfter(b, i, o),
            !.evidence = b.evidence \cup EvidenceFrom(b, i, o),
            !.baton = IF Succeeds(b, i, o) /\ o.baton # NoKey THEN o.baton ELSE b.baton]

AppliedResult(b, i, o) ==
  [task |-> TaskAfter(b, i, o), evidence |-> EvidenceFrom(b, i, o),
   failure_code |-> IF Succeeds(b, i, o) THEN "none" ELSE "failed"]

\* fail_cycle: a refused proposal parks the task and spends no budget.
TaskDenied(t) == [t EXCEPT !.state = "NEEDS_OPERATOR", !.version = t.version + 1]
Denied(b) == [b EXCEPT !.task = TaskDenied(b.task)]
DeniedResult(b) ==
  [task |-> TaskDenied(b.task), evidence |-> {}, failure_code |-> "denied"]

\* append_evidence and set_baton, as they change a task that is not terminal.
Appended(b, e) ==
  [b EXCEPT !.task = [b.task EXCEPT !.version = b.task.version + 1],
            !.evidence = b.evidence \cup {e}]
BatonSet(b, k) ==
  [b EXCEPT !.task = [b.task EXCEPT !.version = b.task.version + 1], !.baton = k]
=============================================================================
