------------------------ MODULE FirestoreCyclesLedger ------------------------
(***************************************************************************)
(* FirestoreCycles is a ledger.  Whatever a request that owns its claim is *)
(* about to write is one action, or one refusal, on the very document it   *)
(* replaces; so each finalize is one entry of CycleLedger, and all that    *)
(* adds up over the entries (counters, evidence, verdicts, telemetry) does *)
(* so for any number of requests, keys, takeovers and faults.              *)
(***************************************************************************)
EXTENDS FirestoreCyclesSafety

-----------------------------------------------------------------------------
(* What an owner is about to write *)

WillAct(r, i, o) ==
  /\ Admits(doc.task, i)
  /\ pending[r] = [doc |-> Closed(Applied(doc, i, o)), result |-> AppliedResult(doc, i, o),
                   intent |-> i]

WillRefuse(r) ==
  /\ doc.task.state \notin Terminal
  /\ pending[r] = [doc |-> Closed(Denied(doc)), result |-> DeniedResult(doc),
                   intent |-> NoIntent]

WillWrite(r) == WillRefuse(r) \/ \E i \in Intents, o \in Outcomes : WillAct(r, i, o)

\* The strengthening of FreshSnapshot that every theorem below rests on.
OneEffect == \A r \in Requests : pc[r] = "finalizing" /\ Owns(r) => WillWrite(r)

LEMMA OneEffectStep ==
  ASSUME TypeOK, ClaimIsActive, OneEffect, [Next]_vars
  PROVE  OneEffect'
<1>. SUFFICES ASSUME NEW r \in Requests, pc'[r] = "finalizing", Owns(r)'
              PROVE  WillWrite(r)'
  BY DEF OneEffect
<1>1. ASSUME NEW o \in Outcomes, Execute(r, o)
      PROVE  WillWrite(r)'
  <2>1. PICK i \in Intents : i = held[r].intent
    BY <1>1 DEF TypeOK, RequestsOK, LocalsOK, Execute
  <2>2. WillAct(r, i, o)'
    BY <1>1, <2>1 DEF TypeOK, RequestsOK, Execute, WillAct, docs
  <2>. QED BY <2>1, <2>2 DEF WillWrite
<1>2. ASSUME Fail(r)
      PROVE  WillWrite(r)'
  BY <1>2 DEF TypeOK, RequestsOK, Fail, CanFail, WillWrite, WillRefuse, docs
<1>3. CASE ~ Steps(r)
  BY <1>3, StaysOwner DEF OneEffect, WillWrite, WillAct, WillRefuse
<1>. QED BY <1>1, <1>2, <1>3, ArrivesAt

LEMMA Effects == Spec => [](TypeOK /\ ClaimIsActive /\ OneEffect)
<1>1. Init => OneEffect
  BY DEF Init, OneEffect
<1>. QED BY <1>1, OneEffectStep, TypeCorrect, OneClaim, PTL DEF Spec

-----------------------------------------------------------------------------
(* The three kinds of step *)

\* Nothing that the ledger knows of changes.
Quiet ==
  /\ doc'.task = doc.task /\ doc'.evidence = doc.evidence /\ doc'.baton = doc.baton
  /\ doc'.cycle_count = doc.cycle_count
  /\ FinalizedKeys' = FinalizedKeys

\* A request finalizes its cycle with what it was about to write.
Enters(r) ==
  /\ Commit(r) /\ WillWrite(r)
  /\ Key(r) \in Keys /\ cycle[Key(r)].status = "claimed" /\ cycle[Key(r)].owner = r
  /\ FinalizedKeys' = FinalizedKeys \cup {Key(r)}
  /\ doc' = pending[r].doc
  /\ cycle'[Key(r)].intent = pending[r].intent /\ cycle'[Key(r)].result = pending[r].result
  /\ \A k \in Keys \ {Key(r)} : cycle'[k] = cycle[k]

LEMMA FinalizedStay ==
  ASSUME TypeOK, [Next]_vars
  PROVE  FinalizedKeys \subseteq FinalizedKeys' /\ \A k \in FinalizedKeys : cycle'[k] = cycle[k]
BY FinalizedStep DEF FinalizedKeys

LEMMA CommitEnters ==
  ASSUME TypeOK, OneEffect, NEW r \in Requests, Commit(r)
  PROVE  Enters(r)
<1>. USE DEF TypeOK, StoreOK
<1>1. /\ Key(r) \in Keys /\ Owns(r) /\ pc[r] = "finalizing"
      /\ cycle[Key(r)].status = "claimed" /\ cycle[Key(r)].owner = r
      /\ doc' = pending[r].doc /\ cycle' = [cycle EXCEPT ![Key(r)] = FinalizedDoc(r)]
  BY WriterKey DEF RequestWrites, Commit, CanFinalize, Owns
<1>2. /\ FinalizedDoc(r).status = "finalized" /\ FinalizedDoc(r).intent = pending[r].intent
      /\ FinalizedDoc(r).result = pending[r].result
  BY <1>1 DEF FinalizedDoc, CycleDocs
<1>3. FinalizedKeys' = FinalizedKeys \cup {Key(r)}
  BY <1>1, <1>2 DEF FinalizedKeys
<1>. QED BY <1>1, <1>2, <1>3 DEF Enters, OneEffect

LEMMA LedgerSteps ==
  ASSUME TypeOK, OneEffect, [Next]_vars
  PROVE  Quiet \/ (\E r \in Requests : Steps(r) /\ Enters(r)) \/ DirectWrites
<1>1. ASSUME NEW r \in Requests, Steps(r), RequestWrites(r), ~ Commit(r)
      PROVE  Quiet
  <2>. USE DEF TypeOK, StoreOK, TaskDocOK, FinalizedKeys
  <2>1. Key(r) \in Keys /\ doc \in TaskDocs
    BY <1>1, WriterKey
  <2>2. ASSUME doc' = [doc EXCEPT !.active_cycle = doc'.active_cycle] \/ UNCHANGED doc,
               \A k \in Keys : cycle'[k].status = "finalized" <=> cycle[k].status = "finalized"
        PROVE  Quiet
    BY <2>1, <2>2 DEF Quiet, TaskDocs
  <2>3. CASE TakeOver(r)
    BY <2>1, <2>2, <2>3 DEF TakeOver, ExpiredFor, ClaimDoc, TaskDocs
  <2>4. CASE TakeFresh(r)
    BY <2>1, <2>2, <2>4 DEF TakeFresh, CyclesAfterClaim, ClaimDoc, Absent, TaskDocs
  <2>5. CASE BindIntent(r) /\ UNCHANGED doc
    BY <2>1, <2>2, <2>5 DEF BindIntent, CycleDocs
  <2>6. CASE ReleaseClaim(r)
    BY <2>1, <2>2, <2>6, OwnerOwns DEF ReleaseClaim, Absent, TaskDocs
  <2>. QED BY <1>1, <2>3, <2>4, <2>5, <2>6 DEF RequestWrites, TakesClaim
<1>2. CASE UNCHANGED <<doc, cycle>>
  BY <1>2 DEF Quiet, FinalizedKeys
<1>. QED BY <1>1, <1>2, StoreSteps, CommitEnters

\* Direct writes touch no cycle and no counter, and only tasks without a verdict.
LEMMA DirectBooks ==
  ASSUME TypeOK, DirectWrites
  PROVE  /\ UNCHANGED cycle /\ FinalizedKeys' = FinalizedKeys
         /\ doc'.task = [doc.task EXCEPT !.version = doc.task.version + 1]
         /\ doc'.cycle_count = doc.cycle_count
         /\ doc.task.state \notin Terminal
         /\ doc.evidence \subseteq doc'.evidence
<1>1. /\ UNCHANGED cycle /\ doc.evidence \subseteq doc'.evidence
      /\ doc'.task = [doc.task EXCEPT !.version = doc.task.version + 1]
  BY DirectWritesOutside
<1>2. doc \in TaskDocs
  BY DEF TypeOK, StoreOK, TaskDocOK
<1>3. CASE \E e \in DirectEvidence : AppendEvidence(e)
  BY <1>1, <1>2, <1>3, AppendedType, DirectAssumption
     DEF AppendEvidence, Writable, FinalizedKeys
<1>4. CASE \E k \in DirectBatons : SetBaton(k)
  BY <1>1, <1>2, <1>4, BatonSetType, DirectAssumption
     DEF SetBaton, Writable, FinalizedKeys
<1>. QED BY <1>3, <1>4 DEF DirectWrites

LEMMA ClosedBaton ==
  ASSUME NEW d \in TaskDocs
  PROVE  Closed(d).baton = d.baton
BY DEF Closed, TaskDocs

\* What one action, or one refusal, does to a task document.
LEMMA Acted ==
  ASSUME TypeOK, NEW r \in Requests, NEW i \in Intents, NEW o \in Outcomes,
         Enters(r), WillAct(r, i, o)
  PROVE  /\ doc'.task = TaskAfter(doc, i, o)
         /\ doc'.evidence = doc.evidence \cup EvidenceFrom(doc, i, o)
         /\ doc'.baton = Applied(doc, i, o).baton
         /\ doc'.cycle_count = doc.cycle_count + 1
         /\ cycle'[Key(r)].intent = i /\ i # NoIntent /\ i.actor_id # NoActor
         /\ cycle'[Key(r)].result = AppliedResult(doc, i, o)
         /\ Admits(doc.task, i)
<1>1. doc \in TaskDocs /\ o \in CycleOutcomes
  BY OutcomesAssumption DEF TypeOK, StoreOK, TaskDocOK
<1>2. /\ Applied(doc, i, o) \in TaskDocs
      /\ Applied(doc, i, o).cycle_count = doc.cycle_count
  BY <1>1, AppliedType
<1>3. /\ Applied(doc, i, o).task = TaskAfter(doc, i, o)
      /\ Applied(doc, i, o).evidence = doc.evidence \cup EvidenceFrom(doc, i, o)
  BY <1>1 DEF Applied, TaskDocs
<1>4. /\ doc'.task = Applied(doc, i, o).task /\ doc'.evidence = Applied(doc, i, o).evidence
      /\ doc'.baton = Applied(doc, i, o).baton /\ doc'.cycle_count = doc.cycle_count + 1
  BY <1>2, ClosedType, ClosedBaton DEF Enters, WillAct
<1>5. i # NoIntent /\ i.actor_id # NoActor
  BY ActorsAssumption DEF Intents, NoIntent
<1>. QED BY <1>3, <1>4, <1>5 DEF Enters, WillAct

LEMMA Refused ==
  ASSUME TypeOK, NEW r \in Requests, Enters(r), WillRefuse(r)
  PROVE  /\ doc'.task = TaskDenied(doc.task)
         /\ doc'.evidence = doc.evidence /\ doc'.baton = doc.baton
         /\ doc'.cycle_count = doc.cycle_count + 1
         /\ cycle'[Key(r)].intent = NoIntent
         /\ cycle'[Key(r)].result = DeniedResult(doc)
         /\ doc.task.state \notin Terminal
<1>1. doc \in TaskDocs
  BY DEF TypeOK, StoreOK, TaskDocOK
<1>2. Denied(doc) \in TaskDocs /\ Denied(doc).cycle_count = doc.cycle_count
  BY <1>1, DeniedType
<1>3. /\ Denied(doc).task = TaskDenied(doc.task)
      /\ Denied(doc).evidence = doc.evidence /\ Denied(doc).baton = doc.baton
  BY <1>1 DEF Denied, TaskDocs
<1>4. /\ doc'.task = Denied(doc).task /\ doc'.evidence = Denied(doc).evidence
      /\ doc'.baton = Denied(doc).baton /\ doc'.cycle_count = doc.cycle_count + 1
  BY <1>2, ClosedType, ClosedBaton DEF Enters, WillRefuse
<1>. QED BY <1>3, <1>4 DEF Enters, WillRefuse

\* The task an action leaves behind, field by field.
LEMMA TaskAfterFields ==
  ASSUME NEW d \in TaskDocs, NEW i \in Intents, NEW o \in CycleOutcomes
  PROVE  LET t == TaskAfter(d, i, o) IN
         /\ t.tool_actions = d.task.tool_actions + 1
         /\ t.failed_actions =
              IF Succeeds(d, i, o) THEN d.task.failed_actions ELSE d.task.failed_actions + 1
         /\ t.state = IF Succeeds(d, i, o) THEN o.target ELSE "NEEDS_OPERATOR"
         /\ t.worker_actor_id =
              IF Role[i.actor_id] = "worker" /\ d.task.worker_actor_id = NoActor
              THEN i.actor_id ELSE d.task.worker_actor_id
         /\ Admitted(d.task, i).worker_actor_id = t.worker_actor_id
<1>. DEFINE t == d.task
            a == Admitted(t, i)
            state == IF t.state = "QUEUED" THEN "RUNNING" ELSE t.state
            worker == IF Role[i.actor_id] = "worker" /\ t.worker_actor_id = NoActor
                      THEN i.actor_id ELSE t.worker_actor_id
<1>1. t \in Tasks
  BY DEF TaskDocs
<1>2. a = [t EXCEPT !.state = state, !.version = t.version + 1,
                    !.tool_actions = t.tool_actions + 1, !.worker_actor_id = worker]
  BY DEF Admitted
<1>3. TaskAfter(d, i, o) =
        IF Succeeds(d, i, o) THEN [a EXCEPT !.state = o.target]
        ELSE [a EXCEPT !.state = "NEEDS_OPERATOR", !.failed_actions = a.failed_actions + 1]
  BY DEF TaskAfter
<1>4. worker = IF Role[i.actor_id] = "worker" /\ t.worker_actor_id = NoActor
               THEN i.actor_id ELSE t.worker_actor_id
  OBVIOUS
<1>5. /\ state \in TaskStates /\ worker \in Actors \cup {NoActor}
      /\ t.version + 1 \in Nat /\ t.tool_actions + 1 \in Nat
  BY <1>1 DEF Tasks, TaskStates, Intents
<1>. HIDE DEF state, worker, a
<1>6. /\ a.tool_actions = t.tool_actions + 1 /\ a.failed_actions = t.failed_actions
      /\ a.worker_actor_id = worker /\ a \in Tasks
  BY <1>1, <1>2, <1>5 DEF Tasks
<1>7. TaskAfter(d, i, o).worker_actor_id = a.worker_actor_id
  BY <1>3, <1>6 DEF Tasks
<1>. QED BY <1>1, <1>3, <1>4, <1>6, <1>7 DEF Tasks, a

LEMMA TaskDeniedFields ==
  ASSUME NEW t \in Tasks
  PROVE  /\ TaskDenied(t).tool_actions = t.tool_actions
         /\ TaskDenied(t).failed_actions = t.failed_actions
         /\ TaskDenied(t).state = "NEEDS_OPERATOR"
         /\ TaskDenied(t).worker_actor_id = t.worker_actor_id
BY DEF TaskDenied, Tasks

\* A version moved by a direct write leaves the rest of the task.
LEMMA VersionOnly ==
  ASSUME TypeOK, DirectWrites
  PROVE  /\ doc'.task.tool_actions = doc.task.tool_actions
         /\ doc'.task.failed_actions = doc.task.failed_actions
         /\ doc'.task.state = doc.task.state
         /\ doc'.task.worker_actor_id = doc.task.worker_actor_id
BY DirectBooks DEF TypeOK, StoreOK, TaskDocOK, TaskDocs, Tasks

-----------------------------------------------------------------------------
(* The counters *)

FailedKeys == {k \in FinalizedKeys : cycle[k].result.failure_code = "failed"}

LEMMA SameKeys ==
  ASSUME TypeOK, [Next]_vars, FinalizedKeys' = FinalizedKeys
  PROVE  ActedKeys' = ActedKeys /\ FailedKeys' = FailedKeys
BY FinalizedStay DEF ActedKeys, FailedKeys

LEMMA OneMoreKey ==
  ASSUME TypeOK, [Next]_vars, NEW r \in Requests, Enters(r)
  PROVE  /\ Key(r) \notin FinalizedKeys
         /\ ActedKeys' = IF cycle'[Key(r)].intent # NoIntent
                         THEN ActedKeys \cup {Key(r)} ELSE ActedKeys
         /\ FailedKeys' = IF cycle'[Key(r)].result.failure_code = "failed"
                          THEN FailedKeys \cup {Key(r)} ELSE FailedKeys
<1>1. Key(r) \notin FinalizedKeys /\ FinalizedKeys' = FinalizedKeys \cup {Key(r)}
  BY DEF Enters, FinalizedKeys
<1>2. \A k \in FinalizedKeys : cycle'[k] = cycle[k]
  BY FinalizedStay
<1>3. ActedKeys' = IF cycle'[Key(r)].intent # NoIntent
                  THEN ActedKeys \cup {Key(r)} ELSE ActedKeys
  BY <1>1, <1>2 DEF ActedKeys
<1>4. FailedKeys' = IF cycle'[Key(r)].result.failure_code = "failed"
                   THEN FailedKeys \cup {Key(r)} ELSE FailedKeys
  BY <1>1, <1>2 DEF FailedKeys
<1>. QED BY <1>1, <1>3, <1>4

\* There may be any number of keys, but only finitely many are finalized.
Accounts == IsFiniteSet(FinalizedKeys) /\ LedgerAccounts

LEMMA AccountsStep ==
  ASSUME TypeOK, OneEffect, Accounts, [Next]_vars
  PROVE  Accounts'
<1>. USE DEF Accounts, LedgerAccounts, FailedKeys
<1>1. CASE Quiet
  BY <1>1, SameKeys DEF Quiet
<1>2. CASE DirectWrites
  BY <1>2, DirectBooks, VersionOnly, SameKeys
<1>3. ASSUME NEW r \in Requests, Enters(r) PROVE Accounts'
  <2>1. doc \in TaskDocs /\ doc.task \in Tasks /\ \A o \in Outcomes : o \in CycleOutcomes
    BY OutcomesAssumption DEF TypeOK, StoreOK, TaskDocOK, TaskDocs
  <2>2. /\ FinalizedKeys' = FinalizedKeys \cup {Key(r)} /\ Key(r) \notin FinalizedKeys
        /\ Key(r) \notin ActedKeys /\ Key(r) \notin FailedKeys
    BY <1>3, OneMoreKey DEF Enters, ActedKeys
  <2>3. IsFiniteSet(ActedKeys) /\ IsFiniteSet(FailedKeys)
    BY FS_Subset DEF ActedKeys
  <2>4. /\ IsFiniteSet(FinalizedKeys')
        /\ Cardinality(FinalizedKeys') = Cardinality(FinalizedKeys) + 1
        /\ Cardinality(ActedKeys \cup {Key(r)}) = Cardinality(ActedKeys) + 1
        /\ Cardinality(FailedKeys \cup {Key(r)}) = Cardinality(FailedKeys) + 1
    BY <2>2, <2>3, FS_AddElement
  <2>. HIDE DEF FailedKeys
  <2>5. ASSUME NEW i \in Intents, NEW o \in Outcomes, WillAct(r, i, o)
        PROVE  Accounts'
    <3>1. /\ doc'.cycle_count = doc.cycle_count + 1
          /\ doc'.task.tool_actions = doc.task.tool_actions + 1
          /\ doc'.task.failed_actions = IF Succeeds(doc, i, o) THEN doc.task.failed_actions
                                        ELSE doc.task.failed_actions + 1
      BY <1>3, <2>1, <2>5, Acted, TaskAfterFields
    <3>2. /\ ActedKeys' = ActedKeys \cup {Key(r)}
          /\ FailedKeys' = IF Succeeds(doc, i, o) THEN FailedKeys ELSE FailedKeys \cup {Key(r)}
      <4>1. /\ cycle'[Key(r)].intent # NoIntent
            /\ cycle'[Key(r)].result = AppliedResult(doc, i, o)
        BY <1>3, <2>5, Acted
      <4>2. AppliedResult(doc, i, o).failure_code = IF Succeeds(doc, i, o) THEN "none" ELSE "failed"
        BY DEF AppliedResult
      <4>. QED BY <1>3, <4>1, <4>2, OneMoreKey
    <3>. QED BY <2>4, <3>1, <3>2 DEF FailedKeys
  <2>6. CASE WillRefuse(r)
    <3>1. /\ doc'.cycle_count = doc.cycle_count + 1
          /\ doc'.task.tool_actions = doc.task.tool_actions
          /\ doc'.task.failed_actions = doc.task.failed_actions
      BY <1>3, <2>1, <2>6, Refused, TaskDeniedFields
    <3>2. ActedKeys' = ActedKeys /\ FailedKeys' = FailedKeys
      BY <1>3, <2>6, Refused, OneMoreKey DEF DeniedResult
    <3>. QED BY <2>4, <3>1, <3>2 DEF FailedKeys
  <2>. QED BY <1>3, <2>5, <2>6 DEF Enters, WillWrite
<1>. QED BY <1>1, <1>2, <1>3, LedgerSteps

\* The counters of the task document are the numbers of its finalized cycles, of
\* those that acted and of those that failed, in whatever order requests finalize,
\* take over, crash and retry (_finalize_claim's cycle_count, apply_cycle's counters).
THEOREM CountersAddUp == Spec => []LedgerAccounts
<1>1. Init => Accounts
  <2>. SUFFICES ASSUME Init PROVE Accounts
    OBVIOUS
  <2>1. FinalizedKeys = {} /\ ActedKeys = {} /\ FailedKeys = {}
    BY DEF Init, FinalizedKeys, ActedKeys, FailedKeys, Absent
  <2>. QED BY <2>1, FS_EmptySet DEF Init, Accounts, LedgerAccounts, FailedKeys, NewDoc, NewTask
<1>2. Accounts => LedgerAccounts
  BY DEF Accounts
<1>3. TypeOK /\ OneEffect /\ Accounts /\ [Next]_vars => Accounts'
  BY AccountsStep
<1>. QED BY <1>1, <1>2, <1>3, Effects, PTL DEF Spec

-----------------------------------------------------------------------------
(* Budgets and verdicts *)

LEMMA BudgetStep ==
  ASSUME TypeOK, OneEffect, BudgetHeld, [Next]_vars
  PROVE  BudgetHeld'
<1>1. doc \in TaskDocs /\ doc.task \in Tasks /\ \A o \in Outcomes : o \in CycleOutcomes
  BY OutcomesAssumption DEF TypeOK, StoreOK, TaskDocOK, TaskDocs
<1>2. doc.task.tool_actions \in Nat /\ doc.task.failed_actions \in Nat
  BY <1>1 DEF Tasks
<1>3. CASE Quiet
  BY <1>3 DEF Quiet, BudgetHeld
<1>4. CASE DirectWrites
  BY <1>4, VersionOnly DEF BudgetHeld
<1>5. ASSUME NEW r \in Requests, Enters(r), NEW i \in Intents, NEW o \in Outcomes,
             WillAct(r, i, o)
      PROVE  BudgetHeld'
  <2>1. doc.task.tool_actions < ToolBudget /\ doc.task.failed_actions < 1
    BY <1>5, Acted DEF Admits, WithinBudget
  <2>2. /\ doc'.task.tool_actions = doc.task.tool_actions + 1
        /\ Succeeds(doc, i, o) => doc'.task.failed_actions = doc.task.failed_actions
        /\ ~ Succeeds(doc, i, o) => /\ doc'.task.failed_actions = doc.task.failed_actions + 1
                                    /\ doc'.task.state = "NEEDS_OPERATOR"
    BY <1>1, <1>5, Acted, TaskAfterFields
  <2>. QED BY <1>2, <2>1, <2>2, ToolBudgetAssumption DEF BudgetHeld
<1>6. ASSUME NEW r \in Requests, Enters(r), WillRefuse(r)
      PROVE  BudgetHeld'
  BY <1>1, <1>6, Refused, TaskDeniedFields DEF BudgetHeld
<1>. QED BY <1>3, <1>4, <1>5, <1>6, LedgerSteps DEF Enters, WillWrite

\* However many requests and processes act on the task, it is charged at most its
\* budget, and one failed action parks it for good (apply_cycle's admission).
THEOREM BudgetIsHeld == Spec => []BudgetHeld
<1>1. Init => BudgetHeld
  BY ToolBudgetAssumption DEF Init, BudgetHeld, NewDoc, NewTask
<1>. QED BY <1>1, BudgetStep, Effects, PTL DEF Spec

LEMMA TerminalStep ==
  ASSUME TypeOK, OneEffect, [Next]_vars, doc.task.state \in Terminal
  PROVE  doc'.task = doc.task /\ doc'.evidence = doc.evidence /\ doc'.baton = doc.baton
<1>1. ASSUME NEW r \in Requests, Enters(r), WillWrite(r)
      PROVE  FALSE
  BY <1>1, Acted, Refused DEF WillWrite, Admits
<1>. QED BY <1>1, LedgerSteps, DirectBooks DEF Enters, Quiet

\* A task that passed or failed keeps its task, evidence and baton: late owners,
\* retries, denials and direct writers included (_require_mutable, apply_cycle,
\* fail_cycle).
THEOREM VerdictsStand == Spec => TerminalFrozen
<1>1. TypeOK /\ OneEffect /\ [Next]_vars =>
        (doc.task.state \in Terminal =>
           /\ doc'.task = doc.task
           /\ doc'.evidence = doc.evidence
           /\ doc'.baton = doc.baton)
  BY TerminalStep
<1>. QED BY <1>1, Effects, PTL DEF Spec, TerminalFrozen

\* A task's worker is the one an entry of the ledger names.
Worked ==
  doc.task.worker_actor_id # NoActor =>
    \E work \in ActedKeys :
      cycle[work].intent.actor_id = doc.task.worker_actor_id
      /\ Role[doc.task.worker_actor_id] = "worker"

LEMMA VerdictStep ==
  ASSUME TypeOK, OneEffect, Worked, PassIsVerified, [Next]_vars
  PROVE  Worked' /\ PassIsVerified'
<1>1. doc \in TaskDocs /\ doc.task \in Tasks /\ \A o \in Outcomes : o \in CycleOutcomes
  BY OutcomesAssumption DEF TypeOK, StoreOK, TaskDocOK, TaskDocs
<1>2. \A k \in ActedKeys : cycle'[k] = cycle[k]
  BY FinalizedStay DEF ActedKeys
<1>3. ASSUME ActedKeys \subseteq ActedKeys', doc.evidence \subseteq doc'.evidence,
             doc'.task.worker_actor_id = doc.task.worker_actor_id
      PROVE  Worked' /\ (doc'.task.state = doc.task.state => PassIsVerified')
  BY <1>2, <1>3 DEF Worked, PassIsVerified
<1>4. CASE Quiet
  BY <1>3, <1>4, SameKeys DEF Quiet
<1>5. CASE DirectWrites
  BY <1>3, <1>5, DirectBooks, VersionOnly, SameKeys
<1>6. ASSUME NEW r \in Requests, Enters(r), NEW i \in Intents, NEW o \in Outcomes,
             WillAct(r, i, o)
      PROVE  Worked' /\ PassIsVerified'
  <2>. DEFINE worker == doc.task.worker_actor_id
              assigned == Role[i.actor_id] = "worker" /\ worker = NoActor
  <2>1. /\ doc'.task.worker_actor_id = IF assigned THEN i.actor_id ELSE worker
        /\ doc'.task.state = IF Succeeds(doc, i, o) THEN o.target ELSE "NEEDS_OPERATOR"
        /\ Admitted(doc.task, i).worker_actor_id = doc'.task.worker_actor_id
        /\ doc'.evidence = doc.evidence \cup EvidenceFrom(doc, i, o)
    BY <1>1, <1>6, Acted, TaskAfterFields
  <2>2. /\ cycle'[Key(r)].intent = i /\ Key(r) \in ActedKeys'
        /\ ActedKeys \subseteq ActedKeys'
    <3>1. cycle'[Key(r)].intent = i /\ i # NoIntent
      BY <1>6, Acted
    <3>. QED BY <1>6, <3>1, OneMoreKey
  <2>3. Worked'
    BY <1>2, <2>1, <2>2 DEF Worked
  <2>4. ASSUME doc'.task.state = "PASSED"
        PROVE  /\ worker # NoActor /\ worker # i.actor_id
               /\ Role[i.actor_id] = "verifier" /\ doc'.task.worker_actor_id = worker
               /\ \E e \in doc'.evidence : e.actor_id = i.actor_id /\ e.kind = "verification"
    <3>1. Succeeds(doc, i, o) /\ o.target = "PASSED"
      BY <2>1, <2>4
    <3>2. MayPass(Admitted(doc.task, i), i, o.evidence) /\ doc'.evidence = doc.evidence \cup o.evidence
      BY <2>1, <3>1 DEF Succeeds, EvidenceFrom
    <3>. QED BY <2>1, <3>2 DEF MayPass
  <2>5. PassIsVerified'
    <3>. SUFFICES ASSUME doc'.task.state = "PASSED" PROVE PassIsVerified'
      BY DEF PassIsVerified
    <3>1. PICK work \in ActedKeys :
            cycle[work].intent.actor_id = worker /\ Role[worker] = "worker"
      BY <2>4 DEF Worked
    <3>2. cycle'[work].intent.actor_id = worker /\ work \in ActedKeys'
      BY <1>2, <2>2, <3>1
    <3>. QED BY <2>2, <2>4, <3>1, <3>2 DEF PassIsVerified
  <2>. QED BY <2>3, <2>5
<1>7. ASSUME NEW r \in Requests, Enters(r), WillRefuse(r)
      PROVE  Worked' /\ PassIsVerified'
  <2>1. /\ doc'.task.worker_actor_id = doc.task.worker_actor_id
        /\ doc'.task.state = "NEEDS_OPERATOR" /\ doc'.evidence = doc.evidence
    BY <1>1, <1>7, Refused, TaskDeniedFields
  <2>2. ActedKeys \subseteq ActedKeys'
    BY <1>7, OneMoreKey
  <2>. QED BY <1>3, <2>1, <2>2 DEF PassIsVerified
<1>. QED BY <1>4, <1>5, <1>6, <1>7, LedgerSteps DEF Enters, WillWrite

\* A task passes only through an action of a registered verifier, on evidence of
\* its own, after a registered worker, another actor, acted in another cycle; both
\* cycles are on record (apply_cycle's verifier check, require_pass_evidence).
THEOREM PassesAreVerified == Spec => []PassIsVerified
<1>1. Init => Worked /\ PassIsVerified
  BY DEF Init, Worked, PassIsVerified, NewDoc, NewTask
<1>2. TypeOK /\ OneEffect /\ Worked /\ PassIsVerified /\ [Next]_vars
      => (Worked /\ PassIsVerified)'
  BY VerdictStep
<1>. QED BY <1>1, <1>2, Effects, PTL DEF Spec

-----------------------------------------------------------------------------
(* Evidence and its markers *)

LEMMA MarkerSteps ==
  ASSUME [Next]_vars
  PROVE  \/ UNCHANGED markers
         \/ \E r \in Requests : Commit(r)
         \/ \E e \in DirectEvidence : AppendEvidence(e)
         \/ \E id \in ForeignIds : OtherTaskEvidence(id)
<1>1. CASE UNCHANGED vars
  BY <1>1 DEF vars, docs
<1>2. ASSUME NEW r \in Requests, Begin(r) PROVE UNCHANGED markers
  BY <1>2 DEF Begin, docs
<1>3. ASSUME NEW r \in Requests, Claim(r) PROVE UNCHANGED markers
  BY <1>3 DEF Claim, ClaimReplay, ClaimRefused, ClaimWait, ClaimTimesOut, ClaimTakeover,
              ClaimFresh, HoldClaim, docs
<1>4. ASSUME NEW r \in Requests, Transact(r) PROVE UNCHANGED markers \/ Commit(r)
  BY <1>4 DEF Transact, Propose, CoordinatorDenied, Bind, BindRefused, Execute, ExecuteRefused,
              Fail, FailRefused, Finalize, FinalizeRefused, Confirm, Abort, docs
<1>5. ASSUME NEW r \in Requests, Fault(r) PROVE UNCHANGED markers \/ Commit(r)
  BY <1>5 DEF Fault, ClaimAckLost, BindAckLost, FinalizeAckLost, AbortFails, Crash, StoreError,
              ConfirmError, docs
<1>6. CASE Environment
  BY <1>6 DEF Environment, Tick, SetBaton, docs
<1>. QED BY <1>1, <1>2, <1>3, <1>4, <1>5, <1>6 DEF Next

LEMMA MarkersKeptStep ==
  ASSUME TypeOK, [Next]_vars, NEW id \in EvidenceIds, markers[id] # "none"
  PROVE  markers'[id] = markers[id]
<1>1. markers \in [EvidenceIds -> {"none", "ours", "theirs"}]
  BY DEF TypeOK, StoreOK
<1>2. ASSUME NEW r \in Requests, Commit(r) PROVE markers'[id] = markers[id]
  BY <1>1, <1>2 DEF Commit, CanFinalize, IdsOf
<1>3. ASSUME NEW e \in DirectEvidence, AppendEvidence(e) PROVE markers'[id] = markers[id]
  BY <1>1, <1>3 DEF AppendEvidence
<1>4. ASSUME NEW f \in ForeignIds, OtherTaskEvidence(f) PROVE markers'[id] = markers[id]
  BY <1>1, <1>4 DEF OtherTaskEvidence
<1>. QED BY <1>2, <1>3, <1>4, MarkerSteps

\* An evidence id that a task has taken stays its own: no finalize, append or other
\* task takes it over (the marker checks of _finalize_claim and append_evidence).
THEOREM EvidenceIdsAreOwned == Spec => MarkersKept
<1>1. ASSUME TypeOK, [Next]_vars
      PROVE  \A id \in EvidenceIds : markers[id] # "none" => markers'[id] = markers[id]
  BY <1>1, MarkersKeptStep
<1>. QED BY <1>1, TypeCorrect, PTL DEF Spec, MarkersKept

LEMMA IndexedStep ==
  ASSUME TypeOK, OneEffect, EvidenceIndexed, [Next]_vars
  PROVE  EvidenceIndexed'
<1>1. /\ doc \in TaskDocs /\ \A o \in Outcomes : o \in CycleOutcomes
      /\ markers \in [EvidenceIds -> {"none", "ours", "theirs"}]
  BY OutcomesAssumption DEF TypeOK, StoreOK, TaskDocOK
<1>2. ASSUME doc'.evidence = doc.evidence,
             {id \in EvidenceIds : markers'[id] = "ours"} = {id \in EvidenceIds : markers[id] = "ours"}
      PROVE  EvidenceIndexed'
  BY <1>2 DEF EvidenceIndexed, IdsOf, DistinctIds
\* What is added is new, and gets its markers.
<1>3. ASSUME NEW items \in SUBSET Evidence, doc'.evidence = doc.evidence \cup items,
             DistinctIds(items), IdsOf(items) \cap IdsOf(doc.evidence) = {},
             markers' = [id \in EvidenceIds |->
                           IF id \in IdsOf(items) THEN "ours" ELSE markers[id]]
      PROVE  EvidenceIndexed'
  <2>1. IdsOf(items) \subseteq EvidenceIds
    BY DEF IdsOf, Evidence
  <2>2. IdsOf(doc'.evidence) = IdsOf(doc.evidence) \cup IdsOf(items)
    BY <1>3 DEF IdsOf
  <2>3. DistinctIds(doc'.evidence)
    BY <1>3 DEF DistinctIds, IdsOf, EvidenceIndexed
  <2>. QED BY <1>3, <2>1, <2>2, <2>3 DEF EvidenceIndexed
<1>4. ASSUME NEW r \in Requests, Enters(r), NEW i \in Intents, NEW o \in Outcomes,
             WillAct(r, i, o)
      PROVE  EvidenceIndexed'
  <2>. DEFINE items == EvidenceFrom(doc, i, o)
  <2>1. items \in SUBSET Evidence /\ DistinctIds(items) /\ IdsOf(items) \cap IdsOf(doc.evidence) = {}
    BY <1>1 DEF EvidenceFrom, Succeeds, CycleOutcomes, DistinctIds, IdsOf
  <2>2. pending[r].result.evidence = items
    BY <1>4 DEF WillAct, AppliedResult
  <2>3. doc'.evidence = doc.evidence \cup items
    BY <1>4, Acted
  <2>4. markers' = [id \in EvidenceIds |-> IF id \in IdsOf(items) THEN "ours" ELSE markers[id]]
    BY <1>4, <2>2 DEF Enters, Commit
  <2>. QED BY <1>3, <2>1, <2>3, <2>4
<1>5. ASSUME NEW r \in Requests, Enters(r), WillRefuse(r)
      PROVE  EvidenceIndexed'
  <2>1. pending[r].result.evidence = {} /\ IdsOf({}) = {}
    BY <1>5 DEF WillRefuse, DeniedResult, IdsOf
  <2>2. \A id \in EvidenceIds : markers'[id] = markers[id]
    BY <1>1, <1>5, <2>1 DEF Enters, Commit
  <2>. QED BY <1>2, <1>5, <2>2, Refused
<1>6. ASSUME NEW e \in DirectEvidence, AppendEvidence(e)
      PROVE  EvidenceIndexed'
  <2>1. e \in Evidence /\ IdsOf({e}) = {e.id} /\ DistinctIds({e})
    BY DirectAssumption DEF IdsOf, DistinctIds
  <2>2. doc'.evidence = doc.evidence \cup {e}
    BY <1>1, <1>6, <2>1, AppendedType DEF AppendEvidence
  <2>3. markers' = [id \in EvidenceIds |-> IF id \in IdsOf({e}) THEN "ours" ELSE markers[id]]
    BY <1>1, <1>6, <2>1 DEF AppendEvidence
  <2>4. {e} \in SUBSET Evidence /\ IdsOf({e}) \cap IdsOf(doc.evidence) = {}
    BY <1>6, <2>1 DEF AppendEvidence
  <2>. QED BY <1>3, <2>1, <2>2, <2>3, <2>4
<1>7. ASSUME NEW k \in DirectBatons, SetBaton(k)
      PROVE  EvidenceIndexed'
  BY <1>1, <1>2, <1>7, BatonSetType, DirectAssumption DEF SetBaton
<1>8. CASE Quiet
  <2>1. CASE UNCHANGED markers
    BY <1>2, <1>8, <2>1 DEF Quiet
  <2>2. ASSUME NEW r \in Requests, Commit(r) PROVE EvidenceIndexed'
    BY <1>4, <1>5, <2>2, CommitEnters DEF Enters, WillWrite
  <2>3. ASSUME NEW id \in ForeignIds, OtherTaskEvidence(id) PROVE EvidenceIndexed'
    BY <1>1, <1>2, <2>3, DirectAssumption DEF OtherTaskEvidence
  <2>. QED BY <1>6, <2>1, <2>2, <2>3, MarkerSteps
<1>. QED BY <1>4, <1>5, <1>6, <1>7, <1>8, LedgerSteps DEF Enters, WillWrite, DirectWrites

\* The evidence list of the task and the evidence documents always name the same
\* ids, each id once, whatever finalizes, appends and other tasks interleave.
THEOREM EvidenceIsIndexed == Spec => []EvidenceIndexed
<1>1. Init => EvidenceIndexed
  BY DEF Init, EvidenceIndexed, NewDoc, IdsOf, DistinctIds
<1>. QED BY <1>1, IndexedStep, Effects, PTL DEF Spec

-----------------------------------------------------------------------------
(* Telemetry *)

\* A request that confirms is the only one to do so under its key, which has not
\* been reported yet; nor has any key that is not finalized.
Confirming ==
  /\ \A r \in Requests : pc[r] = "confirming" =>
       /\ cycle[Key(r)].status = "finalized" /\ cycle[Key(r)].intent = pending[r].intent
       /\ events[Key(r)] = 0
  /\ \A r, s \in Requests :
       pc[r] = "confirming" /\ pc[s] = "confirming" /\ r # s => Key(r) # Key(s)
  /\ \A k \in Keys : cycle[k].status # "finalized" => events[k] = 0

LEMMA EventSteps ==
  ASSUME TypeOK, [Next]_vars
  PROVE  \/ UNCHANGED events
         \/ \E r \in Requests :
              /\ pc[r] = "confirming" /\ pc'[r] # "confirming"
              /\ Steps(r) /\ events' = EventsAfter(r)
<1>1. CASE UNCHANGED vars
  BY <1>1 DEF vars
<1>2. ASSUME NEW r \in Requests, Begin(r) PROVE UNCHANGED events
  BY <1>2 DEF Begin
<1>3. ASSUME NEW r \in Requests, Claim(r) PROVE UNCHANGED events
  BY <1>3 DEF Claim, ClaimReplay, ClaimRefused, ClaimWait, ClaimTimesOut, ClaimTakeover,
              ClaimFresh, HoldClaim
<1>4. ASSUME NEW r \in Requests, Confirm(r) \/ ConfirmError(r)
      PROVE  pc[r] = "confirming" /\ pc'[r] # "confirming" /\ Steps(r) /\ events' = EventsAfter(r)
  BY <1>4 DEF Confirm, ConfirmError, Return, Stop, Steps, Transact, Fault, TypeOK, RequestsOK
<1>5. ASSUME NEW r \in Requests, Transact(r) PROVE UNCHANGED events \/ Confirm(r)
  BY <1>5 DEF Transact, Propose, CoordinatorDenied, Bind, BindRefused, Execute, ExecuteRefused,
              Fail, FailRefused, Finalize, FinalizeRefused, Abort
<1>6. ASSUME NEW r \in Requests, Fault(r) PROVE UNCHANGED events \/ ConfirmError(r)
  BY <1>6 DEF Fault, ClaimAckLost, BindAckLost, FinalizeAckLost, AbortFails, Crash, StoreError
<1>7. CASE Environment
  BY <1>7 DEF Environment, Tick, AppendEvidence, SetBaton, OtherTaskEvidence
<1>. QED BY <1>1, <1>2, <1>3, <1>4, <1>5, <1>6, <1>7 DEF Next

\* Whoever does not take the step stays where it is.
LEMMA OutsiderStays ==
  ASSUME TypeOK, [Next]_vars, NEW r \in Requests, ~ Steps(r)
  PROVE  pc'[r] = pc[r] /\ call'[r] = call[r] /\ pending'[r] = pending[r]
<1>1. ASSUME NEW s \in Requests, Steps(s)
      PROVE  pc'[r] = pc[r] /\ call'[r] = call[r] /\ pending'[r] = pending[r]
  BY <1>1, OthersStay
<1>. QED BY <1>1, EnvironmentStays DEF Next, Steps

LEMMA ComesToConfirm ==
  ASSUME TypeOK, NEW r \in Requests, Steps(r), pc'[r] = "confirming"
  PROVE  Finalize(r)
<1>. USE DEF TypeOK, RequestsOK, Stop, Return, GiveUp, HoldClaim, locals, Stopped
<1>1. ~ Begin(r)
  BY DEF Begin
<1>2. ~ Claim(r)
  BY DEF Claim, ClaimReplay, ClaimRefused, ClaimWait, ClaimTimesOut, ClaimTakeover,
         ClaimFresh, TakeOver, TakeFresh
<1>3. CASE Transact(r)
  <2>1. ~ \E a \in Actors, action \in Actions : Propose(r, a, action)
    BY DEF Propose
  <2>2. ~ CoordinatorDenied(r) /\ ~ Bind(r)
    BY DEF CoordinatorDenied, Bind
  <2>3. ~ \E o \in Outcomes : Execute(r, o)
    BY DEF Execute
  <2>4. ~ Fail(r)
    BY DEF Fail
  <2>5. ~ (\/ BindRefused(r) \/ FailRefused(r) \/ FinalizeRefused(r)
           \/ \E o \in Outcomes : ExecuteRefused(r, o))
    BY DEF BindRefused, FailRefused, FinalizeRefused, ExecuteRefused
  <2>6. ~ Confirm(r) /\ ~ Abort(r)
    BY DEF Confirm, Abort
  <2>. QED BY <1>3, <2>1, <2>2, <2>3, <2>4, <2>5, <2>6 DEF Transact
<1>4. ~ Fault(r)
  BY DEF Fault, ClaimAckLost, BindAckLost, FinalizeAckLost, AbortFails, Crash, StoreError, ConfirmError
<1>. QED BY <1>1, <1>2, <1>3, <1>4 DEF Steps

LEMMA TelemetryStep ==
  ASSUME TypeOK, OneEffect, Confirming, TelemetryOnce, [Next]_vars
  PROVE  Confirming' /\ TelemetryOnce'
<1>1. events \in [Keys -> Nat]
  BY DEF TypeOK, StoreOK
<1>2. ASSUME NEW r \in Requests, pc[r] = "confirming"
      PROVE  Key(r) \in Keys /\ cycle'[Key(r)] = cycle[Key(r)]
  <2>1. Key(r) \in Keys
    BY <1>2, WorkingCall DEF TypeOK, Working
  <2>. QED BY <1>2, <2>1, FinalizedStep DEF Confirming
\* An event is the first one under its key, and of a request that confirms no more.
<1>3. ASSUME NEW k \in Keys, events'[k] # events[k]
      PROVE  /\ events[k] = 0 /\ events'[k] = 1
             /\ cycle'[k].status = "finalized" /\ cycle'[k].intent # NoIntent
             /\ \E r \in Requests :
                  pc[r] = "confirming" /\ pc'[r] # "confirming" /\ Steps(r) /\ Key(r) = k
  <2>1. PICK r \in Requests : /\ pc[r] = "confirming" /\ pc'[r] # "confirming"
                              /\ Steps(r) /\ events' = EventsAfter(r)
    BY <1>3, EventSteps
  <2>2. Key(r) \in Keys /\ cycle'[Key(r)] = cycle[Key(r)]
    BY <1>2, <2>1
  <2>3. pending[r].intent # NoIntent /\ events' = [events EXCEPT ![Key(r)] = events[Key(r)] + 1]
    BY <1>3, <2>1 DEF EventsAfter
  <2>4. k = Key(r) /\ events'[k] = events[k] + 1
    BY <1>1, <1>3, <2>2, <2>3
  <2>. QED BY <2>1, <2>2, <2>3, <2>4 DEF Confirming
\* A request that starts to confirm has just finalized a cycle nobody had finalized.
<1>4. ASSUME NEW r \in Requests, Steps(r), pc'[r] = "confirming"
      PROVE  /\ Key(r)' = Key(r) /\ Key(r) \in Keys
             /\ cycle[Key(r)].status = "claimed" /\ cycle'[Key(r)].status = "finalized"
             /\ cycle'[Key(r)].intent = pending'[r].intent /\ UNCHANGED events
  <2>1. Finalize(r)
    BY <1>4, ComesToConfirm
  <2>2. Enters(r)
    BY <2>1, CommitEnters DEF Finalize
  <2>. QED BY <2>1, <2>2 DEF Finalize, Enters, FinalizedKeys, locals, Key
<1>5. ASSUME NEW r \in Requests, ~ Steps(r), pc'[r] = "confirming"
      PROVE  /\ pc[r] = "confirming" /\ Key(r)' = Key(r) /\ pending'[r] = pending[r]
             /\ Key(r) \in Keys /\ cycle'[Key(r)] = cycle[Key(r)]
  BY <1>2, <1>5, OutsiderStays DEF Key
<1>6. ASSUME NEW r \in Requests, pc'[r] = "confirming"
      PROVE  /\ cycle'[Key(r)'].status = "finalized"
             /\ cycle'[Key(r)'].intent = pending'[r].intent
             /\ events'[Key(r)'] = 0
  <2>1. CASE Steps(r)
    BY <1>4, <1>6, <2>1 DEF Confirming
  <2>2. CASE ~ Steps(r)
    <3>1. events'[Key(r)] = events[Key(r)]
      BY <1>3, <1>5, <1>6, <2>2 DEF Confirming
    <3>. QED BY <1>5, <1>6, <2>2, <3>1 DEF Confirming
  <2>. QED BY <2>1, <2>2
<1>7. ASSUME NEW r \in Requests, NEW s \in Requests,
             pc'[r] = "confirming", pc'[s] = "confirming", r # s
      PROVE  Key(r)' # Key(s)'
  <2>1. CASE Steps(r)
    <3>1. pc[s] = "confirming" /\ Key(s)' = Key(s)
      BY <1>7, <2>1, OthersStay DEF Key
    <3>. QED BY <1>4, <1>7, <2>1, <3>1 DEF Confirming
  <2>2. CASE Steps(s)
    <3>1. pc[r] = "confirming" /\ Key(r)' = Key(r)
      BY <1>7, <2>2, OthersStay DEF Key
    <3>. QED BY <1>4, <1>7, <2>2, <3>1 DEF Confirming
  <2>3. CASE ~ Steps(r) /\ ~ Steps(s)
    BY <1>5, <1>7, <2>3 DEF Confirming
  <2>. QED BY <2>1, <2>2, <2>3
<1>8. ASSUME NEW k \in Keys, cycle'[k].status # "finalized" PROVE events'[k] = 0
  <2>1. cycle[k].status # "finalized"
    BY <1>8, FinalizedStep
  <2>. QED BY <1>3, <1>8, <2>1 DEF Confirming
<1>9. ASSUME NEW k \in Keys
      PROVE  /\ events'[k] <= 1
             /\ events'[k] = 1 => cycle'[k].status = "finalized" /\ cycle'[k].intent # NoIntent
  <2>1. CASE events'[k] = events[k]
    BY <2>1, FinalizedStep DEF TelemetryOnce
  <2>. QED BY <1>3, <2>1
<1>10. Confirming'
  BY <1>6, <1>7, <1>8 DEF Confirming
<1>11. TelemetryOnce'
  BY <1>9 DEF TelemetryOnce
<1>. QED BY <1>10, <1>11

\* However often a cycle's call is retried, taken over or its answer lost, it is
\* reported at most once, and only if its action is on record (service.py's
\* emit after run_cycle_transaction, behind the re-read of what was persisted).
THEOREM ReportedOnce == Spec => []TelemetryOnce
<1>1. Init => Confirming /\ TelemetryOnce
  BY DEF Init, Confirming, TelemetryOnce
<1>2. TypeOK /\ OneEffect /\ Confirming /\ TelemetryOnce /\ [Next]_vars
      => (Confirming /\ TelemetryOnce)'
  BY TelemetryStep
<1>. QED BY <1>1, <1>2, Effects, PTL DEF Spec

-----------------------------------------------------------------------------
(* The ledger this protocol keeps *)

\* The rules the ledger is built from are the rules this module is built from.
LEMMA SameData ==
  /\ Ledger!NoIntent = NoIntent /\ Ledger!NoResult = NoResult /\ Ledger!NewTask = NewTask
  /\ Ledger!NoEntry = [intent |-> NoIntent, result |-> NoResult]
  /\ Ledger!Terminal = Terminal /\ Ledger!Actions = Actions /\ Ledger!Evidence = Evidence
  /\ \A items : Ledger!IdsOf(items) = IdsOf(items)
  /\ \A items : Ledger!DistinctIds(items) <=> DistinctIds(items)
BY DEF Ledger!NoIntent, NoIntent, Ledger!NoResult, NoResult, Ledger!NewTask, NewTask,
       Ledger!NoEntry, Ledger!Terminal, Terminal, Ledger!Actions, Actions,
       Ledger!Evidence, Evidence, Ledger!IdsOf, IdsOf,
       Ledger!DistinctIds, DistinctIds

LEMMA SameAdmission ==
  /\ \A t, i : Ledger!Admits(t, i) <=> Admits(t, i)
  /\ \A t, i : Ledger!Admitted(t, i) = Admitted(t, i)
  /\ \A t, i, items : Ledger!MayPass(t, i, items) <=> MayPass(t, i, items)
<1>1. \A role : Ledger!RoleAction(role) = RoleAction(role)
  BY DEF Ledger!RoleAction, RoleAction
<1>2. \A t : Ledger!WithinBudget(t) <=> WithinBudget(t)
  BY DEF Ledger!WithinBudget, WithinBudget
<1>3. \A t, i : Ledger!Admits(t, i) <=> Admits(t, i)
  BY <1>1, <1>2, SameData DEF Ledger!Admits, Admits
<1>4. \A t, i : Ledger!Admitted(t, i) = Admitted(t, i)
  BY DEF Ledger!Admitted, Admitted
<1>5. \A t, i, items : Ledger!MayPass(t, i, items) <=> MayPass(t, i, items)
  BY DEF Ledger!MayPass, MayPass
<1>. QED BY <1>3, <1>4, <1>5

LEMMA SameEffects ==
  /\ \A b, i, o : Ledger!Applied(b, i, o) = Applied(b, i, o)
  /\ \A b, i, o : Ledger!AppliedResult(b, i, o) = AppliedResult(b, i, o)
  /\ \A b : Ledger!Denied(b) = Denied(b) /\ Ledger!DeniedResult(b) = DeniedResult(b)
  /\ \A b, e : Ledger!Appended(b, e) = Appended(b, e)
  /\ \A b, k : Ledger!BatonSet(b, k) = BatonSet(b, k)
<1>1. Ledger!LegalTransitions = LegalTransitions
  BY DEF Ledger!LegalTransitions, LegalTransitions
<1>2. \A b, i, o : Ledger!Succeeds(b, i, o) <=> Succeeds(b, i, o)
  BY <1>1, SameData, SameAdmission DEF Ledger!Succeeds, Succeeds
<1>3. \A b, i, o : Ledger!TaskAfter(b, i, o) = TaskAfter(b, i, o)
  BY <1>2, SameAdmission DEF Ledger!TaskAfter, TaskAfter
<1>4. \A b, i, o : Ledger!EvidenceFrom(b, i, o) = EvidenceFrom(b, i, o)
  BY <1>2 DEF Ledger!EvidenceFrom, EvidenceFrom
<1>5. \A b, i, o : Ledger!Applied(b, i, o) = Applied(b, i, o)
  BY <1>2, <1>3, <1>4 DEF Ledger!Applied, Applied
<1>6. \A b, i, o : Ledger!AppliedResult(b, i, o) = AppliedResult(b, i, o)
  BY <1>2, <1>3, <1>4 DEF Ledger!AppliedResult, AppliedResult
<1>7. \A b : Ledger!Denied(b) = Denied(b) /\ Ledger!DeniedResult(b) = DeniedResult(b)
  BY DEF Ledger!Denied, Denied, Ledger!DeniedResult, DeniedResult,
         Ledger!TaskDenied, TaskDenied
<1>8. \A b, e : Ledger!Appended(b, e) = Appended(b, e)
  BY DEF Ledger!Appended, Appended
<1>9. \A b, k : Ledger!BatonSet(b, k) = BatonSet(b, k)
  BY DEF Ledger!BatonSet, BatonSet
<1>. QED BY <1>5, <1>6, <1>7, <1>8, <1>9

\* What a rule does to the book of a task document, it does to the document.
BookOf(d) == [task |-> d.task, evidence |-> d.evidence, baton |-> d.baton]

LEMMA BookActed ==
  ASSUME NEW d \in TaskDocs, NEW i, NEW o
  PROVE  /\ Applied(BookOf(d), i, o) = BookOf(Applied(d, i, o))
         /\ AppliedResult(BookOf(d), i, o) = AppliedResult(d, i, o)
<1>. DEFINE b == BookOf(d)
<1>1. b.task = d.task /\ b.evidence = d.evidence /\ b.baton = d.baton
  BY DEF BookOf
<1>. HIDE DEF b
<1>2. Succeeds(b, i, o) <=> Succeeds(d, i, o)
  BY <1>1 DEF Succeeds
<1>3. TaskAfter(b, i, o) = TaskAfter(d, i, o) /\ EvidenceFrom(b, i, o) = EvidenceFrom(d, i, o)
  BY <1>1, <1>2 DEF TaskAfter, EvidenceFrom
<1>4. AppliedResult(b, i, o) = AppliedResult(d, i, o)
  BY <1>2, <1>3 DEF AppliedResult
<1>5. Applied(b, i, o) = BookOf(Applied(d, i, o))
  <2>. DEFINE task == TaskAfter(d, i, o)
              evidence == d.evidence \cup EvidenceFrom(d, i, o)
              baton == IF Succeeds(d, i, o) /\ o.baton # NoKey THEN o.baton ELSE d.baton
  <2>1. /\ Applied(b, i, o) = [b EXCEPT !.task = task, !.evidence = evidence, !.baton = baton]
        /\ Applied(d, i, o) = [d EXCEPT !.task = task, !.evidence = evidence, !.baton = baton]
    BY <1>1, <1>2, <1>3 DEF Applied
  <2>. HIDE DEF task, evidence, baton
  <2>2. BookOf(Applied(d, i, o)) = [task |-> task, evidence |-> evidence, baton |-> baton]
    BY <2>1 DEF BookOf, TaskDocs
  <2>3. Applied(b, i, o) = [task |-> task, evidence |-> evidence, baton |-> baton]
    BY <2>1 DEF b, BookOf
  <2>. QED BY <2>2, <2>3
<1>. QED BY <1>4, <1>5 DEF b

LEMMA BookOther ==
  ASSUME NEW d \in TaskDocs
  PROVE  /\ Denied(BookOf(d)) = BookOf(Denied(d))
         /\ DeniedResult(BookOf(d)) = DeniedResult(d)
         /\ \A e : Appended(BookOf(d), e) = BookOf(Appended(d, e))
         /\ \A k : BatonSet(BookOf(d), k) = BookOf(BatonSet(d, k))
<1>. DEFINE b == BookOf(d)
<1>1. /\ b.task = d.task /\ b.evidence = d.evidence /\ b.baton = d.baton
      /\ b \in [task : {d.task}, evidence : {d.evidence}, baton : {d.baton}]
  BY DEF BookOf
<1>2. DeniedResult(b) = DeniedResult(d)
  BY <1>1 DEF DeniedResult
\* A change of those fields alone is the same change in both.
<1>3. ASSUME NEW task
      PROVE  [b EXCEPT !.task = task] = BookOf([d EXCEPT !.task = task])
  BY DEF BookOf, TaskDocs
<1>. HIDE DEF b
<1>4. ASSUME NEW task, NEW evidence
      PROVE  [b EXCEPT !.task = task, !.evidence = evidence] =
               BookOf([d EXCEPT !.task = task, !.evidence = evidence])
  <2>. DEFINE Kind == [task : {d.task, task}, evidence : {d.evidence, evidence}, baton : {d.baton}]
              c == [b EXCEPT !.task = task, !.evidence = evidence]
  <2>1. b \in Kind
    BY <1>1
  <2>2. c \in Kind /\ c.task = task /\ c.evidence = evidence /\ c.baton = d.baton
    BY <1>1, <2>1
  <2>. HIDE DEF c
  <2>3. c = [task |-> task, evidence |-> evidence, baton |-> d.baton]
    BY <2>2
  <2>. QED BY <2>3 DEF BookOf, TaskDocs, c
<1>5. ASSUME NEW task, NEW baton
      PROVE  [b EXCEPT !.task = task, !.baton = baton] =
               BookOf([d EXCEPT !.task = task, !.baton = baton])
  <2>. DEFINE Kind == [task : {d.task, task}, evidence : {d.evidence}, baton : {d.baton, baton}]
              c == [b EXCEPT !.task = task, !.baton = baton]
  <2>1. b \in Kind
    BY <1>1
  <2>2. c \in Kind /\ c.task = task /\ c.evidence = d.evidence /\ c.baton = baton
    BY <1>1, <2>1
  <2>. HIDE DEF c
  <2>3. c = [task |-> task, evidence |-> d.evidence, baton |-> baton]
    BY <2>2
  <2>. QED BY <2>3 DEF BookOf, TaskDocs, c
<1>6. Denied(b) = BookOf(Denied(d))
  BY <1>1, <1>3 DEF Denied
<1>7. ASSUME NEW e PROVE Appended(b, e) = BookOf(Appended(d, e))
  BY <1>1, <1>4 DEF Appended
<1>8. ASSUME NEW k PROVE BatonSet(b, k) = BookOf(BatonSet(d, k))
  BY <1>1, <1>5 DEF BatonSet
<1>. QED BY <1>2, <1>6, <1>7, <1>8 DEF b

LEMMA SeenAsBook == BookSeen = BookOf(doc) /\ BookSeen' = BookOf(doc')
BY DEF BookSeen, BookOf

LEMMA QuietStutters ==
  ASSUME TypeOK, [Next]_vars, Quiet
  PROVE  UNCHANGED Ledger!ledgerVars
<1>1. LedgerSeen' = LedgerSeen
  BY FinalizedStay DEF LedgerSeen, Quiet
<1>. QED BY <1>1 DEF Quiet, BookSeen, Ledger!ledgerVars

LEMMA EntryEnters ==
  ASSUME TypeOK, [Next]_vars, NEW r \in Requests, Enters(r), cycle'[Key(r)].result \in Results
  PROVE  /\ Key(r) \in Keys /\ Ledger!Enter(Key(r))
         /\ LedgerSeen'[Key(r)] = [intent |-> cycle'[Key(r)].intent,
                                   result |-> cycle'[Key(r)].result]
<1>1. /\ Key(r) \in Keys /\ Key(r) \notin FinalizedKeys
      /\ FinalizedKeys' = FinalizedKeys \cup {Key(r)}
      /\ \A k \in Keys \ {Key(r)} : cycle'[k] = cycle[k]
  BY OneMoreKey DEF Enters
<1>2. LedgerSeen[Key(r)] = Ledger!NoEntry
  BY <1>1, SameData DEF LedgerSeen
<1>3. LedgerSeen'[Key(r)] = [intent |-> cycle'[Key(r)].intent, result |-> cycle'[Key(r)].result]
  BY <1>1 DEF LedgerSeen
<1>4. LedgerSeen'[Key(r)] # Ledger!NoEntry
  BY <1>3, SameData DEF NoResult, Results
<1>5. \A k \in Keys \ {Key(r)} : LedgerSeen'[k] = LedgerSeen[k]
  BY <1>1 DEF LedgerSeen
<1>6. LedgerSeen' = [LedgerSeen EXCEPT ![Key(r)] = LedgerSeen'[Key(r)]]
  BY <1>1, <1>5 DEF LedgerSeen
<1>. QED BY <1>1, <1>2, <1>3, <1>4, <1>6 DEF Ledger!Enter

\* A finalized action is one record of the ledger, for the book it changes.
LEMMA ActionRecords ==
  ASSUME TypeOK, [Next]_vars, NEW r \in Requests, Enters(r),
         NEW i \in Intents, NEW o \in Outcomes, WillAct(r, i, o)
  PROVE  Ledger!Write
<1>1. doc \in TaskDocs /\ o \in CycleOutcomes
  BY OutcomesAssumption DEF TypeOK, StoreOK, TaskDocOK
<1>2. /\ cycle'[Key(r)].intent = i /\ cycle'[Key(r)].result = AppliedResult(doc, i, o)
      /\ Admits(doc.task, i)
  BY Acted
<1>3. AppliedResult(doc, i, o) \in Results /\ Applied(doc, i, o) \in TaskDocs
  BY <1>1, AppliedType
<1>4. BookSeen' = BookOf(Applied(doc, i, o))
  <2>1. Closed(Applied(doc, i, o)).evidence = Applied(doc, i, o).evidence
        /\ Closed(Applied(doc, i, o)).task = Applied(doc, i, o).task
        /\ Closed(Applied(doc, i, o)).baton = Applied(doc, i, o).baton
    BY <1>3, ClosedType, ClosedBaton
  <2>2. doc' = Closed(Applied(doc, i, o))
    BY DEF Enters, WillAct
  <2>. QED BY <2>1, <2>2, SeenAsBook DEF BookOf
<1>5. /\ Key(r) \in Keys /\ Ledger!Enter(Key(r))
      /\ LedgerSeen'[Key(r)] = [intent |-> i, result |-> AppliedResult(doc, i, o)]
  BY <1>2, <1>3, EntryEnters
<1>6. /\ BookSeen.task = doc.task
      /\ BookSeen' = Applied(BookSeen, i, o)
      /\ AppliedResult(BookSeen, i, o) = AppliedResult(doc, i, o)
  BY <1>1, <1>4, BookActed, SeenAsBook DEF BookOf
<1>7. /\ i.actor_id \in Actors /\ i.action \in Actions
      /\ i = [actor_id |-> i.actor_id, action |-> i.action,
              expected_version |-> BookSeen.task.version]
  BY <1>2, <1>6 DEF Intents, Admits
<1>8. Ledger!Record(Key(r), i.actor_id, i.action, o)
  BY <1>2, <1>5, <1>6, <1>7, SameAdmission, SameEffects DEF Ledger!Record
<1>. QED BY <1>5, <1>7, <1>8, SameData DEF Ledger!Write

\* A finalized denial is one refusal of the ledger.
LEMMA DenialRecords ==
  ASSUME TypeOK, [Next]_vars, NEW r \in Requests, Enters(r), WillRefuse(r)
  PROVE  Ledger!Write
<1>1. doc \in TaskDocs
  BY DEF TypeOK, StoreOK, TaskDocOK
<1>2. /\ cycle'[Key(r)].intent = NoIntent /\ cycle'[Key(r)].result = DeniedResult(doc)
      /\ doc.task.state \notin Terminal
  BY Refused
<1>3. DeniedResult(doc) \in Results /\ Denied(doc) \in TaskDocs
  BY <1>1, DeniedType
<1>4. BookSeen' = BookOf(Denied(doc))
  <2>1. Closed(Denied(doc)).evidence = Denied(doc).evidence
        /\ Closed(Denied(doc)).task = Denied(doc).task
        /\ Closed(Denied(doc)).baton = Denied(doc).baton
    BY <1>3, ClosedType, ClosedBaton
  <2>2. doc' = Closed(Denied(doc))
    BY DEF Enters, WillRefuse
  <2>. QED BY <2>1, <2>2, SeenAsBook DEF BookOf
<1>5. /\ Key(r) \in Keys /\ Ledger!Enter(Key(r))
      /\ LedgerSeen'[Key(r)] = [intent |-> NoIntent, result |-> DeniedResult(doc)]
  BY <1>2, <1>3, EntryEnters
<1>6. /\ BookSeen.task = doc.task /\ BookSeen' = Denied(BookSeen)
      /\ DeniedResult(BookSeen) = DeniedResult(doc)
  BY <1>1, <1>4, BookOther, SeenAsBook DEF BookOf
<1>7. Ledger!Refuse(Key(r))
  BY <1>2, <1>5, <1>6, SameData, SameEffects DEF Ledger!Refuse
<1>. QED BY <1>5, <1>7 DEF Ledger!Write

LEMMA DirectRecords ==
  ASSUME TypeOK, [Next]_vars, DirectWrites
  PROVE  Ledger!WriteDirectly
<1>1. /\ doc \in TaskDocs /\ BookSeen.task = doc.task /\ BookSeen.evidence = doc.evidence
  BY DEF TypeOK, StoreOK, TaskDocOK, BookSeen
<1>2. UNCHANGED LedgerSeen
  BY DirectBooks DEF LedgerSeen
<1>3. ASSUME NEW e \in DirectEvidence, AppendEvidence(e)
      PROVE  Ledger!WriteDirectly
  <2>1. BookSeen' = Appended(BookSeen, e)
    BY <1>1, <1>3, BookOther, SeenAsBook DEF AppendEvidence
  <2>2. Ledger!AppendEvidence(e) /\ e \in Ledger!Evidence
    BY <1>1, <1>2, <1>3, <2>1, SameData, SameEffects, DirectAssumption
       DEF AppendEvidence, Writable, Ledger!AppendEvidence
  <2>. QED BY <2>2 DEF Ledger!WriteDirectly
<1>4. ASSUME NEW k \in DirectBatons, SetBaton(k)
      PROVE  Ledger!WriteDirectly
  <2>1. BookSeen' = BatonSet(BookSeen, k)
    BY <1>1, <1>4, BookOther, SeenAsBook DEF SetBaton
  <2>2. Ledger!SetBaton(k) /\ k \in Keys \cup {NoKey}
    BY <1>1, <1>2, <1>4, <2>1, SameData, SameEffects, DirectAssumption
       DEF SetBaton, Writable, Ledger!SetBaton
  <2>. QED BY <2>2 DEF Ledger!WriteDirectly
<1>. QED BY <1>3, <1>4 DEF DirectWrites

LEMMA LedgerStep ==
  ASSUME TypeOK, OneEffect, [Next]_vars
  PROVE  [Ledger!LedgerNext]_Ledger!ledgerVars
<1>1. ASSUME NEW r \in Requests, Enters(r) PROVE Ledger!Write
  BY <1>1, ActionRecords, DenialRecords DEF Enters, WillWrite
<1>. QED BY <1>1, LedgerSteps, QuietStutters, DirectRecords DEF Ledger!LedgerNext

\* The Firestore store is the ledger that CycleLedger promises, as the memory store
\* is: claims, leases, takeovers, aborts, retries and crashes leave no other trace
\* than one entry per key, written in one step with its effect.
THEOREM ProtocolIsLedger == Spec => KeepsLedger
<1>1. Init => Ledger!LedgerInit
  <2>. SUFFICES ASSUME Init PROVE Ledger!LedgerInit
    OBVIOUS
  <2>1. BookSeen = [task |-> NewTask, evidence |-> {}, baton |-> NoKey]
    BY DEF Init, BookSeen, NewDoc
  <2>2. LedgerSeen = [k \in Keys |-> Ledger!NoEntry]
    BY SameData DEF Init, LedgerSeen, FinalizedKeys, Absent
  <2>. QED BY <2>1, <2>2, SameData DEF Ledger!LedgerInit
<1>2. TypeOK /\ OneEffect /\ [Next]_vars => [Ledger!LedgerNext]_Ledger!ledgerVars
  BY LedgerStep
<1>. QED BY <1>1, <1>2, Effects, PTL DEF Spec, KeepsLedger, Ledger!LedgerSpec
=============================================================================
