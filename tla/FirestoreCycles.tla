--------------------------- MODULE FirestoreCycles ---------------------------
(***************************************************************************)
(* FirestoreStateStore's cycle protocol for one task, with the service     *)
(* calls that drive it.  A request is one call of run_cycle_transaction: a *)
(* thread of some process, known to the others only by the documents it    *)
(* commits.  Every transaction callback (claim, bind, finalize, abort) and *)
(* every plain read is one atomic step; everything between two of them can *)
(* interleave with the other requests, fail, or be cut off by a crash.     *)
(*                                                                         *)
(* A request's name serves as its owner token: the code draws a fresh      *)
(* random token per call.  A cycle's canonical operation is represented by *)
(* the kind of call, since task and key are part of the document's name.   *)
(***************************************************************************)
EXTENDS TaskRules, Integers

CONSTANTS
  Requests, NoOwner,
  Calls,            \* the kinds of call, each with its cycle key, that are made
  DemoActor,        \* the worker the breaker acts as ("worker-1")
  Lease,            \* FIRESTORE_CLAIM_LEASE_SECONDS
  Offset,           \* a request's clock, relative to now
  MaxPolls,         \* the claim attempts after the first one
  MaxCycles,        \* MAX_FIRESTORE_CYCLES_PER_TASK
  MaxEvidence,      \* MAX_FIRESTORE_EVIDENCE
  DirectEvidence,   \* items that append_evidence is called with
  DirectBatons,     \* batons that set_baton is called with
  ForeignIds,       \* evidence ids that other tasks may take
  MaxVersion,       \* bound of the model: direct writes stop at this version
  MaxNow            \* bound of the model: time stops here

Kinds == {"normal", "breaker", "apply"}

ASSUME RequestsAssumption == NoOwner \notin Requests
ASSUME CallsAssumption == Calls \subseteq [kind : Kinds, key : Keys]
ASSUME DemoActorAssumption == DemoActor \in Actors
ASSUME ClockAssumption == Lease \in Nat \ {0} /\ Offset \in [Requests -> Int] /\ MaxNow \in Nat
ASSUME BoundsAssumption ==
  MaxPolls \in Nat /\ MaxCycles \in Nat /\ MaxEvidence \in Nat /\ MaxVersion \in Nat
ASSUME DirectAssumption ==
  /\ DirectEvidence \subseteq Evidence
  /\ DirectBatons \subseteq Keys \cup {NoKey}
  /\ ForeignIds \subseteq EvidenceIds

VARIABLES
  doc,       \* the task document
  cycle,     \* the cycle documents, one per key
  markers,   \* the evidence documents: absent, written by this task, or by another
  events,    \* telemetry: completion events emitted per cycle key
  now,       \* the time every clock is relative to
  pc,        \* where each request is
  call,      \* what it was asked for
  polls,     \* the waits of its claim so far
  held,      \* what its claim gave it: the task, and the intent bound before
  proposal,  \* the intent it came with, or had authorized
  pending,   \* what it will finalize
  reply      \* the result it returned

docs == <<doc, cycle, markers>>
locals == <<call, polls, held, proposal, pending, reply>>
vars == <<doc, cycle, markers, events, now, pc, locals>>

-----------------------------------------------------------------------------
(* Data *)

TaskDocs == [task : Tasks, evidence : SUBSET Evidence, baton : Keys \cup {NoKey},
             cycle_count : Nat, active_cycle : Keys \cup {NoKey}]

CycleDocs == [status : {"absent", "claimed", "finalized"},
              owner : Requests \cup {NoOwner},
              operation : Kinds \cup {"none"},
              intent : Intents \cup {NoIntent},
              expires_at : Int,
              result : Results \cup {NoResult}]

Absent == [status |-> "absent", owner |-> NoOwner, operation |-> "none",
           intent |-> NoIntent, expires_at |-> 0, result |-> NoResult]

\* What a claim hands to transact, and what an action hands to finalize.
Holdings == [task : Tasks, intent : Intents \cup {NoIntent}]
Pendings == [doc : TaskDocs, result : Results \cup {NoResult},
             intent : Intents \cup {NoIntent}]

NoCall == [kind |-> "none", key |-> NoKey]
NothingHeld == [task |-> NewTask, intent |-> NoIntent]

NewDoc == [task |-> NewTask, evidence |-> {}, baton |-> NoKey,
           cycle_count |-> 0, active_cycle |-> NoKey]
NothingPending == [doc |-> NewDoc, result |-> NoResult, intent |-> NoIntent]

-----------------------------------------------------------------------------
(* Where a request can be *)

Claimed == {"proposing", "binding", "executing", "failing", "finalizing", "aborting"}
Working == {"claiming", "confirming"} \cup Claimed
Answered == {"returned", "raised"}
Stopped == {"crashed", "abandoned"}   \* died, or raised without having aborted

Key(r) == call[r].key
Clock(r) == now + Offset[r]
Owns(r) == cycle[Key(r)].status = "claimed" /\ cycle[Key(r)].owner = r
ExpiredFor(r, k) == cycle[k].status = "claimed" /\ cycle[k].expires_at <= Clock(r)
LiveFor(r, k) == cycle[k].status = "claimed" /\ cycle[k].expires_at > Clock(r)

\* The intent a caller brings with it: only apply_cycle's callers do.
CallerIntent(r) == IF call[r].kind = "apply" THEN proposal[r] ELSE NoIntent

\* A request that goes no further keeps none of what it knew.
Forget(r) ==
  /\ polls' = [polls EXCEPT ![r] = 0]
  /\ held' = [held EXCEPT ![r] = NothingHeld]
  /\ proposal' = [proposal EXCEPT ![r] = NoIntent]
  /\ pending' = [pending EXCEPT ![r] = NothingPending]

Stop(r, where) ==
  /\ pc' = [pc EXCEPT ![r] = where]
  /\ call' = [call EXCEPT ![r] = NoCall]
  /\ Forget(r)
  /\ UNCHANGED reply

Return(r, result) ==
  /\ pc' = [pc EXCEPT ![r] = "returned"]
  /\ reply' = [reply EXCEPT ![r] = result]
  /\ Forget(r)
  /\ UNCHANGED call

\* An exception inside transact: what is left to do is to abort the claim.
GiveUp(r) ==
  /\ pc' = [pc EXCEPT ![r] = "aborting"]
  /\ Forget(r)
  /\ UNCHANGED <<call, reply>>

-----------------------------------------------------------------------------
Init ==
  /\ doc = NewDoc
  /\ cycle = [k \in Keys |-> Absent]
  /\ markers = [id \in EvidenceIds |-> "none"]
  /\ events = [k \in Keys |-> 0]
  /\ now = 0
  /\ pc = [r \in Requests |-> "idle"]
  /\ call = [r \in Requests |-> NoCall]
  /\ polls = [r \in Requests |-> 0]
  /\ held = [r \in Requests |-> NothingHeld]
  /\ proposal = [r \in Requests |-> NoIntent]
  /\ pending = [r \in Requests |-> NothingPending]
  /\ reply = [r \in Requests |-> NoResult]

\* run_cycle and trip_demo_breaker come with no intent; apply_cycle comes with
\* one, made for the version of the task its caller saw.
Begin(r) ==
  /\ pc[r] = "idle"
  /\ \E c \in Calls :
       /\ call' = [call EXCEPT ![r] = c]
       /\ IF c.kind = "apply"
          THEN \E a \in Actors, action \in Actions :
                 proposal' = [proposal EXCEPT ![r] =
                   [actor_id |-> a, action |-> action,
                    expected_version |-> doc.task.version]]
          ELSE UNCHANGED proposal
  /\ pc' = [pc EXCEPT ![r] = "claiming"]
  /\ UNCHANGED <<docs, events, now, polls, held, pending, reply>>

-----------------------------------------------------------------------------
(* The claim transaction *)

SameOperation(r) == cycle[Key(r)].operation = call[r].kind

IntentConflict(r) ==
  /\ CallerIntent(r) # NoIntent
  /\ cycle[Key(r)].intent # NoIntent
  /\ cycle[Key(r)].intent # CallerIntent(r)

\* Someone else's claim on this task, under another key, is still good.
TaskIsClaimed(r) == doc.active_cycle # NoKey /\ LiveFor(r, doc.active_cycle)

ClaimReplay(r) ==
  /\ pc[r] = "claiming"
  /\ cycle[Key(r)].status = "finalized"
  /\ SameOperation(r) /\ ~ IntentConflict(r)
  /\ Return(r, cycle[Key(r)].result)
  /\ UNCHANGED <<docs, events, now>>

ClaimRefused(r) ==
  /\ pc[r] = "claiming"
  /\ LET status == cycle[Key(r)].status IN
     \/ status # "absent" /\ ~ SameOperation(r)
     \/ (status = "finalized" \/ LiveFor(r, Key(r))) /\ IntentConflict(r)
     \/ status = "absent" /\ ~ TaskIsClaimed(r) /\ doc.cycle_count >= MaxCycles
  /\ Stop(r, "raised")
  /\ UNCHANGED <<docs, events, now>>

MustWait(r) ==
  \/ LiveFor(r, Key(r)) /\ SameOperation(r) /\ ~ IntentConflict(r)
  \/ cycle[Key(r)].status = "absent" /\ TaskIsClaimed(r)

\* Mutant: the wait is not counted.
WaitUncounted(r) ==
  /\ pc[r] = "claiming"
  /\ MustWait(r)
  /\ UNCHANGED vars

ClaimWait(r) ==
  /\ pc[r] = "claiming"
  /\ MustWait(r)
  /\ polls[r] < MaxPolls
  /\ polls' = [polls EXCEPT ![r] = polls[r] + 1]
  /\ UNCHANGED <<docs, events, now, pc, call, held, proposal, pending, reply>>

ClaimTimesOut(r) ==
  /\ pc[r] = "claiming"
  /\ MustWait(r)
  /\ polls[r] >= MaxPolls
  /\ Stop(r, "raised")
  /\ UNCHANGED <<docs, events, now>>

ClaimDoc(r, intent) ==
  [status |-> "claimed", owner |-> r, operation |-> call[r].kind, intent |-> intent,
   expires_at |-> Clock(r) + Lease, result |-> NoResult]

\* The request goes on with the task and the intent its claim found.  The
\* breaker makes up its intent from that task; a normal cycle asks for one.
HoldClaim(r, intent) ==
  /\ held' = [held EXCEPT ![r] = [task |-> doc.task, intent |-> intent]]
  /\ polls' = [polls EXCEPT ![r] = 0]
  /\ pc' = [pc EXCEPT ![r] = IF call[r].kind = "normal" THEN "proposing" ELSE "binding"]
  /\ proposal' = [proposal EXCEPT ![r] =
       IF call[r].kind = "breaker"
       THEN [actor_id |-> DemoActor, action |-> "record_progress",
             expected_version |-> doc.task.version]
       ELSE proposal[r]]
  /\ UNCHANGED <<markers, events, now, call, pending, reply>>

\* Mutant: the takeover starts over.
TakeoverForgets(r) == CallerIntent(r)

\* The intent bound by the owner before, if any, outlives its claim.
TakeoverIntent(r) ==
  IF cycle[Key(r)].intent # NoIntent THEN cycle[Key(r)].intent ELSE CallerIntent(r)

TakeOver(r) ==
  /\ pc[r] = "claiming"
  /\ ExpiredFor(r, Key(r)) /\ SameOperation(r)
  /\ cycle' = [cycle EXCEPT ![Key(r)] = ClaimDoc(r, TakeoverIntent(r))]
  /\ doc' = [doc EXCEPT !.active_cycle = Key(r)]

ClaimTakeover(r) == TakeOver(r) /\ HoldClaim(r, TakeoverIntent(r))

\* Mutant: the expired claim stays behind.
ClaimBesides(r) == [cycle EXCEPT ![Key(r)] = ClaimDoc(r, CallerIntent(r))]

\* The expired claim of another key is deleted, with whatever was bound to it.
CyclesAfterClaim(r) ==
  [k \in Keys |->
     IF k = Key(r) THEN ClaimDoc(r, CallerIntent(r))
     ELSE IF k = doc.active_cycle /\ cycle[k].status = "claimed" THEN Absent
     ELSE cycle[k]]

TakeFresh(r) ==
  /\ pc[r] = "claiming"
  /\ cycle[Key(r)].status = "absent"
  /\ ~ TaskIsClaimed(r)
  /\ doc.cycle_count < MaxCycles
  /\ cycle' = CyclesAfterClaim(r)
  /\ doc' = [doc EXCEPT !.active_cycle = Key(r)]

ClaimFresh(r) == TakeFresh(r) /\ HoldClaim(r, CallerIntent(r))

-----------------------------------------------------------------------------
(* transact: propose, bind, execute or fail, finalize *)

\* The coordinator proposes and the policy authorizes.
Propose(r, a, action) ==
  LET i == [actor_id |-> a, action |-> action, expected_version |-> held[r].task.version]
  IN  /\ pc[r] = "proposing"
      /\ Authorized(i, held[r].task)
      /\ proposal' = [proposal EXCEPT ![r] = i]
      /\ pc' = [pc EXCEPT ![r] = "binding"]
      /\ UNCHANGED <<docs, events, now, call, polls, held, pending, reply>>

\* The coordinator fails, or the policy denies what it proposed.
CoordinatorDenied(r) ==
  /\ pc[r] = "proposing"
  /\ pc' = [pc EXCEPT ![r] = "failing"]
  /\ UNCHANGED <<docs, events, now, locals>>

\* The intent the request acts on: the one found with the claim comes first.
Intended(r) == IF held[r].intent # NoIntent THEN held[r].intent ELSE proposal[r]

CanBind(r) == Owns(r) /\ cycle[Key(r)].intent \in {NoIntent, Intended(r)}

BindIntent(r) ==
  /\ pc[r] = "binding"
  /\ CanBind(r)
  /\ cycle' = [cycle EXCEPT ![Key(r)].intent = Intended(r)]

Bind(r) ==
  /\ BindIntent(r)
  /\ held' = [held EXCEPT ![r].intent = Intended(r)]
  /\ pc' = [pc EXCEPT ![r] = "executing"]
  /\ UNCHANGED <<doc, markers, events, now, call, polls, proposal, pending, reply>>

BindRefused(r) ==
  /\ pc[r] = "binding"
  /\ ~ CanBind(r)
  /\ GiveUp(r)
  /\ UNCHANGED <<docs, events, now>>

\* What the caller's execute can answer.  It reports under the actor of the
\* intent it came with, whichever intent the store acts on.
OutcomesFor(r) ==
  CASE call[r].kind = "normal"  -> {Progress(Key(r), proposal[r].actor_id)}
    [] call[r].kind = "breaker" -> {Failure}
    [] OTHER                    -> Outcomes

\* Mutant: the bound is checked before the last item counts.
FitsOneMore(d) == Cardinality(d.evidence) <= MaxEvidence + 1

\* _task_document: the evidence list is within its bound.
Fits(d) == Cardinality(d.evidence) <= MaxEvidence

\* The task document to write: the effect, the claim released, the cycle counted.
Closed(d) == [d EXCEPT !.active_cycle = NoKey, !.cycle_count = d.cycle_count + 1]

\* Read the task outside any transaction and apply the action to the copy.
Execute(r, o) ==
  /\ pc[r] = "executing"
  /\ o \in OutcomesFor(r)
  /\ Admits(doc.task, held[r].intent)
  /\ doc.cycle_count < MaxCycles
  /\ Fits(Applied(doc, held[r].intent, o))
  /\ pending' = [pending EXCEPT ![r] =
       [doc |-> Closed(Applied(doc, held[r].intent, o)),
        result |-> AppliedResult(doc, held[r].intent, o),
        intent |-> held[r].intent]]
  /\ held' = [held EXCEPT ![r] = NothingHeld]
  /\ proposal' = [proposal EXCEPT ![r] = NoIntent]
  /\ pc' = [pc EXCEPT ![r] = "finalizing"]
  /\ UNCHANGED <<docs, events, now, call, polls, reply>>

ExecuteRefused(r, o) ==
  /\ pc[r] = "executing"
  /\ o \in OutcomesFor(r)
  /\ \/ ~ Admits(doc.task, held[r].intent)
     \/ doc.cycle_count >= MaxCycles
     \/ ~ Fits(Applied(doc, held[r].intent, o))
  /\ GiveUp(r)
  /\ UNCHANGED <<docs, events, now>>

\* Mutant: fail_cycle does not look at the task's state.
CanFailAnyState(r) ==
  doc.task.version = held[r].task.version /\ doc.cycle_count < MaxCycles

\* fail_cycle: the same, with the cycle's failure as its effect and no intent.
CanFail(r) ==
  /\ doc.task.version = held[r].task.version
  /\ doc.task.state \notin Terminal
  /\ doc.cycle_count < MaxCycles

Fail(r) ==
  /\ pc[r] = "failing"
  /\ CanFail(r)
  /\ pending' = [pending EXCEPT ![r] =
       [doc |-> Closed(Denied(doc)), result |-> DeniedResult(doc), intent |-> NoIntent]]
  /\ held' = [held EXCEPT ![r] = NothingHeld]
  /\ pc' = [pc EXCEPT ![r] = "finalizing"]
  /\ UNCHANGED <<docs, events, now, call, polls, proposal, reply>>

FailRefused(r) ==
  /\ pc[r] = "failing"
  /\ ~ CanFail(r)
  /\ GiveUp(r)
  /\ UNCHANGED <<docs, events, now>>

\* Mutants: a finalize that is not fenced by its claim, and one that does not
\* look for evidence ids already taken.
FinalizeUnfenced(r) ==
  /\ LET v == pending[r].result.task.version IN doc.task.version \in {v, v - 1}
  /\ \A e \in pending[r].result.evidence : markers[e.id] = "none"

FinalizeUnmarked(r) ==
  /\ Owns(r)
  /\ LiveFor(r, Key(r))
  /\ LET v == pending[r].result.task.version IN doc.task.version \in {v, v - 1}

CanFinalize(r) ==
  /\ Owns(r)
  /\ LiveFor(r, Key(r))
  /\ LET v == pending[r].result.task.version IN doc.task.version \in {v, v - 1}
  /\ \A e \in pending[r].result.evidence : markers[e.id] = "none"

FinalizedDoc(r) ==
  [cycle[Key(r)] EXCEPT !.status = "finalized", !.owner = NoOwner,
                        !.intent = pending[r].intent, !.result = pending[r].result]

Commit(r) ==
  /\ pc[r] = "finalizing"
  /\ CanFinalize(r)
  /\ doc' = pending[r].doc
  /\ markers' = [id \in EvidenceIds |->
       IF id \in IdsOf(pending[r].result.evidence) THEN "ours" ELSE markers[id]]
  /\ cycle' = [cycle EXCEPT ![Key(r)] = FinalizedDoc(r)]

Finalize(r) ==
  /\ Commit(r)
  /\ pc' = [pc EXCEPT ![r] = "confirming"]
  /\ UNCHANGED <<events, now, locals>>

FinalizeRefused(r) ==
  /\ pc[r] = "finalizing"
  /\ ~ CanFinalize(r)
  /\ GiveUp(r)
  /\ UNCHANGED <<docs, events, now>>

\* The service emits its event, then the store re-reads what it persisted.
Persisted(r) ==
  /\ cycle[Key(r)].status = "finalized"
  /\ SameOperation(r)
  /\ cycle[Key(r)].result = pending[r].result

EventsAfter(r) ==
  IF call[r].kind # "apply" /\ pending[r].intent # NoIntent
  THEN [events EXCEPT ![Key(r)] = events[Key(r)] + 1]
  ELSE events

Confirm(r) ==
  /\ pc[r] = "confirming"
  /\ events' = EventsAfter(r)
  /\ IF Persisted(r) THEN Return(r, pending[r].result) ELSE Stop(r, "raised")
  /\ UNCHANGED <<docs, now>>

\* Mutants: an abort that takes any document for its claim, and one that keeps
\* a claim once an intent is bound to it.
ReleaseAnything(r) ==
  /\ cycle' = [cycle EXCEPT ![Key(r)] = Absent]
  /\ doc' = IF doc.active_cycle = Key(r) THEN [doc EXCEPT !.active_cycle = NoKey] ELSE doc

ReleaseUnbound(r) ==
  IF cycle[Key(r)].owner = r /\ cycle[Key(r)].intent = NoIntent
  THEN ReleaseAnything(r) ELSE UNCHANGED <<cycle, doc>>

\* _abort_claim: only the claim's own owner deletes it and frees the task.
ReleaseClaim(r) ==
  IF cycle[Key(r)].owner = r
  THEN /\ cycle' = [cycle EXCEPT ![Key(r)] = Absent]
       /\ doc' = IF doc.active_cycle = Key(r)
                 THEN [doc EXCEPT !.active_cycle = NoKey] ELSE doc
  ELSE UNCHANGED <<cycle, doc>>

Abort(r) ==
  /\ pc[r] = "aborting"
  /\ ReleaseClaim(r)
  /\ Stop(r, "raised")
  /\ UNCHANGED <<markers, events, now>>

-----------------------------------------------------------------------------
(* Faults *)

\* A transaction is applied but its acknowledgement is lost, and the call goes on
\* as if it had failed.  A claim lost like this is nobody's to abort: the request
\* never entered transact.
ClaimAckLost(r) ==
  /\ TakeOver(r) \/ TakeFresh(r)
  /\ Stop(r, "abandoned")
  /\ UNCHANGED <<markers, events, now>>

BindAckLost(r) ==
  /\ BindIntent(r)
  /\ GiveUp(r)
  /\ UNCHANGED <<doc, markers, events, now>>

FinalizeAckLost(r) ==
  /\ Commit(r)
  /\ GiveUp(r)
  /\ UNCHANGED <<events, now>>

\* The abort fails too; the exception that led to it is raised all the same.
AbortFails(r) ==
  /\ pc[r] = "aborting"
  /\ Stop(r, "abandoned")
  /\ UNCHANGED <<docs, events, now>>

\* The process dies.
Crash(r) ==
  /\ pc[r] \in Working
  /\ Stop(r, "crashed")
  /\ UNCHANGED <<docs, events, now>>

\* A read or a transaction raises without any effect: while the request holds
\* a claim it goes on to abort, before that it just raises.
StoreError(r) ==
  /\ \/ pc[r] = "claiming" /\ Stop(r, "raised")
     \/ pc[r] \in {"binding", "executing", "failing", "finalizing"} /\ GiveUp(r)
  /\ UNCHANGED <<docs, events, now>>

\* The re-read raises: the cycle is finalized and the event emitted, and the
\* caller gets an exception.
ConfirmError(r) ==
  /\ pc[r] = "confirming"
  /\ events' = EventsAfter(r)
  /\ Stop(r, "raised")
  /\ UNCHANGED <<docs, now>>

-----------------------------------------------------------------------------
(* The environment: time, direct writers of this task, other tasks *)

Tick ==
  /\ now < MaxNow
  /\ now' = now + 1
  /\ UNCHANGED <<docs, events, pc, locals>>

\* Mutant: direct writes do not mind an active cycle.
WritableInCycle == doc.task.state \notin Terminal /\ doc.task.version < MaxVersion

\* _mutate_task: a direct write is refused while a cycle is active.
Writable ==
  /\ doc.active_cycle = NoKey
  /\ doc.task.state \notin Terminal
  /\ doc.task.version < MaxVersion

\* Mutant: an append without its marker.
AppendUnmarked(e) ==
  /\ Writable
  /\ e.id \notin IdsOf(doc.evidence)
  /\ markers[e.id] = "none"
  /\ Fits(Appended(doc, e))
  /\ doc' = Appended(doc, e)
  /\ UNCHANGED <<markers, cycle, events, now, pc, locals>>

AppendEvidence(e) ==
  /\ Writable
  /\ e.id \notin IdsOf(doc.evidence)
  /\ markers[e.id] = "none"
  /\ Fits(Appended(doc, e))
  /\ doc' = Appended(doc, e)
  /\ markers' = [markers EXCEPT ![e.id] = "ours"]
  /\ UNCHANGED <<cycle, events, now, pc, locals>>

SetBaton(k) ==
  /\ Writable
  /\ doc' = BatonSet(doc, k)
  /\ UNCHANGED <<cycle, markers, events, now, pc, locals>>

OtherTaskEvidence(id) ==
  /\ markers[id] = "none"
  /\ markers' = [markers EXCEPT ![id] = "theirs"]
  /\ UNCHANGED <<doc, cycle, events, now, pc, locals>>

-----------------------------------------------------------------------------
Claim(r) ==
  \/ ClaimReplay(r) \/ ClaimRefused(r) \/ ClaimWait(r) \/ ClaimTimesOut(r)
  \/ ClaimTakeover(r) \/ ClaimFresh(r)

Transact(r) ==
  \/ \E a \in Actors, action \in Actions : Propose(r, a, action)
  \/ CoordinatorDenied(r)
  \/ Bind(r) \/ BindRefused(r)
  \/ \E o \in Outcomes : Execute(r, o) \/ ExecuteRefused(r, o)
  \/ Fail(r) \/ FailRefused(r)
  \/ Finalize(r) \/ FinalizeRefused(r)
  \/ Confirm(r) \/ Abort(r)

Fault(r) ==
  \/ ClaimAckLost(r) \/ BindAckLost(r) \/ FinalizeAckLost(r)
  \/ AbortFails(r) \/ Crash(r) \/ StoreError(r) \/ ConfirmError(r)

Environment ==
  \/ Tick
  \/ \E e \in DirectEvidence : AppendEvidence(e)
  \/ \E k \in DirectBatons : SetBaton(k)
  \/ \E id \in ForeignIds : OtherTaskEvidence(id)

Next ==
  \/ \E r \in Requests : Begin(r) \/ Claim(r) \/ Transact(r) \/ Fault(r)
  \/ Environment

Spec == Init /\ [][Next]_vars

\* A call that was made runs on by itself: nothing it does waits for another
\* request, and a thread that is neither killed nor hung takes its next step.
Fairness == \A r \in Requests : WF_vars(Claim(r) \/ Transact(r))
FairSpec == Spec /\ Fairness

-----------------------------------------------------------------------------
(* Properties *)

\* A document that fits its bounds (_task_document, _task_backing).
TaskDocOK(d) ==
  /\ d \in TaskDocs
  /\ d.cycle_count <= MaxCycles
  /\ Cardinality(d.evidence) <= MaxEvidence

\* Only a claimed cycle has an owner, and only a finalized one has a result.
CycleDocOK(c) ==
  /\ c \in CycleDocs
  /\ c.status = "claimed" <=> c.owner # NoOwner
  /\ c.status = "finalized" <=> c.result # NoResult

\* What a request holds where it is.
LocalsOK(r) ==
  /\ pc[r] \in Working \cup {"returned"} => call[r] \in Calls
  /\ pc[r] = "claiming" /\ call[r].kind = "apply" => proposal[r] \in Intents
  /\ pc[r] \in {"binding", "executing"} => proposal[r] \in Intents
  /\ pc[r] = "executing" => held[r].intent \in Intents
  /\ TaskDocOK(pending[r].doc)
  /\ pc[r] \in {"finalizing", "confirming"} =>
       pending[r].result \in Results /\ pending[r].doc.active_cycle = NoKey

StoreOK ==
  /\ TaskDocOK(doc)
  /\ cycle \in [Keys -> CycleDocs] /\ \A k \in Keys : CycleDocOK(cycle[k])
  /\ markers \in [EvidenceIds -> {"none", "ours", "theirs"}]
  /\ events \in [Keys -> Nat]
  /\ now \in 0..MaxNow

RequestsOK ==
  /\ pc \in [Requests -> {"idle"} \cup Working \cup Answered \cup Stopped]
  /\ call \in [Requests -> Calls \cup {NoCall}]
  /\ polls \in [Requests -> 0..MaxPolls]
  /\ held \in [Requests -> Holdings]
  /\ proposal \in [Requests -> Intents \cup {NoIntent}]
  /\ pending \in [Requests -> Pendings]
  /\ reply \in [Requests -> Results \cup {NoResult}]
  /\ \A r \in Requests : LocalsOK(r)

\* Every document keeps its shape and its bounds, and every request holds what
\* its place in the code needs: no step of it meets a None it does not expect.
TypeOK == StoreOK /\ RequestsOK

\* The task document and the cycle documents agree on who is at work: a cycle is
\* claimed exactly when it is the task's active cycle, so there is at most one.
ClaimIsActive ==
  \A k \in Keys : cycle[k].status = "claimed" <=> doc.active_cycle = k

\* What an owner is about to write was computed from the document it overwrites,
\* although it was read in another transaction: nothing written since is lost.
FreshSnapshot ==
  \A r \in Requests : pc[r] = "finalizing" /\ Owns(r) =>
    LET p == pending[r] IN
    /\ p.doc.task = p.result.task
    /\ p.doc.task.version = doc.task.version + 1
    /\ p.doc.cycle_count = doc.cycle_count + 1
    /\ p.doc.evidence = doc.evidence \cup p.result.evidence
    /\ p.intent \in {NoIntent, cycle[Key(r)].intent}

\* A claim is only left behind by a request that died, that could not abort, or
\* that never heard of it.
NoLeakedClaim ==
  \A k \in Keys : cycle[k].status = "claimed" =>
    \/ pc[cycle[k].owner] \in Stopped
    \/ pc[cycle[k].owner] \in Claimed /\ Key(cycle[k].owner) = k

\* Whoever gets a result under a key gets the one that is recorded there: all
\* callers of one key, first and retried, hear the same.
RepliesAgree ==
  \A r \in Requests : pc[r] = "returned" =>
    /\ cycle[Key(r)].status = "finalized"
    /\ cycle[Key(r)].operation = call[r].kind
    /\ reply[r] = cycle[Key(r)].result

FinalizedKeys == {k \in Keys : cycle[k].status = "finalized"}
ActedKeys == {k \in FinalizedKeys : cycle[k].intent # NoIntent}

\* The task's counters add up to the finalized cycles: no effect without a
\* record, no record without its effect, none applied twice.
LedgerAccounts ==
  /\ doc.cycle_count = Cardinality(FinalizedKeys)
  /\ doc.task.tool_actions = Cardinality(ActedKeys)
  /\ doc.task.failed_actions =
       Cardinality({k \in FinalizedKeys : cycle[k].result.failure_code = "failed"})

\* A cycle is reported at most once, and only when its action was recorded.
TelemetryOnce ==
  \A k \in Keys :
    /\ events[k] <= 1
    /\ events[k] = 1 => cycle[k].status = "finalized" /\ cycle[k].intent # NoIntent

\* The evidence list and the evidence markers are written together.
EvidenceIndexed ==
  /\ IdsOf(doc.evidence) = {id \in EvidenceIds : markers[id] = "ours"}
  /\ DistinctIds(doc.evidence)

\* No task is charged beyond its budget, and one failed action parks it.
BudgetHeld ==
  /\ doc.task.tool_actions <= ToolBudget
  /\ doc.task.failed_actions <= 1
  /\ doc.task.failed_actions = 1 => doc.task.state = "NEEDS_OPERATOR"

\* A task that passed was worked on in one finalized cycle and verified in
\* another, with evidence from a registered verifier other than its worker.
PassIsVerified ==
  doc.task.state = "PASSED" =>
    \E work, check \in ActedKeys :
      LET worker == cycle[work].intent.actor_id
          verifier == cycle[check].intent.actor_id
      IN  /\ worker = doc.task.worker_actor_id
          /\ worker # verifier
          /\ Role[worker] = "worker" /\ Role[verifier] = "verifier"
          /\ \E e \in doc.evidence : e.actor_id = verifier /\ e.kind = "verification"

\* A finalized cycle never changes and is never deleted.
FinalizedForever ==
  [][\A k \in Keys : cycle[k].status = "finalized" => cycle'[k] = cycle[k]]_vars

\* A takeover goes on with the intent its predecessor bound.
BoundIntentKept ==
  [][\A k \in Keys :
       cycle[k].status = "claimed" /\ cycle[k].intent # NoIntent
       /\ cycle'[k].status = "claimed" => cycle'[k].intent = cycle[k].intent]_vars

\* An evidence id, once taken by a task, stays that task's.
MarkersKept ==
  [][\A id \in EvidenceIds : markers[id] # "none" => markers'[id] = markers[id]]_vars

\* A task that passed or failed stays as it is.
TerminalFrozen ==
  [][doc.task.state \in Terminal =>
       /\ doc'.task = doc.task
       /\ doc'.evidence = doc.evidence
       /\ doc'.baton = doc.baton]_vars

\* No write of the whole task document takes back what another write did:
\* evidence is only added, and the version tells every change.
NothingLost ==
  [][/\ doc.evidence \subseteq doc'.evidence
     /\ doc'.task # doc.task => doc'.task.version = doc.task.version + 1
     /\ doc'.evidence # doc.evidence => doc'.task # doc.task]_vars

\* The claims that carry a bound intent are finalized with that intent
\* (architecture.md: "a crashed worker's bound intent is replayed").
BoundIntentReplayed ==
  [][\A k \in Keys :
       cycle[k].status = "claimed" /\ cycle[k].intent # NoIntent
       /\ cycle'[k].status = "finalized" => cycle'[k].intent = cycle[k].intent]_vars

\* The evidence of a service cycle names the actor of the intent it records.
EvidenceNamesActor ==
  \A k \in FinalizedKeys : cycle[k].operation = "normal" =>
    \A e \in cycle[k].result.evidence : e.actor_id = cycle[k].intent.actor_id

\* Every call comes to an end, whatever the others do: with an answer, with an
\* exception, or with its process.
EveryCallAnswers ==
  \A r \in Requests : pc[r] = "claiming" ~> pc[r] \in Answered \cup Stopped

\* An owner that lives on gives its claim up, by finalizing or by aborting.
ClaimsReleased ==
  \A r \in Requests, k \in Keys :
    cycle[k].status = "claimed" /\ cycle[k].owner = r
      ~> cycle[k].owner # r \/ pc[r] \in Stopped

-----------------------------------------------------------------------------
(* The ledger this protocol keeps *)

BookSeen == [task |-> doc.task, evidence |-> doc.evidence, baton |-> doc.baton]
LedgerSeen ==
  [k \in Keys |->
     IF k \in FinalizedKeys
     THEN [intent |-> cycle[k].intent, result |-> cycle[k].result]
     ELSE [intent |-> NoIntent, result |-> NoResult]]

Ledger == INSTANCE CycleLedger WITH book <- BookSeen, ledger <- LedgerSeen

\* Claims, leases, takeovers, aborts and crashes are invisible: seen through its
\* finalized cycles, the store is a ledger written once per key.
KeepsLedger == Ledger!LedgerSpec
=============================================================================
