------------------------ MODULE FirestoreCyclesProofs ------------------------
(***************************************************************************)
(* Theorems about FirestoreCycles, for every number of requests, keys,     *)
(* actors and calls, every lease and every clock.                          *)
(***************************************************************************)
EXTENDS FirestoreCycles, FiniteSetTheorems, TLAPS

(* Lemmas about the rules of a task. *)

\* An action changes the task, evidence and baton of a document and nothing else.
LEMMA AppliedType ==
  ASSUME NEW d \in TaskDocs, NEW i \in Intents, NEW o \in CycleOutcomes
  PROVE  /\ Applied(d, i, o) \in TaskDocs
         /\ Applied(d, i, o).active_cycle = d.active_cycle
         /\ Applied(d, i, o).cycle_count = d.cycle_count
         /\ AppliedResult(d, i, o) \in Results
<1>1. d.task \in Tasks /\ d.evidence \in SUBSET Evidence /\ d.baton \in Keys \cup {NoKey}
  BY DEF TaskDocs
<1>2. Admitted(d.task, i) \in Tasks
  <2>. DEFINE t == d.task
              state == IF t.state = "QUEUED" THEN "RUNNING" ELSE t.state
              worker == IF Role[i.actor_id] = "worker" /\ t.worker_actor_id = NoActor
                        THEN i.actor_id ELSE t.worker_actor_id
  <2>1. /\ state \in TaskStates /\ worker \in Actors \cup {NoActor}
        /\ t.version + 1 \in Nat /\ t.tool_actions + 1 \in Nat
    BY <1>1 DEF Tasks, TaskStates, Intents
  <2>2. Admitted(t, i) = [t EXCEPT !.state = state, !.version = t.version + 1,
                                   !.tool_actions = t.tool_actions + 1,
                                   !.worker_actor_id = worker]
    BY DEF Admitted
  <2>. HIDE DEF state, worker
  <2>. QED BY <1>1, <2>1, <2>2 DEF Tasks
<1>3. TaskAfter(d, i, o) \in Tasks
  <2>. DEFINE t == Admitted(d.task, i)
  <2>1. t.failed_actions + 1 \in Nat /\ o.target \in TaskStates
    BY <1>2 DEF Tasks, CycleOutcomes
  <2>2. [t EXCEPT !.state = o.target] \in Tasks
    BY <1>2, <2>1 DEF Tasks
  <2>3. [t EXCEPT !.state = "NEEDS_OPERATOR", !.failed_actions = t.failed_actions + 1] \in Tasks
    BY <1>2, <2>1 DEF Tasks, TaskStates
  <2>. QED BY <2>2, <2>3 DEF TaskAfter
<1>4. EvidenceFrom(d, i, o) \in SUBSET Evidence
  BY DEF EvidenceFrom, CycleOutcomes
<1>5. AppliedResult(d, i, o) \in Results
  BY <1>3, <1>4 DEF AppliedResult, Results
<1>6. /\ Applied(d, i, o) \in TaskDocs
      /\ Applied(d, i, o).active_cycle = d.active_cycle
      /\ Applied(d, i, o).cycle_count = d.cycle_count
  BY <1>1, <1>3, <1>4 DEF Applied, TaskDocs, CycleOutcomes
<1>. QED BY <1>5, <1>6

\* So does a denial.
LEMMA DeniedType ==
  ASSUME NEW d \in TaskDocs
  PROVE  /\ Denied(d) \in TaskDocs
         /\ Denied(d).active_cycle = d.active_cycle
         /\ Denied(d).cycle_count = d.cycle_count
         /\ Denied(d).evidence = d.evidence
         /\ DeniedResult(d) \in Results
<1>1. d.task \in Tasks
  BY DEF TaskDocs
<1>2. TaskDenied(d.task) \in Tasks
  <2>1. d.task.version + 1 \in Nat
    BY <1>1 DEF Tasks
  <2>. QED BY <1>1, <2>1 DEF TaskDenied, Tasks, TaskStates
<1>. QED BY <1>2 DEF Denied, DeniedResult, TaskDocs, Results

\* And a direct write.
LEMMA AppendedType ==
  ASSUME NEW d \in TaskDocs, NEW e \in Evidence
  PROVE  /\ Appended(d, e) \in TaskDocs
         /\ Appended(d, e).active_cycle = d.active_cycle
         /\ Appended(d, e).cycle_count = d.cycle_count
         /\ Appended(d, e).evidence = d.evidence \cup {e}
<1>1. d.task \in Tasks /\ d.evidence \in SUBSET Evidence
  BY DEF TaskDocs
<1>2. [d.task EXCEPT !.version = d.task.version + 1] \in Tasks
  BY <1>1 DEF Tasks
<1>. QED BY <1>1, <1>2 DEF Appended, TaskDocs

LEMMA BatonSetType ==
  ASSUME NEW d \in TaskDocs, NEW k \in Keys \cup {NoKey}
  PROVE  /\ BatonSet(d, k) \in TaskDocs
         /\ BatonSet(d, k).active_cycle = d.active_cycle
         /\ BatonSet(d, k).cycle_count = d.cycle_count
         /\ BatonSet(d, k).evidence = d.evidence
<1>1. d.task \in Tasks
  BY DEF TaskDocs
<1>2. [d.task EXCEPT !.version = d.task.version + 1] \in Tasks
  BY <1>1 DEF Tasks
<1>. QED BY <1>1, <1>2 DEF BatonSet, TaskDocs

\* Closing a document releases its claim and counts one cycle.
LEMMA ClosedType ==
  ASSUME NEW d \in TaskDocs
  PROVE  /\ Closed(d) \in TaskDocs
         /\ Closed(d).active_cycle = NoKey
         /\ Closed(d).cycle_count = d.cycle_count + 1
         /\ Closed(d).evidence = d.evidence
         /\ Closed(d).task = d.task
<1>1. d.cycle_count + 1 \in Nat
  BY DEF TaskDocs
<1>2. NoKey \in Keys \cup {NoKey}
  OBVIOUS
<1>. QED BY <1>1, <1>2 DEF Closed, TaskDocs

-----------------------------------------------------------------------------
(* Type correctness *)

LEMMA NothingType ==
  /\ NewTask \in Tasks
  /\ TaskDocOK(NewDoc)
  /\ NothingHeld \in Holdings
  /\ NothingPending \in Pendings
  /\ Absent \in CycleDocs /\ CycleDocOK(Absent)
<1>1. NewTask \in Tasks
  BY DEF NewTask, Tasks, TaskStates
<1>2. NewDoc \in TaskDocs
  BY <1>1 DEF NewDoc, TaskDocs
<1>3. TaskDocOK(NewDoc)
  BY <1>2, FS_EmptySet, BoundsAssumption DEF NewDoc, TaskDocOK
<1>4. Absent \in CycleDocs /\ CycleDocOK(Absent)
  BY RequestsAssumption DEF Absent, CycleDocs, CycleDocOK
<1>. QED BY <1>1, <1>2, <1>3, <1>4 DEF NothingHeld, Holdings, NothingPending, Pendings

\* A request that forgets what it held stays well-formed wherever it ends.
LEMMA ForgetType ==
  ASSUME RequestsOK, NEW r \in Requests, Forget(r),
         NEW where \in {"aborting"} \cup Answered \cup Stopped,
         pc' = [pc EXCEPT ![r] = where],
         call' \in [Requests -> Calls \cup {NoCall}],
         \A s \in Requests \ {r} : call'[s] = call[s],
         where \in {"aborting", "returned"} => call'[r] \in Calls,
         reply' \in [Requests -> Results \cup {NoResult}]
  PROVE  RequestsOK'
<1>1. pc' \in [Requests -> {"idle"} \cup Working \cup Answered \cup Stopped]
  BY DEF RequestsOK, Working, Claimed
<1>2. polls' \in [Requests -> 0..MaxPolls]
  BY BoundsAssumption DEF RequestsOK, Forget
<1>3. /\ held' \in [Requests -> Holdings]
      /\ proposal' \in [Requests -> Intents \cup {NoIntent}]
      /\ pending' \in [Requests -> Pendings]
  BY NothingType DEF RequestsOK, Forget
<1>4. ASSUME NEW s \in Requests PROVE LocalsOK(s)'
  <2>1. CASE s = r
    <3>1. pc'[s] = where /\ pending'[s] = NothingPending
      BY <2>1 DEF RequestsOK, Forget
    <3>2. TaskDocOK(pending'[s].doc)
      BY <3>1, NothingType DEF NothingPending
    <3>. QED BY <2>1, <3>1, <3>2 DEF LocalsOK, Working, Claimed, Answered, Stopped, TaskDocOK
  <2>2. CASE s # r
    <3>1. /\ pc'[s] = pc[s] /\ call'[s] = call[s] /\ held'[s] = held[s]
          /\ proposal'[s] = proposal[s] /\ pending'[s] = pending[s]
      BY <2>2 DEF RequestsOK, Forget
    <3>. QED BY <3>1 DEF RequestsOK, LocalsOK, TaskDocOK
  <2>. QED BY <2>1, <2>2
<1>. QED BY <1>1, <1>2, <1>3, <1>4 DEF RequestsOK

LEMMA StopType ==
  ASSUME RequestsOK, NEW r \in Requests, NEW where \in {"raised"} \cup Stopped, Stop(r, where)
  PROVE  RequestsOK'
<1>1. call' \in [Requests -> Calls \cup {NoCall}] /\ \A s \in Requests \ {r} : call'[s] = call[s]
  BY DEF RequestsOK, Stop
<1>2. where \in {"aborting"} \cup Answered \cup Stopped /\ where \notin {"aborting", "returned"}
  BY DEF Answered, Stopped
<1>. QED BY <1>1, <1>2, ForgetType DEF Stop, RequestsOK

LEMMA ReturnType ==
  ASSUME RequestsOK, NEW r \in Requests, pc[r] \in Working,
         NEW result \in Results \cup {NoResult}, Return(r, result)
  PROVE  RequestsOK'
<1>1. call[r] \in Calls
  BY DEF RequestsOK, LocalsOK
<1>2. reply' \in [Requests -> Results \cup {NoResult}]
  BY DEF RequestsOK, Return
<1>3. "returned" \in {"aborting"} \cup Answered \cup Stopped
  BY DEF Answered
<1>. QED BY <1>1, <1>2, <1>3, ForgetType DEF Return, RequestsOK

LEMMA GiveUpType ==
  ASSUME RequestsOK, NEW r \in Requests, pc[r] \in Working, GiveUp(r)
  PROVE  RequestsOK'
<1>1. call[r] \in Calls
  BY DEF RequestsOK, LocalsOK
<1>. QED BY <1>1, ForgetType DEF GiveUp, RequestsOK

\* A request at work knows which key it works on.
LEMMA WorkingCall ==
  ASSUME RequestsOK, NEW r \in Requests, pc[r] \in Working \cup {"returned"}
  PROVE  call[r] \in Calls /\ Key(r) \in Keys /\ call[r].kind \in Kinds
<1>1. call[r] \in Calls
  BY DEF RequestsOK, LocalsOK
<1>. QED BY <1>1, CallsAssumption DEF Key

LEMMA ClockType ==
  ASSUME StoreOK, NEW r \in Requests
  PROVE  Clock(r) \in Int /\ Clock(r) + Lease \in Int
BY ClockAssumption DEF StoreOK, Clock

LEMMA StoreSame ==
  ASSUME StoreOK, UNCHANGED <<docs, events, now>>
  PROVE  StoreOK'
BY DEF StoreOK, docs, TaskDocOK, CycleDocOK

\* Any request that moves on alone, and holds what its new place needs.
LEMMA RequestMoves ==
  ASSUME RequestsOK, NEW r \in Requests,
         \A s \in Requests \ {r} :
           /\ pc'[s] = pc[s] /\ call'[s] = call[s] /\ held'[s] = held[s]
           /\ proposal'[s] = proposal[s] /\ pending'[s] = pending[s],
         pc' \in [Requests -> {"idle"} \cup Working \cup Answered \cup Stopped],
         call' \in [Requests -> Calls \cup {NoCall}],
         polls' \in [Requests -> 0..MaxPolls],
         held' \in [Requests -> Holdings],
         proposal' \in [Requests -> Intents \cup {NoIntent}],
         pending' \in [Requests -> Pendings],
         reply' = reply,
         LocalsOK(r)'
  PROVE  RequestsOK'
<1>1. ASSUME NEW s \in Requests \ {r} PROVE LocalsOK(s)'
  BY <1>1 DEF RequestsOK, LocalsOK, TaskDocOK
<1>. QED BY <1>1 DEF RequestsOK

LEMMA BeginType ==
  ASSUME TypeOK, NEW r \in Requests, Begin(r)
  PROVE  TypeOK'
<1>1. StoreOK'
  BY StoreSame DEF TypeOK, Begin
<1>2. PICK c \in Calls :
        /\ call' = [call EXCEPT ![r] = c]
        /\ IF c.kind = "apply"
           THEN \E a \in Actors, action \in Actions :
                  proposal' = [proposal EXCEPT ![r] =
                    [actor_id |-> a, action |-> action,
                     expected_version |-> doc.task.version]]
           ELSE UNCHANGED proposal
  BY DEF Begin
<1>3. doc.task.version \in Nat
  BY DEF TypeOK, StoreOK, TaskDocOK, TaskDocs, Tasks
<1>4. \A a \in Actors, action \in Actions :
        [actor_id |-> a, action |-> action, expected_version |-> doc.task.version] \in Intents
  BY <1>3 DEF Intents
<1>5. /\ proposal' \in [Requests -> Intents \cup {NoIntent}]
      /\ c.kind = "apply" => proposal'[r] \in Intents
      /\ \A s \in Requests \ {r} : proposal'[s] = proposal[s]
  BY <1>2, <1>4 DEF TypeOK, RequestsOK
<1>6. pc' \in [Requests -> {"idle"} \cup Working \cup Answered \cup Stopped]
      /\ pc'[r] = "claiming" /\ call'[r] = c /\ pending'[r] = pending[r]
  BY <1>2 DEF Begin, TypeOK, RequestsOK, Working
<1>7. LocalsOK(r)'
  BY <1>5, <1>6 DEF LocalsOK, TypeOK, RequestsOK, TaskDocOK
<1>8. RequestsOK'
  BY <1>2, <1>5, <1>6, <1>7, RequestMoves DEF Begin, TypeOK, RequestsOK
<1>. QED BY <1>1, <1>8 DEF TypeOK

\* A claim document is well-formed, and so is the request that goes on with it.
LEMMA ClaimDocType ==
  ASSUME TypeOK, NEW r \in Requests, pc[r] = "claiming",
         NEW intent \in Intents \cup {NoIntent}
  PROVE  ClaimDoc(r, intent) \in CycleDocs /\ CycleDocOK(ClaimDoc(r, intent))
<1>1. call[r].kind \in Kinds
  BY WorkingCall DEF TypeOK, Working
<1>2. Clock(r) + Lease \in Int
  BY ClockType DEF TypeOK
<1>. QED BY <1>1, <1>2, RequestsAssumption DEF ClaimDoc, CycleDocs, CycleDocOK

LEMMA HoldClaimType ==
  ASSUME TypeOK, NEW r \in Requests, pc[r] = "claiming",
         NEW intent \in Intents \cup {NoIntent}, HoldClaim(r, intent)
  PROVE  RequestsOK' /\ UNCHANGED <<markers, events, now>>
<1>. USE DEF TypeOK
<1>1. call[r] \in Calls /\ Key(r) \in Keys /\ call[r].kind \in Kinds
  BY WorkingCall DEF Working
<1>3. doc.task \in Tasks /\ doc.task.version \in Nat
  BY DEF StoreOK, TaskDocOK, TaskDocs, Tasks
<1>4. held' \in [Requests -> Holdings]
  BY <1>3 DEF HoldClaim, RequestsOK, Holdings
<1>5. DEFINE demo == [actor_id |-> DemoActor, action |-> "record_progress",
                      expected_version |-> doc.task.version]
<1>6. demo \in Intents
  BY <1>3, DemoActorAssumption DEF Intents, Actions
<1>7. /\ proposal' \in [Requests -> Intents \cup {NoIntent}]
      /\ call[r].kind # "normal" => proposal'[r] \in Intents
  <2>1. call[r].kind = "apply" => proposal[r] \in Intents
    BY DEF RequestsOK, LocalsOK
  <2>2. proposal' = [proposal EXCEPT ![r] = IF call[r].kind = "breaker" THEN demo ELSE proposal[r]]
    BY DEF HoldClaim
  <2>. HIDE DEF demo
  <2>. QED BY <1>1, <1>6, <2>1, <2>2 DEF RequestsOK, Kinds
<1>8. /\ pc' \in [Requests -> {"idle"} \cup Working \cup Answered \cup Stopped]
      /\ pc'[r] = IF call[r].kind = "normal" THEN "proposing" ELSE "binding"
      /\ polls' \in [Requests -> 0..MaxPolls]
  BY BoundsAssumption DEF HoldClaim, RequestsOK, Working, Claimed
<1>9. LocalsOK(r)'
  BY <1>1, <1>7, <1>8 DEF HoldClaim, RequestsOK, LocalsOK, TaskDocOK
<1>10. RequestsOK'
  BY <1>4, <1>7, <1>8, <1>9, RequestMoves DEF HoldClaim, RequestsOK
<1>. QED BY <1>10 DEF HoldClaim

\* Both ways to take a claim leave a well-formed store behind.
LEMMA TakeType ==
  ASSUME TypeOK, NEW r \in Requests, TakeOver(r) \/ TakeFresh(r),
         UNCHANGED <<markers, events, now>>
  PROVE  /\ StoreOK' /\ pc[r] = "claiming"
         /\ TakeoverIntent(r) \in Intents \cup {NoIntent}
         /\ CallerIntent(r) \in Intents \cup {NoIntent}
<1>. USE DEF TypeOK
<1>1. pc[r] = "claiming" /\ pc[r] \in Working
  BY DEF TakeOver, TakeFresh, Working
<1>2. Key(r) \in Keys
  BY <1>1, WorkingCall
<1>3. CallerIntent(r) \in Intents \cup {NoIntent}
  BY DEF CallerIntent, RequestsOK
<1>4. TakeoverIntent(r) \in Intents \cup {NoIntent}
  BY <1>2, <1>3 DEF TakeoverIntent, CycleDocs, StoreOK
<1>5. TaskDocOK(doc')
  BY <1>2 DEF TakeOver, TakeFresh, StoreOK, TaskDocOK, TaskDocs
<1>6. cycle' \in [Keys -> CycleDocs] /\ \A k \in Keys : CycleDocOK(cycle'[k])
  <2>1. CASE TakeOver(r)
    <3>1. ClaimDoc(r, TakeoverIntent(r)) \in CycleDocs /\ CycleDocOK(ClaimDoc(r, TakeoverIntent(r)))
      BY <1>1, <1>4, ClaimDocType
    <3>. QED BY <1>2, <2>1, <3>1 DEF TakeOver, StoreOK
  <2>2. CASE TakeFresh(r)
    <3>1. ClaimDoc(r, CallerIntent(r)) \in CycleDocs /\ CycleDocOK(ClaimDoc(r, CallerIntent(r)))
      BY <1>1, <1>3, ClaimDocType
    <3>. QED BY <2>2, <3>1, NothingType DEF TakeFresh, CyclesAfterClaim, StoreOK
  <2>. QED BY <2>1, <2>2
<1>. QED BY <1>1, <1>3, <1>4, <1>5, <1>6 DEF StoreOK, TaskDocOK, CycleDocOK

LEMMA ClaimType ==
  ASSUME TypeOK, NEW r \in Requests, Claim(r)
  PROVE  TypeOK'
<1>. USE DEF TypeOK
<1>1. pc[r] = "claiming" /\ pc[r] \in Working
  BY DEF Claim, ClaimReplay, ClaimRefused, ClaimWait, ClaimTimesOut, ClaimTakeover,
         ClaimFresh, TakeOver, TakeFresh, Working
<1>2. call[r] \in Calls /\ Key(r) \in Keys /\ call[r].kind \in Kinds
  BY <1>1, WorkingCall
<1>4. cycle[Key(r)] \in CycleDocs
  BY <1>2 DEF StoreOK
<1>5. CASE ClaimReplay(r)
  <2>1. cycle[Key(r)].result \in Results \cup {NoResult}
    BY <1>4 DEF CycleDocs
  <2>. QED BY <1>1, <1>5, <2>1, ReturnType, StoreSame DEF ClaimReplay
<1>6. CASE ClaimRefused(r)
  BY <1>6, StopType, StoreSame DEF ClaimRefused
<1>7. CASE ClaimTimesOut(r)
  BY <1>7, StopType, StoreSame DEF ClaimTimesOut
<1>8. CASE ClaimWait(r)
  <2>1. polls' \in [Requests -> 0..MaxPolls]
    BY <1>8, BoundsAssumption DEF ClaimWait, RequestsOK
  <2>2. LocalsOK(r)'
    BY <1>8 DEF ClaimWait, LocalsOK, RequestsOK, TaskDocOK
  <2>3. RequestsOK'
    BY <1>8, <2>1, <2>2, RequestMoves DEF ClaimWait, RequestsOK
  <2>. QED BY <1>8, <2>3, StoreSame DEF ClaimWait
<1>9. CASE ClaimTakeover(r)
  <2>1. UNCHANGED <<markers, events, now>>
    BY <1>9 DEF ClaimTakeover, HoldClaim
  <2>. QED BY <1>1, <1>9, <2>1, TakeType, HoldClaimType DEF ClaimTakeover
<1>10. CASE ClaimFresh(r)
  <2>1. UNCHANGED <<markers, events, now>>
    BY <1>10 DEF ClaimFresh, HoldClaim
  <2>. QED BY <1>1, <1>10, <2>1, TakeType, HoldClaimType DEF ClaimFresh
<1>. QED BY <1>5, <1>6, <1>7, <1>8, <1>9, <1>10 DEF Claim

LEMMA ProposeType ==
  ASSUME TypeOK, NEW r \in Requests, NEW a \in Actors, NEW action \in Actions,
         Propose(r, a, action)
  PROVE  TypeOK'
<1>. USE DEF TypeOK
<1>. DEFINE i == [actor_id |-> a, action |-> action, expected_version |-> held[r].task.version]
<1>1. i \in Intents
  BY DEF RequestsOK, Holdings, Tasks, Intents
<1>2. call[r] \in Calls
  BY WorkingCall DEF Propose, Working, Claimed
<1>3. /\ proposal' \in [Requests -> Intents \cup {NoIntent}]
      /\ proposal'[r] = i
      /\ pc' \in [Requests -> {"idle"} \cup Working \cup Answered \cup Stopped]
      /\ pc'[r] = "binding"
  BY <1>1 DEF Propose, RequestsOK, Working, Claimed
<1>4. LocalsOK(r)'
  BY <1>1, <1>2, <1>3 DEF Propose, LocalsOK, RequestsOK, TaskDocOK
<1>5. RequestsOK'
  BY <1>3, <1>4, RequestMoves DEF Propose, RequestsOK
<1>. QED BY <1>5, StoreSame DEF Propose

LEMMA CoordinatorDeniedType ==
  ASSUME TypeOK, NEW r \in Requests, CoordinatorDenied(r)
  PROVE  TypeOK'
<1>. USE DEF TypeOK
<1>1. call[r] \in Calls
  BY WorkingCall DEF CoordinatorDenied, Working, Claimed
<1>2. /\ pc' \in [Requests -> {"idle"} \cup Working \cup Answered \cup Stopped]
      /\ pc'[r] = "failing"
  BY DEF CoordinatorDenied, RequestsOK, Working, Claimed
<1>3. LocalsOK(r)'
  BY <1>1, <1>2 DEF CoordinatorDenied, locals, LocalsOK, RequestsOK, TaskDocOK
<1>4. RequestsOK'
  BY <1>2, <1>3, RequestMoves DEF CoordinatorDenied, locals, RequestsOK
<1>. QED BY <1>4, StoreSame DEF CoordinatorDenied

LEMMA BindIntentType ==
  ASSUME TypeOK, NEW r \in Requests, BindIntent(r), UNCHANGED <<doc, markers, events, now>>
  PROVE  StoreOK' /\ Intended(r) \in Intents /\ call[r] \in Calls /\ pc[r] \in Working
<1>. USE DEF TypeOK
<1>1. call[r] \in Calls /\ Key(r) \in Keys /\ pc[r] \in Working
  BY WorkingCall DEF BindIntent, Working, Claimed
<1>2. Intended(r) \in Intents
  BY DEF Intended, BindIntent, RequestsOK, LocalsOK, Holdings
<1>3. [cycle[Key(r)] EXCEPT !.intent = Intended(r)] \in CycleDocs
      /\ CycleDocOK([cycle[Key(r)] EXCEPT !.intent = Intended(r)])
  BY <1>1, <1>2 DEF StoreOK, CycleDocs, CycleDocOK
<1>4. cycle' = [cycle EXCEPT ![Key(r)] = [cycle[Key(r)] EXCEPT !.intent = Intended(r)]]
  BY <1>1 DEF BindIntent, StoreOK
<1>5. cycle' \in [Keys -> CycleDocs] /\ \A k \in Keys : CycleDocOK(cycle'[k])
  BY <1>1, <1>3, <1>4 DEF StoreOK
<1>. QED BY <1>1, <1>2, <1>5 DEF StoreOK, TaskDocOK, CycleDocOK

LEMMA BindType ==
  ASSUME TypeOK, NEW r \in Requests, Bind(r)
  PROVE  TypeOK'
<1>. USE DEF TypeOK
<1>1. StoreOK' /\ Intended(r) \in Intents /\ call[r] \in Calls
  BY BindIntentType DEF Bind
<1>2. /\ held' \in [Requests -> Holdings]
      /\ held'[r].intent = Intended(r)
      /\ pc' \in [Requests -> {"idle"} \cup Working \cup Answered \cup Stopped]
      /\ pc'[r] = "executing" /\ pc[r] = "binding"
  BY <1>1 DEF Bind, BindIntent, RequestsOK, Holdings, Working, Claimed
<1>3. LocalsOK(r)'
  BY <1>1, <1>2 DEF Bind, LocalsOK, RequestsOK, TaskDocOK
<1>4. RequestsOK'
  BY <1>2, <1>3, RequestMoves DEF Bind, RequestsOK
<1>. QED BY <1>1, <1>4

\* A request that is about to finalize holds a document that fits the bounds.
LEMMA PendingType ==
  ASSUME RequestsOK, NEW r \in Requests, pc[r] \in {"executing", "failing"},
         NEW d, TaskDocOK(d), d.active_cycle = NoKey,
         NEW result \in Results, NEW intent \in Intents \cup {NoIntent},
         pending' = [pending EXCEPT ![r] = [doc |-> d, result |-> result, intent |-> intent]],
         held' = [held EXCEPT ![r] = NothingHeld],
         proposal' \in [Requests -> Intents \cup {NoIntent}],
         \A s \in Requests \ {r} : proposal'[s] = proposal[s],
         pc' = [pc EXCEPT ![r] = "finalizing"],
         UNCHANGED <<call, polls, reply>>
  PROVE  RequestsOK'
<1>1. call[r] \in Calls
  BY WorkingCall DEF Working, Claimed
<1>2. [doc |-> d, result |-> result, intent |-> intent] \in Pendings
  BY DEF Pendings, TaskDocOK
<1>3. /\ pending' \in [Requests -> Pendings] /\ held' \in [Requests -> Holdings]
      /\ pc' \in [Requests -> {"idle"} \cup Working \cup Answered \cup Stopped]
      /\ pending'[r] = [doc |-> d, result |-> result, intent |-> intent]
      /\ pc'[r] = "finalizing"
  BY <1>2, NothingType DEF RequestsOK, Working, Claimed
<1>4. LocalsOK(r)'
  BY <1>1, <1>3 DEF LocalsOK, TaskDocOK
<1>. QED BY <1>3, <1>4, RequestMoves DEF RequestsOK

LEMMA ExecuteType ==
  ASSUME TypeOK, NEW r \in Requests, NEW o \in Outcomes, Execute(r, o)
  PROVE  TypeOK'
<1>. USE DEF TypeOK
<1>. DEFINE i == held[r].intent
            d == Closed(Applied(doc, i, o))
<1>1. i \in Intents /\ o \in CycleOutcomes /\ doc \in TaskDocs
  BY OutcomesAssumption DEF Execute, RequestsOK, LocalsOK, StoreOK, TaskDocOK
<1>2. /\ Applied(doc, i, o) \in TaskDocs
      /\ Applied(doc, i, o).cycle_count = doc.cycle_count
      /\ AppliedResult(doc, i, o) \in Results
  BY <1>1, AppliedType
<1>3. /\ d \in TaskDocs /\ d.active_cycle = NoKey
      /\ d.cycle_count = doc.cycle_count + 1
      /\ d.evidence = Applied(doc, i, o).evidence
  BY <1>2, ClosedType
<1>4. TaskDocOK(d)
  <2>1. doc.cycle_count \in Nat /\ doc.cycle_count < MaxCycles
    BY <1>1 DEF TaskDocs, Execute
  <2>. QED BY <1>3, <2>1, BoundsAssumption DEF TaskDocOK, Execute, Fits
<1>5. /\ proposal' \in [Requests -> Intents \cup {NoIntent}]
      /\ \A s \in Requests \ {r} : proposal'[s] = proposal[s]
  BY DEF Execute, RequestsOK
<1>. HIDE DEF d
<1>6. RequestsOK'
  BY <1>1, <1>2, <1>3, <1>4, <1>5, PendingType DEF Execute, d
<1>. QED BY <1>6, StoreSame DEF Execute

LEMMA FailType ==
  ASSUME TypeOK, NEW r \in Requests, Fail(r)
  PROVE  TypeOK'
<1>. USE DEF TypeOK
<1>. DEFINE d == Closed(Denied(doc))
<1>1. doc \in TaskDocs
  BY DEF StoreOK, TaskDocOK
<1>2. /\ Denied(doc) \in TaskDocs
      /\ Denied(doc).cycle_count = doc.cycle_count
      /\ Denied(doc).evidence = doc.evidence
      /\ DeniedResult(doc) \in Results
  BY <1>1, DeniedType
<1>3. /\ d \in TaskDocs /\ d.active_cycle = NoKey
      /\ d.cycle_count = doc.cycle_count + 1 /\ d.evidence = doc.evidence
  BY <1>2, ClosedType
<1>4. TaskDocOK(d)
  <2>1. doc.cycle_count \in Nat /\ doc.cycle_count < MaxCycles
    BY <1>1 DEF TaskDocs, Fail, CanFail
  <2>. QED BY <1>3, <2>1, BoundsAssumption DEF TaskDocOK, StoreOK
<1>. HIDE DEF d
<1>5. RequestsOK'
  BY <1>2, <1>3, <1>4, PendingType DEF Fail, d, RequestsOK
<1>. QED BY <1>5, StoreSame DEF Fail

LEMMA CommitType ==
  ASSUME TypeOK, NEW r \in Requests, Commit(r), UNCHANGED <<events, now>>
  PROVE  StoreOK'
<1>. USE DEF TypeOK
<1>1. Key(r) \in Keys /\ pc[r] = "finalizing"
  BY WorkingCall DEF Commit, Working, Claimed
<1>2. /\ TaskDocOK(pending[r].doc) /\ pending[r].result \in Results
      /\ pending[r].intent \in Intents \cup {NoIntent}
  BY <1>1 DEF RequestsOK, LocalsOK, Pendings
<1>3. FinalizedDoc(r) \in CycleDocs /\ CycleDocOK(FinalizedDoc(r))
  <2>1. cycle[Key(r)] \in CycleDocs
    BY <1>1 DEF StoreOK
  <2>2. NoResult \notin Results
    BY DEF NoResult, Results
  <2>. QED BY <1>2, <2>1, <2>2 DEF FinalizedDoc, CycleDocs, CycleDocOK
<1>4. cycle' \in [Keys -> CycleDocs] /\ \A k \in Keys : CycleDocOK(cycle'[k])
  BY <1>1, <1>3 DEF Commit, StoreOK
<1>5. markers' \in [EvidenceIds -> {"none", "ours", "theirs"}]
  BY DEF Commit, StoreOK
<1>. QED BY <1>2, <1>4, <1>5 DEF Commit, StoreOK, TaskDocOK, CycleDocOK

LEMMA FinalizeType ==
  ASSUME TypeOK, NEW r \in Requests, Finalize(r)
  PROVE  TypeOK'
<1>. USE DEF TypeOK
<1>1. StoreOK'
  BY CommitType DEF Finalize
<1>2. /\ pc' \in [Requests -> {"idle"} \cup Working \cup Answered \cup Stopped]
      /\ pc'[r] = "confirming" /\ pc[r] = "finalizing"
  BY DEF Finalize, Commit, RequestsOK, Working
<1>3. LocalsOK(r)'
  BY <1>2 DEF Finalize, locals, LocalsOK, RequestsOK, TaskDocOK, Working, Claimed
<1>4. RequestsOK'
  BY <1>2, <1>3, RequestMoves DEF Finalize, locals, RequestsOK
<1>. QED BY <1>1, <1>4

LEMMA ConfirmingType ==
  ASSUME TypeOK, NEW r \in Requests, pc[r] = "confirming",
         events' = EventsAfter(r), UNCHANGED <<docs, now>>
  PROVE  StoreOK'
<1>1. Key(r) \in Keys
  BY WorkingCall DEF TypeOK, Working
<1>2. events' \in [Keys -> Nat]
  BY <1>1 DEF EventsAfter, TypeOK, StoreOK
<1>. QED BY <1>2 DEF TypeOK, StoreOK, docs, TaskDocOK, CycleDocOK

LEMMA ConfirmType ==
  ASSUME TypeOK, NEW r \in Requests, Confirm(r)
  PROVE  TypeOK'
<1>1. StoreOK'
  BY ConfirmingType DEF Confirm
<1>2. pc[r] \in Working /\ pending[r].result \in Results
  BY DEF Confirm, Working, TypeOK, RequestsOK, LocalsOK
<1>3. RequestsOK'
  BY <1>2, StopType, ReturnType DEF Confirm, TypeOK
<1>. QED BY <1>1, <1>3 DEF TypeOK

\* Releasing a claim leaves a well-formed store behind.
LEMMA ReleaseType ==
  ASSUME TypeOK, NEW r \in Requests, pc[r] = "aborting", ReleaseClaim(r),
         UNCHANGED <<markers, events, now>>
  PROVE  StoreOK'
<1>1. Key(r) \in Keys
  BY WorkingCall DEF TypeOK, Working, Claimed
<1>2. cycle' \in [Keys -> CycleDocs] /\ \A k \in Keys : CycleDocOK(cycle'[k])
  BY <1>1, NothingType DEF ReleaseClaim, TypeOK, StoreOK, CycleDocOK
<1>3. TaskDocOK(doc')
  BY DEF ReleaseClaim, TypeOK, StoreOK, TaskDocOK, TaskDocs
<1>. QED BY <1>2, <1>3 DEF TypeOK, StoreOK, TaskDocOK, CycleDocOK

LEMMA TransactType ==
  ASSUME TypeOK, NEW r \in Requests, Transact(r)
  PROVE  TypeOK'
<1>1. CASE \E a \in Actors, action \in Actions : Propose(r, a, action)
  BY <1>1, ProposeType
<1>2. CASE CoordinatorDenied(r)
  BY <1>2, CoordinatorDeniedType
<1>3. CASE Bind(r)
  BY <1>3, BindType
<1>4. CASE \E o \in Outcomes : Execute(r, o)
  BY <1>4, ExecuteType
<1>5. CASE Fail(r)
  BY <1>5, FailType
<1>6. CASE Finalize(r)
  BY <1>6, FinalizeType
<1>7. CASE Confirm(r)
  BY <1>7, ConfirmType
<1>8. CASE Abort(r)
  BY <1>8, ReleaseType, StopType DEF Abort, TypeOK
<1>9. CASE \/ BindRefused(r) \/ FailRefused(r) \/ FinalizeRefused(r)
           \/ \E o \in Outcomes : ExecuteRefused(r, o)
  <2>1. /\ pc[r] \in Working /\ GiveUp(r)
        /\ UNCHANGED <<docs, events, now>>
    BY <1>9 DEF BindRefused, FailRefused, FinalizeRefused, ExecuteRefused, Working, Claimed
  <2>. QED BY <2>1, GiveUpType, StoreSame DEF TypeOK
<1>. QED BY <1>1, <1>2, <1>3, <1>4, <1>5, <1>6, <1>7, <1>8, <1>9 DEF Transact

LEMMA FaultType ==
  ASSUME TypeOK, NEW r \in Requests, Fault(r)
  PROVE  TypeOK'
<1>1. CASE FinalizeAckLost(r)
  <2>1. pc[r] \in Working
    BY <1>1 DEF FinalizeAckLost, Commit, Working, Claimed
  <2>. QED BY <1>1, <2>1, CommitType, GiveUpType DEF FinalizeAckLost, TypeOK
<1>2. CASE AbortFails(r)
  BY <1>2, StopType, StoreSame DEF AbortFails, TypeOK, Stopped
<1>3. CASE Crash(r)
  BY <1>3, StopType, StoreSame DEF Crash, TypeOK, Stopped
<1>4. CASE StoreError(r)
  <2>1. CASE pc[r] = "claiming" /\ Stop(r, "raised")
    BY <1>4, <2>1, StopType, StoreSame DEF StoreError, TypeOK
  <2>2. CASE pc[r] \in {"binding", "executing", "failing", "finalizing"} /\ GiveUp(r)
    BY <1>4, <2>2, GiveUpType, StoreSame DEF StoreError, TypeOK, Working, Claimed
  <2>. QED BY <1>4, <2>1, <2>2 DEF StoreError
<1>5. CASE ConfirmError(r)
  BY <1>5, ConfirmingType, StopType DEF ConfirmError, TypeOK
<1>6. CASE ClaimAckLost(r)
  BY <1>6, TakeType, StopType DEF ClaimAckLost, TypeOK, Stopped
<1>7. CASE BindAckLost(r)
  BY <1>7, BindIntentType, GiveUpType DEF BindAckLost, TypeOK
<1>. QED BY <1>1, <1>2, <1>3, <1>4, <1>5, <1>6, <1>7 DEF Fault

LEMMA EnvironmentType ==
  ASSUME TypeOK, Environment
  PROVE  TypeOK'
<1>1. RequestsOK'
  BY DEF Environment, Tick, AppendEvidence, SetBaton, OtherTaskEvidence, locals,
         TypeOK, RequestsOK, LocalsOK, TaskDocOK
<1>2. CASE Tick
  BY <1>1, <1>2, ClockAssumption DEF Tick, docs, TypeOK, StoreOK, TaskDocOK, CycleDocOK
<1>3. ASSUME NEW e \in DirectEvidence, AppendEvidence(e) PROVE StoreOK'
  <2>1. e \in Evidence /\ doc \in TaskDocs
    BY DirectAssumption DEF TypeOK, StoreOK, TaskDocOK
  <2>2. /\ Appended(doc, e) \in TaskDocs
        /\ Appended(doc, e).cycle_count = doc.cycle_count
        /\ Appended(doc, e).evidence = doc.evidence \cup {e}
    BY <2>1, AppendedType
  <2>3. TaskDocOK(doc')
    BY <1>3, <2>2 DEF AppendEvidence, Fits, TaskDocOK, TypeOK, StoreOK
  <2>. QED BY <1>3, <2>3 DEF AppendEvidence, TypeOK, StoreOK, TaskDocOK, CycleDocOK
<1>4. ASSUME NEW k \in DirectBatons, SetBaton(k) PROVE StoreOK'
  <2>1. k \in Keys \cup {NoKey} /\ doc \in TaskDocs
    BY DirectAssumption DEF TypeOK, StoreOK, TaskDocOK
  <2>2. /\ BatonSet(doc, k) \in TaskDocs
        /\ BatonSet(doc, k).cycle_count = doc.cycle_count
        /\ BatonSet(doc, k).evidence = doc.evidence
    BY <2>1, BatonSetType
  <2>3. TaskDocOK(doc')
    BY <1>4, <2>2 DEF SetBaton, TaskDocOK, TypeOK, StoreOK
  <2>. QED BY <1>4, <2>3 DEF SetBaton, TypeOK, StoreOK, TaskDocOK, CycleDocOK
<1>5. ASSUME NEW id \in ForeignIds, OtherTaskEvidence(id) PROVE StoreOK'
  BY <1>5 DEF OtherTaskEvidence, TypeOK, StoreOK, TaskDocOK, CycleDocOK
<1>. QED BY <1>1, <1>2, <1>3, <1>4, <1>5 DEF Environment, TypeOK

\* Type correctness: in every behaviour, every document keeps its shape and its
\* bounds (64 cycles, 24 items of evidence) and no request is ever short of what
\* its next step reads (state.py, FirestoreStateStore).
THEOREM TypeCorrect == Spec => []TypeOK
<1>1. Init => TypeOK
  <2>. SUFFICES ASSUME Init PROVE TypeOK
    OBVIOUS
  <2>1. StoreOK
    BY NothingType, ClockAssumption DEF Init, StoreOK
  <2>2. RequestsOK
    BY NothingType, BoundsAssumption
    DEF Init, RequestsOK, LocalsOK, NothingPending, Working, Claimed
  <2>. QED BY <2>1, <2>2 DEF TypeOK
<1>2. TypeOK /\ [Next]_vars => TypeOK'
  <2>. SUFFICES ASSUME TypeOK, [Next]_vars PROVE TypeOK'
    OBVIOUS
  <2>1. CASE UNCHANGED vars
    BY <2>1 DEF vars, docs, locals, TypeOK, StoreOK, RequestsOK, LocalsOK, TaskDocOK, CycleDocOK
  <2>2. CASE Next
    BY <2>2, BeginType, ClaimType, TransactType, FaultType, EnvironmentType DEF Next
  <2>. QED BY <2>1, <2>2
<1>. QED BY <1>1, <1>2, PTL DEF Spec
=============================================================================
