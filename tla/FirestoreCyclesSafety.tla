------------------------ MODULE FirestoreCyclesSafety ------------------------
(***************************************************************************)
(* Theorems about who may write what in FirestoreCycles: the claim guards  *)
(* the task document, a finalized cycle is final, a bound intent outlives  *)
(* its owner, and everybody who gets a result gets the recorded one.       *)
(***************************************************************************)
EXTENDS FirestoreCyclesProofs

-----------------------------------------------------------------------------
(* Lemmas about steps *)

Steps(r) == Begin(r) \/ Claim(r) \/ Transact(r) \/ Fault(r)

\* A request takes a claim and goes on with it, or never hears of it.
TakesClaim(r) ==
  /\ TakeOver(r) \/ TakeFresh(r)
  /\ \/ Stop(r, "abandoned")
     \/ HoldClaim(r, TakeoverIntent(r)) \/ HoldClaim(r, CallerIntent(r))

\* The steps of a request that write the task document or a cycle document.
RequestWrites(r) ==
  \/ TakesClaim(r) \/ Commit(r)
  \/ BindIntent(r) /\ UNCHANGED doc
  \/ pc[r] = "aborting" /\ ReleaseClaim(r)

DirectWrites ==
  \/ \E e \in DirectEvidence : AppendEvidence(e)
  \/ \E k \in DirectBatons : SetBaton(k)

LEMMA StoreSteps ==
  ASSUME [Next]_vars
  PROVE  \/ UNCHANGED <<doc, cycle>>
         \/ \E r \in Requests : Steps(r) /\ RequestWrites(r)
         \/ DirectWrites
<1>1. CASE UNCHANGED vars
  BY <1>1 DEF vars, docs
<1>2. ASSUME NEW r \in Requests, Begin(r) PROVE UNCHANGED <<doc, cycle>>
  BY <1>2 DEF Begin, docs
<1>3. ASSUME NEW r \in Requests, Claim(r) PROVE UNCHANGED <<doc, cycle>> \/ RequestWrites(r)
  BY <1>3 DEF Claim, ClaimReplay, ClaimRefused, ClaimWait, ClaimTimesOut, ClaimTakeover,
              ClaimFresh, RequestWrites, TakesClaim, docs
<1>4. ASSUME NEW r \in Requests, Transact(r) PROVE UNCHANGED <<doc, cycle>> \/ RequestWrites(r)
  BY <1>4 DEF Transact, Propose, CoordinatorDenied, Bind, BindRefused, Execute, ExecuteRefused,
              Fail, FailRefused, Finalize, FinalizeRefused, Confirm, Abort, RequestWrites, TakesClaim, docs
<1>5. ASSUME NEW r \in Requests, Fault(r) PROVE UNCHANGED <<doc, cycle>> \/ RequestWrites(r)
  BY <1>5 DEF Fault, ClaimAckLost, BindAckLost, FinalizeAckLost, AbortFails, Crash, StoreError,
              ConfirmError, RequestWrites, TakesClaim, docs
<1>6. CASE Environment
  BY <1>6 DEF Environment, Tick, OtherTaskEvidence, DirectWrites, docs
<1>. QED BY <1>1, <1>2, <1>3, <1>4, <1>5, <1>6 DEF Next, Steps

\* What a writing request knows about its key, and what it does to the cycles.
LEMMA WriterKey ==
  ASSUME TypeOK, NEW r \in Requests, RequestWrites(r)
  PROVE  Key(r) \in Keys /\ Key(r) # NoKey /\ pc[r] \in Working
<1>1. pc[r] \in Working
  BY DEF RequestWrites, TakesClaim, TakeOver, TakeFresh, BindIntent, Commit, Working, Claimed
<1>2. Key(r) \in Keys
  BY <1>1, WorkingCall DEF TypeOK
<1>. QED BY <1>1, <1>2, KeysAssumption

\* An owner is the owner of a claim.
LEMMA OwnerOwns ==
  ASSUME TypeOK, NEW r \in Requests, NEW k \in Keys, cycle[k].owner = r
  PROVE  cycle[k].status = "claimed" /\ cycle[k].result = NoResult
BY RequestsAssumption DEF TypeOK, StoreOK, CycleDocOK, CycleDocs

\* A direct write leaves every cycle alone, and is only made while none is active.
LEMMA DirectWritesOutside ==
  ASSUME TypeOK, DirectWrites
  PROVE  /\ UNCHANGED cycle /\ doc.active_cycle = NoKey /\ doc'.active_cycle = NoKey
         /\ doc'.task = [doc.task EXCEPT !.version = doc.task.version + 1]
         /\ doc.evidence \subseteq doc'.evidence
<1>. USE DEF TypeOK, StoreOK, TaskDocOK
<1>1. doc \in TaskDocs
  OBVIOUS
<1>2. ASSUME NEW e \in DirectEvidence, AppendEvidence(e)
      PROVE  /\ UNCHANGED cycle /\ doc.active_cycle = NoKey /\ doc' = Appended(doc, e)
             /\ e \in Evidence
  BY <1>2, DirectAssumption DEF AppendEvidence, Writable
<1>3. ASSUME NEW k \in DirectBatons, SetBaton(k)
      PROVE  /\ UNCHANGED cycle /\ doc.active_cycle = NoKey /\ doc' = BatonSet(doc, k)
             /\ k \in Keys \cup {NoKey}
  BY <1>3, DirectAssumption DEF SetBaton, Writable
<1>4. ASSUME NEW e \in Evidence
      PROVE  Appended(doc, e).task = [doc.task EXCEPT !.version = doc.task.version + 1]
  BY <1>1 DEF Appended, TaskDocs
<1>5. ASSUME NEW k \in Keys \cup {NoKey}
      PROVE  BatonSet(doc, k).task = [doc.task EXCEPT !.version = doc.task.version + 1]
  BY <1>1 DEF BatonSet, TaskDocs
<1>6. CASE \E e \in DirectEvidence : AppendEvidence(e)
  <2>. PICK e \in DirectEvidence : AppendEvidence(e)
    BY <1>6
  <2>. QED BY <1>1, <1>2, <1>4, AppendedType
<1>7. CASE \E k \in DirectBatons : SetBaton(k)
  <2>1. PICK k \in DirectBatons : SetBaton(k)
    BY <1>7
  <2>2. /\ UNCHANGED cycle /\ doc.active_cycle = NoKey
        /\ doc' = BatonSet(doc, k) /\ k \in Keys \cup {NoKey}
    BY <1>3, <2>1
  <2>3. /\ BatonSet(doc, k).active_cycle = doc.active_cycle
        /\ BatonSet(doc, k).evidence = doc.evidence
    BY <1>1, <2>2, BatonSetType
  <2>4. doc'.task = [doc.task EXCEPT !.version = doc.task.version + 1]
    BY <1>5, <2>2
  <2>. QED BY <2>2, <2>3, <2>4
<1>. QED BY <1>6, <1>7 DEF DirectWrites

-----------------------------------------------------------------------------
(* One claim at a time *)

LEMMA ClaimIsActiveStep ==
  ASSUME TypeOK, ClaimIsActive, [Next]_vars
  PROVE  ClaimIsActive'
<1>. USE DEF ClaimIsActive
<1>1. CASE UNCHANGED <<doc, cycle>>
  BY <1>1
<1>2. CASE DirectWrites
  BY <1>2, DirectWritesOutside, KeysAssumption
<1>3. ASSUME NEW r \in Requests, RequestWrites(r) PROVE ClaimIsActive'
  <2>. USE DEF TypeOK, StoreOK
  <2>1. Key(r) \in Keys /\ Key(r) # NoKey
    BY <1>3, WriterKey
  <2>2. doc \in TaskDocs
    BY DEF TaskDocOK
  <2>3. CASE TakeOver(r)
    BY <2>1, <2>2, <2>3 DEF TakeOver, ClaimDoc, ExpiredFor, TaskDocs
  <2>4. CASE TakeFresh(r)
    <3>1. doc'.active_cycle = Key(r)
      BY <2>2, <2>4 DEF TakeFresh, TaskDocs
    <3>2. ASSUME NEW k \in Keys PROVE cycle'[k].status = "claimed" <=> k = Key(r)
      BY <2>1, <2>4 DEF TakeFresh, CyclesAfterClaim, ClaimDoc, Absent
    <3>. QED BY <3>1, <3>2
  <2>5. CASE BindIntent(r) /\ UNCHANGED doc
    BY <2>1, <2>5 DEF BindIntent, CycleDocs
  <2>6. CASE Commit(r)
    <3>1. doc' = pending[r].doc /\ doc'.active_cycle = NoKey
      BY <2>6 DEF Commit, RequestsOK, LocalsOK
    <3>2. cycle' = [cycle EXCEPT ![Key(r)] = FinalizedDoc(r)]
          /\ FinalizedDoc(r).status = "finalized" /\ doc.active_cycle = Key(r)
      BY <2>1, <2>6 DEF Commit, FinalizedDoc, CanFinalize, Owns, CycleDocs
    <3>. QED BY <2>1, <3>1, <3>2, KeysAssumption
  <2>7. CASE pc[r] = "aborting" /\ ReleaseClaim(r)
    <3>1. CASE cycle[Key(r)].owner = r
      <4>1. doc.active_cycle = Key(r)
        BY <2>1, <3>1, OwnerOwns
      <4>2. doc'.active_cycle = NoKey /\ cycle' = [cycle EXCEPT ![Key(r)] = Absent]
        BY <2>2, <2>7, <3>1, <4>1 DEF ReleaseClaim, TaskDocs
      <4>. QED BY <2>1, <4>1, <4>2, KeysAssumption DEF Absent
    <3>2. CASE cycle[Key(r)].owner # r
      BY <2>7, <3>2 DEF ReleaseClaim
    <3>. QED BY <3>1, <3>2
  <2>. QED BY <1>3, <2>3, <2>4, <2>5, <2>6, <2>7 DEF RequestWrites, TakesClaim
<1>. QED BY <1>1, <1>2, <1>3, StoreSteps

\* A cycle is claimed exactly when it is the task's active cycle: the claim is
\* the lock on the task document (run_cycle_transaction's claim, _finalize_claim,
\* _abort_claim), and there is never more than one.
THEOREM OneClaim == Spec => []ClaimIsActive
<1>1. Init => ClaimIsActive
  BY KeysAssumption DEF Init, ClaimIsActive, NewDoc, Absent
<1>. QED BY <1>1, ClaimIsActiveStep, TypeCorrect, PTL DEF Spec

-----------------------------------------------------------------------------
(* What no step may do to a cycle *)

LEMMA FinalizedStep ==
  ASSUME TypeOK, [Next]_vars, NEW k \in Keys, cycle[k].status = "finalized"
  PROVE  cycle'[k] = cycle[k]
<1>1. ASSUME NEW r \in Requests, RequestWrites(r) PROVE cycle'[k] = cycle[k]
  <2>. USE DEF TypeOK, StoreOK
  <2>1. Key(r) \in Keys
    BY <1>1, WriterKey
  <2>2. CASE TakeOver(r)
    BY <2>1, <2>2 DEF TakeOver, ExpiredFor
  <2>3. CASE TakeFresh(r)
    BY <2>1, <2>3 DEF TakeFresh, CyclesAfterClaim
  <2>4. CASE BindIntent(r)
    BY <2>1, <2>4 DEF BindIntent, CanBind, Owns
  <2>5. CASE Commit(r)
    BY <2>1, <2>5 DEF Commit, CanFinalize, Owns
  <2>6. CASE ReleaseClaim(r)
    BY <2>1, <2>6, OwnerOwns DEF ReleaseClaim
  <2>. QED BY <1>1, <2>2, <2>3, <2>4, <2>5, <2>6 DEF RequestWrites, TakesClaim
<1>. QED BY <1>1, StoreSteps, DirectWritesOutside

\* A finalized cycle is never changed and never deleted: not by a late owner whose
\* claim was taken over, not by its own failed re-read, not by an abort.
THEOREM FinalizedIsFinal == Spec => FinalizedForever
<1>1. ASSUME TypeOK, [Next]_vars
      PROVE  \A k \in Keys : cycle[k].status = "finalized" => cycle'[k] = cycle[k]
  BY <1>1, FinalizedStep
<1>. QED BY <1>1, TypeCorrect, PTL DEF Spec, FinalizedForever

LEMMA BoundStep ==
  ASSUME TypeOK, [Next]_vars, NEW k \in Keys, cycle[k].status = "claimed",
         cycle[k].intent # NoIntent, cycle'[k].status = "claimed"
  PROVE  cycle'[k].intent = cycle[k].intent
<1>1. ASSUME NEW r \in Requests, RequestWrites(r) PROVE cycle'[k].intent = cycle[k].intent
  <2>. USE DEF TypeOK, StoreOK
  <2>1. Key(r) \in Keys
    BY <1>1, WriterKey
  <2>2. CASE TakeOver(r)
    BY <2>1, <2>2 DEF TakeOver, ClaimDoc, TakeoverIntent
  <2>3. CASE TakeFresh(r)
    BY <2>1, <2>3 DEF TakeFresh, CyclesAfterClaim, Absent
  <2>4. CASE BindIntent(r)
    BY <2>1, <2>4 DEF BindIntent, CanBind, CycleDocs
  <2>5. CASE Commit(r)
    BY <2>1, <2>5 DEF Commit, FinalizedDoc, CycleDocs
  <2>6. CASE ReleaseClaim(r)
    BY <2>1, <2>6 DEF ReleaseClaim, Absent
  <2>. QED BY <1>1, <2>2, <2>3, <2>4, <2>5, <2>6 DEF RequestWrites, TakesClaim
<1>. QED BY <1>1, StoreSteps, DirectWritesOutside

\* While a cycle stays claimed, by whomever, the intent bound to it stays: a
\* takeover starts from it and a second bind cannot replace it.
THEOREM TakeoverKeepsIntent == Spec => BoundIntentKept
<1>1. ASSUME TypeOK, [Next]_vars
      PROVE  \A k \in Keys :
               cycle[k].status = "claimed" /\ cycle[k].intent # NoIntent
               /\ cycle'[k].status = "claimed" => cycle'[k].intent = cycle[k].intent
  BY <1>1, BoundStep
<1>. QED BY <1>1, TypeCorrect, PTL DEF Spec, BoundIntentKept

-----------------------------------------------------------------------------
(* Claims are not left behind *)

\* The steps of one request leave every other where it is.
LEMMA OthersStay ==
  ASSUME TypeOK, NEW r \in Requests, Steps(r),
         NEW s \in Requests \ {r}
  PROVE  /\ pc'[s] = pc[s] /\ call'[s] = call[s] /\ held'[s] = held[s]
         /\ pending'[s] = pending[s] /\ reply'[s] = reply[s]
<1>. USE DEF TypeOK, RequestsOK, Stop, Return, GiveUp, Forget, HoldClaim, locals
<1>1. CASE Begin(r)
  BY <1>1 DEF Begin
<1>2. CASE Claim(r)
  BY <1>2 DEF Claim, ClaimReplay, ClaimRefused, ClaimWait, ClaimTimesOut, ClaimTakeover,
              ClaimFresh, TakeOver, TakeFresh
<1>3. CASE Transact(r)
  <2>1. CASE \E a \in Actors, action \in Actions : Propose(r, a, action)
    BY <2>1 DEF Propose
  <2>2. CASE CoordinatorDenied(r) \/ Bind(r) \/ Finalize(r)
    BY <2>2 DEF CoordinatorDenied, Bind, Finalize
  <2>3. CASE \E o \in Outcomes : Execute(r, o)
    BY <2>3 DEF Execute
  <2>4. CASE Fail(r)
    BY <2>4 DEF Fail
  <2>5. CASE \/ BindRefused(r) \/ FailRefused(r) \/ FinalizeRefused(r)
             \/ \E o \in Outcomes : ExecuteRefused(r, o)
    BY <2>5 DEF BindRefused, FailRefused, FinalizeRefused, ExecuteRefused
  <2>6. CASE Confirm(r) \/ Abort(r)
    BY <2>6 DEF Confirm, Abort
  <2>. QED BY <1>3, <2>1, <2>2, <2>3, <2>4, <2>5, <2>6 DEF Transact
<1>4. CASE Fault(r)
  BY <1>4 DEF Fault, ClaimAckLost, BindAckLost, FinalizeAckLost, AbortFails, Crash, StoreError, ConfirmError
<1>. QED BY <1>1, <1>2, <1>3, <1>4 DEF Steps

LEMMA EnvironmentStays ==
  ASSUME Environment \/ UNCHANGED vars
  PROVE  UNCHANGED <<pc, call, held, pending, reply>>
BY DEF Environment, Tick, AppendEvidence, SetBaton, OtherTaskEvidence, vars, locals

\* Only a request that has begun, and has not ended, takes a step.
LEMMA OwnerMoves ==
  ASSUME TypeOK, NEW r \in Requests, Steps(r), pc[r] \in Claimed
  PROVE  \/ pc'[r] \in Stopped
         \/ pc'[r] \in Claimed /\ call'[r] = call[r]
         \/ cycle'[Key(r)].owner # r
<1>. USE DEF TypeOK, RequestsOK, Stop, GiveUp, locals, Claimed, Stopped
<1>1. Key(r) \in Keys
  BY WorkingCall DEF Working
<1>2. ~ Begin(r) /\ ~ Claim(r)
  BY DEF Begin, Claim, ClaimReplay, ClaimRefused, ClaimWait, ClaimTimesOut, ClaimTakeover,
         ClaimFresh, TakeOver, TakeFresh
<1>3. CASE Transact(r)
  <2>1. CASE \E a \in Actors, action \in Actions : Propose(r, a, action)
    BY <2>1 DEF Propose
  <2>2. CASE CoordinatorDenied(r) \/ Bind(r)
    BY <2>2 DEF CoordinatorDenied, Bind
  <2>3. CASE \E o \in Outcomes : Execute(r, o)
    BY <2>3 DEF Execute
  <2>4. CASE Fail(r)
    BY <2>4 DEF Fail
  <2>5. CASE \/ BindRefused(r) \/ FailRefused(r) \/ FinalizeRefused(r)
             \/ \E o \in Outcomes : ExecuteRefused(r, o)
    BY <2>5 DEF BindRefused, FailRefused, FinalizeRefused, ExecuteRefused
  <2>6. CASE Finalize(r)
    BY <1>1, <2>6, RequestsAssumption DEF Finalize, Commit, FinalizedDoc, StoreOK, CycleDocs
  <2>7. CASE Abort(r)
    BY <1>1, <2>7, RequestsAssumption DEF Abort, ReleaseClaim, Absent, StoreOK
  <2>8. ~ Confirm(r)
    BY DEF Confirm
  <2>. QED BY <1>3, <2>1, <2>2, <2>3, <2>4, <2>5, <2>6, <2>7, <2>8 DEF Transact
<1>4. CASE Fault(r)
  BY <1>4 DEF Fault, ClaimAckLost, BindAckLost, FinalizeAckLost, AbortFails, Crash, StoreError, ConfirmError
<1>. QED BY <1>2, <1>3, <1>4 DEF Steps

LEMMA StoppedStops ==
  ASSUME TypeOK, NEW r \in Requests, Steps(r)
  PROVE  pc[r] \notin Stopped \cup Answered
BY DEF Steps, Begin, Claim, ClaimReplay, ClaimRefused, ClaimWait, ClaimTimesOut,
       ClaimTakeover, ClaimFresh, TakeOver, TakeFresh, Transact, Propose, CoordinatorDenied, Bind, BindIntent, BindRefused,
       Execute, ExecuteRefused, Fail, FailRefused, Finalize, Commit, FinalizeRefused, Confirm,
       Abort, Fault, ClaimAckLost, BindAckLost, FinalizeAckLost, AbortFails, Crash, StoreError, ConfirmError,
       Stopped, Answered, Working, Claimed

\* A claim is either the one that was there, or the one a claiming request takes.
LEMMA OwnerSteps ==
  ASSUME TypeOK, [Next]_vars, NEW k \in Keys, cycle'[k].status = "claimed"
  PROVE  \/ cycle[k].status = "claimed" /\ cycle'[k].owner = cycle[k].owner
         \/ \E r \in Requests :
              /\ pc[r] = "claiming" /\ Key(r) = k /\ cycle'[k].owner = r
              /\ pc'[r] \in Stopped \/ (pc'[r] \in {"proposing", "binding"} /\ call'[r] = call[r])
<1>1. ASSUME NEW r \in Requests, RequestWrites(r)
      PROVE  \/ cycle[k].status = "claimed" /\ cycle'[k].owner = cycle[k].owner
             \/ /\ pc[r] = "claiming" /\ Key(r) = k /\ cycle'[k].owner = r
                /\ pc'[r] \in Stopped \/ (pc'[r] \in {"proposing", "binding"} /\ call'[r] = call[r])
  <2>. USE DEF TypeOK, StoreOK, RequestsOK
  <2>1. Key(r) \in Keys
    BY <1>1, WriterKey
  <2>2. TakesClaim(r) =>
          pc'[r] \in Stopped \/ (pc'[r] \in {"proposing", "binding"} /\ call'[r] = call[r])
    BY DEF TakesClaim, HoldClaim, Stop, Stopped
  <2>3. CASE TakesClaim(r)
    <3>1. CASE k = Key(r)
      BY <2>1, <2>2, <2>3, <3>1 DEF TakesClaim, TakeOver, TakeFresh, CyclesAfterClaim, ClaimDoc
    <3>2. CASE k # Key(r)
      BY <2>1, <2>3, <3>2 DEF TakesClaim, TakeOver, TakeFresh, CyclesAfterClaim, Absent
    <3>. QED BY <3>1, <3>2
  <2>4. CASE BindIntent(r)
    BY <2>1, <2>4 DEF BindIntent, CycleDocs
  <2>5. CASE Commit(r)
    BY <2>1, <2>5 DEF Commit, FinalizedDoc, CycleDocs
  <2>6. CASE ReleaseClaim(r)
    BY <2>1, <2>6 DEF ReleaseClaim, Absent
  <2>. QED BY <1>1, <2>3, <2>4, <2>5, <2>6 DEF RequestWrites
<1>. QED BY <1>1, StoreSteps, DirectWritesOutside

LEMMA NoLeakedClaimStep ==
  ASSUME TypeOK, NoLeakedClaim, [Next]_vars
  PROVE  NoLeakedClaim'
<1>. SUFFICES ASSUME NEW k \in Keys, cycle'[k].status = "claimed"
              PROVE  \/ pc'[cycle'[k].owner] \in Stopped
                     \/ pc'[cycle'[k].owner] \in Claimed /\ call'[cycle'[k].owner].key = k
  BY DEF NoLeakedClaim, Key
<1>1. CASE \E r \in Requests :
              /\ pc[r] = "claiming" /\ Key(r) = k /\ cycle'[k].owner = r
              /\ pc'[r] \in Stopped \/ (pc'[r] \in {"proposing", "binding"} /\ call'[r] = call[r])
  BY <1>1 DEF Key, Claimed
<1>2. CASE cycle[k].status = "claimed" /\ cycle'[k].owner = cycle[k].owner
  <2>. DEFINE o == cycle[k].owner
  <2>1. o \in Requests
    BY <1>2 DEF TypeOK, StoreOK, CycleDocOK, CycleDocs
  <2>2. pc[o] \in Stopped \/ (pc[o] \in Claimed /\ Key(o) = k)
    BY <1>2 DEF NoLeakedClaim
  <2>3. CASE Steps(o)
    BY <1>2, <2>1, <2>2, <2>3, OwnerMoves, StoppedStops DEF Key
  <2>4. CASE ~ Steps(o)
    <3>1. pc'[o] = pc[o] /\ call'[o] = call[o]
      <4>1. ASSUME NEW r \in Requests, Steps(r) PROVE pc'[o] = pc[o] /\ call'[o] = call[o]
        BY <2>1, <2>4, <4>1, OthersStay
      <4>. QED BY <4>1, EnvironmentStays DEF Next, Steps
    <3>. QED BY <1>2, <2>2, <3>1 DEF Key
  <2>. QED BY <2>3, <2>4
<1>. QED BY <1>1, <1>2, OwnerSteps

\* A claim outlives the call that took it only if the call died, could not even
\* abort, or never heard of its claim (run_cycle_transaction's claim and its except
\* clause): no other error path forgets it.
THEOREM ClaimsAreHeld == Spec => []NoLeakedClaim
<1>1. Init => NoLeakedClaim
  BY DEF Init, NoLeakedClaim, Absent
<1>. QED BY <1>1, NoLeakedClaimStep, TypeCorrect, PTL DEF Spec

-----------------------------------------------------------------------------
(* One answer per key *)

LEMMA RepliesAgreeStep ==
  ASSUME TypeOK, RepliesAgree, [Next]_vars
  PROVE  RepliesAgree'
<1>. SUFFICES ASSUME NEW r \in Requests, pc'[r] = "returned"
              PROVE  /\ cycle'[Key(r)'].status = "finalized"
                     /\ cycle'[Key(r)'].operation = call'[r].kind
                     /\ reply'[r] = cycle'[Key(r)'].result
  BY DEF RepliesAgree
<1>1. CASE Steps(r)
  <2>1. ClaimReplay(r) \/ (Confirm(r) /\ Persisted(r))
    <3>. USE DEF TypeOK, RequestsOK, Stop, GiveUp, HoldClaim, locals
    <3>1. ~ Begin(r)
      BY DEF Begin
    <3>2. CASE Claim(r)
      BY <3>2 DEF Claim, ClaimRefused, ClaimWait, ClaimTimesOut, ClaimTakeover, ClaimFresh
    <3>3. CASE Transact(r)
      BY <3>3 DEF Transact, Propose, CoordinatorDenied, Bind, BindRefused, Execute,
                  ExecuteRefused, Fail, FailRefused, Finalize, FinalizeRefused, Confirm, Abort
    <3>4. ~ Fault(r)
      BY DEF Fault, ClaimAckLost, BindAckLost, FinalizeAckLost, AbortFails, Crash, StoreError, ConfirmError
    <3>. QED BY <1>1, <3>1, <3>2, <3>3, <3>4 DEF Steps
  <2>. QED BY <2>1 DEF ClaimReplay, Confirm, Persisted, Return, SameOperation, Key, docs,
                        TypeOK, RequestsOK
<1>2. CASE ~ Steps(r)
  <2>1. pc'[r] = pc[r] /\ call'[r] = call[r] /\ reply'[r] = reply[r]
    <3>1. ASSUME NEW s \in Requests, Steps(s)
          PROVE  pc'[r] = pc[r] /\ call'[r] = call[r] /\ reply'[r] = reply[r]
      BY <1>2, <3>1, OthersStay
    <3>. QED BY <3>1, EnvironmentStays DEF Next, Steps
  <2>2. Key(r) \in Keys /\ Key(r)' = Key(r)
    BY <2>1, WorkingCall DEF TypeOK, Key
  <2>3. cycle[Key(r)].status = "finalized"
    BY <2>1 DEF RepliesAgree
  <2>. QED BY <2>1, <2>2, <2>3, FinalizedStep DEF RepliesAgree
<1>. QED BY <1>1, <1>2

\* Whoever gets a result under a key, the first caller, a retry or a waiter, gets
\* the one recorded there, and for the same operation.
THEOREM OneAnswer == Spec => []RepliesAgree
<1>1. Init => RepliesAgree
  BY DEF Init, RepliesAgree
<1>. QED BY <1>1, RepliesAgreeStep, TypeCorrect, PTL DEF Spec

-----------------------------------------------------------------------------
(* Nothing written is lost *)

\* While a request owns its claim, nobody else writes the task or that cycle.
LEMMA OwnedStays ==
  ASSUME TypeOK, ClaimIsActive, [Next]_vars, NEW r \in Requests, NEW k \in Keys,
         ~ Steps(r), cycle[k].status = "claimed", cycle[k].owner = r,
         cycle'[k].status = "claimed", cycle'[k].owner = r
  PROVE  UNCHANGED doc /\ cycle'[k] = cycle[k]
<1>. USE DEF TypeOK, StoreOK
<1>1. doc.active_cycle = k /\ k # NoKey
  BY KeysAssumption DEF ClaimIsActive
<1>2. ASSUME NEW s \in Requests, RequestWrites(s), s # r
      PROVE  UNCHANGED doc /\ cycle'[k] = cycle[k]
  <2>1. Key(s) \in Keys
    BY <1>2, WriterKey
  <2>2. Key(s) # k => cycle[Key(s)].status # "claimed"
    BY <1>1, <2>1 DEF ClaimIsActive
  <2>3. ~ TakeOver(s)
    BY <1>2, <2>1, <2>2 DEF TakeOver, ClaimDoc, ExpiredFor
  <2>4. ~ TakeFresh(s)
    BY <1>1, <2>1, <1>2 DEF TakeFresh, CyclesAfterClaim, ClaimDoc, Absent
  <2>5. ~ BindIntent(s) /\ ~ Commit(s)
    BY <1>2, <2>1, <2>2 DEF BindIntent, CanBind, Commit, CanFinalize, Owns
  <2>6. CASE ReleaseClaim(s)
    <3>1. cycle[Key(s)].owner # s
      BY <1>2, <2>1, <2>2, OwnerOwns
    <3>. QED BY <2>6, <3>1 DEF ReleaseClaim
  <2>. QED BY <1>2, <2>3, <2>4, <2>5, <2>6 DEF RequestWrites, TakesClaim
<1>3. ~ DirectWrites
  BY <1>1, DirectWritesOutside
<1>. QED BY <1>2, <1>3, StoreSteps

\* The intent a request executes is the one its claim carries.
HeldBound ==
  \A r \in Requests : pc[r] = "executing" /\ Owns(r) => held[r].intent = cycle[Key(r)].intent

\* FreshSnapshot, for one request.
Fresh(r) ==
  LET p == pending[r] IN
  /\ p.doc.task = p.result.task
  /\ p.doc.task.version = doc.task.version + 1
  /\ p.doc.cycle_count = doc.cycle_count + 1
  /\ p.doc.evidence = doc.evidence \cup p.result.evidence
  /\ p.intent \in {NoIntent, cycle[Key(r)].intent}

\* What is executed is one action on the document as it is.
LEMMA ExecutedIsFresh ==
  ASSUME TypeOK, HeldBound, NEW r \in Requests, NEW o \in Outcomes, Execute(r, o), Owns(r)
  PROVE  Fresh(r)'
<1>. USE DEF TypeOK, StoreOK, TaskDocOK
<1>. DEFINE i == held[r].intent
            b == Applied(doc, i, o)
<1>1. i \in Intents /\ o \in CycleOutcomes /\ doc \in TaskDocs
  BY OutcomesAssumption DEF Execute, RequestsOK, LocalsOK
<1>2. b \in TaskDocs /\ b.cycle_count = doc.cycle_count
  BY <1>1, AppliedType
<1>3. /\ Closed(b).task = b.task /\ Closed(b).evidence = b.evidence
      /\ Closed(b).cycle_count = doc.cycle_count + 1
  BY <1>2, ClosedType
<1>4. b.task = TaskAfter(doc, i, o) /\ b.evidence = doc.evidence \cup EvidenceFrom(doc, i, o)
  BY <1>1 DEF Applied, TaskDocs
<1>5. TaskAfter(doc, i, o).version = doc.task.version + 1
  BY <1>1 DEF TaskAfter, Admitted, TaskDocs, Tasks
<1>6. pending'[r] = [doc |-> Closed(b), result |-> AppliedResult(doc, i, o), intent |-> i]
  BY DEF Execute, RequestsOK
<1>7. i = cycle[Key(r)].intent /\ UNCHANGED <<doc, cycle, call>>
  BY DEF Execute, HeldBound, docs
<1>. HIDE DEF b
<1>. QED BY <1>3, <1>4, <1>5, <1>6, <1>7 DEF Fresh, AppliedResult, Key

\* And so is what is refused.
LEMMA FailedIsFresh ==
  ASSUME TypeOK, NEW r \in Requests, Fail(r)
  PROVE  Fresh(r)'
<1>. USE DEF TypeOK, StoreOK, TaskDocOK
<1>1. doc \in TaskDocs
  OBVIOUS
<1>2. /\ Closed(Denied(doc)).task = Denied(doc).task
      /\ Closed(Denied(doc)).evidence = doc.evidence
      /\ Closed(Denied(doc)).cycle_count = doc.cycle_count + 1
  BY <1>1, DeniedType, ClosedType
<1>3. Denied(doc).task = TaskDenied(doc.task) /\ TaskDenied(doc.task).version = doc.task.version + 1
  BY <1>1 DEF Denied, TaskDenied, TaskDocs, Tasks
<1>4. /\ pending'[r] = [doc |-> Closed(Denied(doc)), result |-> DeniedResult(doc), intent |-> NoIntent]
      /\ UNCHANGED <<doc, cycle, call>>
  BY DEF Fail, RequestsOK, docs
<1>. QED BY <1>2, <1>3, <1>4 DEF Fresh, DeniedResult, Key

\* How a request comes to its place.
LEMMA ArrivesAt ==
  ASSUME TypeOK, NEW r \in Requests, Steps(r)
  PROVE  /\ pc'[r] = "executing" => Bind(r)
         /\ pc'[r] = "finalizing" => (\E o \in Outcomes : Execute(r, o)) \/ Fail(r)
<1>. USE DEF TypeOK, RequestsOK, Stop, Return, GiveUp, HoldClaim, locals, Stopped
<1>1. CASE Begin(r)
  BY <1>1 DEF Begin
<1>2. CASE Claim(r)
  BY <1>2 DEF Claim, ClaimReplay, ClaimRefused, ClaimWait, ClaimTimesOut, ClaimTakeover,
              ClaimFresh, TakeOver, TakeFresh
<1>3. CASE Transact(r)
  <2>1. CASE \E a \in Actors, action \in Actions : Propose(r, a, action)
    BY <2>1 DEF Propose
  <2>2. CASE CoordinatorDenied(r) \/ Finalize(r)
    BY <2>2 DEF CoordinatorDenied, Finalize
  <2>3. CASE Bind(r)
    BY <2>3 DEF Bind
  <2>4. CASE \E o \in Outcomes : Execute(r, o)
    BY <2>4 DEF Execute
  <2>5. CASE Fail(r)
    BY <2>5 DEF Fail
  <2>6. CASE \/ BindRefused(r) \/ FailRefused(r) \/ FinalizeRefused(r)
             \/ \E o \in Outcomes : ExecuteRefused(r, o)
    BY <2>6 DEF BindRefused, FailRefused, FinalizeRefused, ExecuteRefused
  <2>7. CASE Confirm(r) \/ Abort(r)
    BY <2>7 DEF Confirm, Abort
  <2>. QED BY <1>3, <2>1, <2>2, <2>3, <2>4, <2>5, <2>6, <2>7 DEF Transact
<1>4. CASE Fault(r)
  BY <1>4 DEF Fault, ClaimAckLost, BindAckLost, FinalizeAckLost, AbortFails, Crash, StoreError, ConfirmError
<1>. QED BY <1>1, <1>2, <1>3, <1>4 DEF Steps

\* A request that stays where it is, and owned then and now, still owns the same.
LEMMA StaysOwner ==
  ASSUME TypeOK, ClaimIsActive, [Next]_vars, NEW r \in Requests, ~ Steps(r),
         pc'[r] \in {"executing", "finalizing"}, Owns(r)'
  PROVE  /\ pc'[r] = pc[r] /\ Owns(r) /\ Key(r)' = Key(r)
         /\ held'[r] = held[r] /\ pending'[r] = pending[r]
         /\ UNCHANGED doc /\ cycle'[Key(r)] = cycle[Key(r)]
<1>1. /\ pc'[r] = pc[r] /\ call'[r] = call[r]
      /\ held'[r] = held[r] /\ pending'[r] = pending[r]
  <2>1. ASSUME NEW s \in Requests, Steps(s)
        PROVE  /\ pc'[r] = pc[r] /\ call'[r] = call[r]
               /\ held'[r] = held[r] /\ pending'[r] = pending[r]
    BY <2>1, OthersStay
  <2>. QED BY <2>1, EnvironmentStays DEF Next, Steps
<1>2. Key(r) \in Keys /\ Key(r)' = Key(r)
  BY <1>1, WorkingCall DEF TypeOK, Key, Working, Claimed
<1>3. cycle'[Key(r)].status = "claimed" /\ cycle'[Key(r)].owner = r
  BY <1>2 DEF Owns
<1>4. ~ \E s \in Requests :
          /\ pc[s] = "claiming" /\ Key(s) = Key(r) /\ cycle'[Key(r)].owner = s
          /\ pc'[s] \in Stopped \/ (pc'[s] \in {"proposing", "binding"} /\ call'[s] = call[s])
  BY <1>1, <1>3 DEF Stopped
<1>5. cycle[Key(r)].status = "claimed" /\ cycle[Key(r)].owner = r
  BY <1>2, <1>3, <1>4, OwnerSteps
<1>6. UNCHANGED doc /\ cycle'[Key(r)] = cycle[Key(r)]
  BY <1>2, <1>3, <1>5, OwnedStays
<1>. QED BY <1>1, <1>2, <1>5, <1>6 DEF Owns

LEMMA FreshSnapshotStep ==
  ASSUME TypeOK, ClaimIsActive, HeldBound, FreshSnapshot, [Next]_vars
  PROVE  HeldBound' /\ FreshSnapshot'
<1>1. ASSUME NEW r \in Requests, pc'[r] = "executing", Owns(r)'
      PROVE  held'[r].intent = cycle'[Key(r)'].intent
  <2>1. CASE Steps(r)
    <3>1. Bind(r)
      BY <1>1, <2>1, ArrivesAt
    <3>2. Key(r) \in Keys
      BY <3>1, WorkingCall DEF Bind, BindIntent, TypeOK, Working, Claimed
    <3>. QED BY <3>1, <3>2 DEF Bind, BindIntent, Key, TypeOK, StoreOK, RequestsOK, Holdings, CycleDocs
  <2>2. CASE ~ Steps(r)
    BY <1>1, <2>2, StaysOwner DEF HeldBound
  <2>. QED BY <2>1, <2>2
<1>2. ASSUME NEW r \in Requests, pc'[r] = "finalizing", Owns(r)'
      PROVE  Fresh(r)'
  <2>1. CASE Steps(r)
    <3>1. CASE \E o \in Outcomes : Execute(r, o)
      <4>1. Owns(r)
        BY <1>2, <3>1 DEF Execute, Owns, Key, docs
      <4>. QED BY <3>1, <4>1, ExecutedIsFresh
    <3>2. CASE Fail(r)
      BY <3>2, FailedIsFresh
    <3>. QED BY <1>2, <2>1, <3>1, <3>2, ArrivesAt
  <2>2. CASE ~ Steps(r)
    BY <1>2, <2>2, StaysOwner DEF FreshSnapshot, Fresh
  <2>. QED BY <2>1, <2>2
<1>. QED BY <1>1, <1>2 DEF HeldBound, FreshSnapshot, Fresh

\* What an owner is about to write is one action on the task document as it is,
\* although it read it outside the transaction that writes it (_apply_cycle's
\* unlocked read, _finalize_claim's version check).
THEOREM SnapshotsAreFresh == Spec => []FreshSnapshot
<1>1. Init => HeldBound /\ FreshSnapshot
  BY DEF Init, HeldBound, FreshSnapshot
<1>2. TypeOK /\ ClaimIsActive /\ HeldBound /\ FreshSnapshot /\ [Next]_vars
      => (HeldBound /\ FreshSnapshot)'
  BY FreshSnapshotStep
<1>. QED BY <1>1, <1>2, TypeCorrect, OneClaim, PTL DEF Spec

LEMMA NothingLostStep ==
  ASSUME TypeOK, FreshSnapshot, [Next]_vars
  PROVE  /\ doc.evidence \subseteq doc'.evidence
         /\ doc'.task # doc.task => doc'.task.version = doc.task.version + 1
         /\ doc'.evidence # doc.evidence => doc'.task # doc.task
<1>. USE DEF TypeOK, StoreOK, TaskDocOK
<1>1. doc \in TaskDocs /\ doc.task \in Tasks /\ doc.task.version \in Nat
  BY DEF TaskDocs, Tasks
<1>2. doc.task.version + 1 # doc.task.version
  BY <1>1
<1>3. CASE DirectWrites
  <2>1. /\ doc'.task = [doc.task EXCEPT !.version = doc.task.version + 1]
        /\ doc.evidence \subseteq doc'.evidence
    BY <1>3, DirectWritesOutside
  <2>2. doc'.task.version = doc.task.version + 1
    BY <1>1, <2>1 DEF Tasks
  <2>. QED BY <1>2, <2>1, <2>2
<1>4. ASSUME NEW r \in Requests, RequestWrites(r)
      PROVE  \/ doc'.task = doc.task /\ doc'.evidence = doc.evidence
             \/ /\ doc'.task.version = doc.task.version + 1
                /\ doc.evidence \subseteq doc'.evidence
  <2>1. CASE TakeOver(r) \/ TakeFresh(r)
    BY <1>1, <2>1 DEF TakeOver, TakeFresh, TaskDocs
  <2>2. CASE UNCHANGED doc
    BY <2>2
  <2>3. CASE Commit(r)
    BY <2>3 DEF Commit, CanFinalize, FreshSnapshot
  <2>4. CASE ReleaseClaim(r)
    BY <1>1, <2>4 DEF ReleaseClaim, TaskDocs
  <2>. QED BY <1>4, <2>1, <2>2, <2>3, <2>4 DEF RequestWrites, TakesClaim
<1>5. CASE \E r \in Requests : RequestWrites(r)
  BY <1>2, <1>4, <1>5
<1>. QED BY <1>3, <1>5, StoreSteps

\* No write of the whole task document takes back what another write did: the
\* evidence only grows, and every change of the task or the evidence is told by
\* its version (_finalize_claim and _mutate_task both write the whole document).
THEOREM WritesAreNotLost == Spec => NothingLost
<1>1. TypeOK /\ FreshSnapshot /\ [Next]_vars
      => /\ doc.evidence \subseteq doc'.evidence
         /\ doc'.task # doc.task => doc'.task.version = doc.task.version + 1
         /\ doc'.evidence # doc.evidence => doc'.task # doc.task
  BY NothingLostStep
<1>. QED BY <1>1, TypeCorrect, SnapshotsAreFresh, PTL DEF Spec, NothingLost
=============================================================================
