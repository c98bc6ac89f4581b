-------------------------- MODULE MemoryStoreProofs --------------------------
(***************************************************************************)
(* The one lock of the memory store, for any number of threads, keys and   *)
(* calls.  It is held by the one thread inside an operation; so the record *)
(* a thread is about to keep is still missing, the one it is about to      *)
(* confirm is still there, and a status is never read between two halves   *)
(* of a write.                                                             *)
(***************************************************************************)
EXTENDS MemoryStore, TLAPS

USE ThreadsAssumption, CallsAssumption, DemoActorAssumption, BoundsAssumption,
    DirectAssumption, KeysAssumption, ActorsAssumption, OutcomesAssumption

Calls == [kind : Kinds \cup {"none"}, key : Keys \cup {NoKey}]
Answers == [code : Nat, result : Results \cup {NoResult},
            shown : [task : Tasks, baton : Keys \cup {NoKey}]]
Books == [task : Tasks, evidence : SUBSET Evidence, baton : Keys \cup {NoKey}]

\* A call is known by its thread from its beginning, and so is its intent when it
\* is about to be applied.
CallsMade ==
  /\ call \in [Threads -> Calls] /\ answer \in [Threads -> Answers]
  /\ \A t \in Threads :
       /\ pc[t] # "idle" => call[t] \in CallsOf[t]
       /\ pc[t] = "applying" \/ (pc[t] = "entering" /\ call[t].kind = "apply") =>
            proposal[t] \in Intents
       /\ pc[t] \in Inside \ {"keeping"} => Service(t)
       /\ pc[t] = "keeping" => call[t].kind # "status"

\* The lock keeps the records of the thread inside as it found or left them.
RecordsHeld ==
  \A t \in Threads :
    /\ pc[t] = "keeping" =>
         ~ Recorded(t) /\ pending[t].record.operation = call[t].kind
    /\ pc[t] \in {"emitting", "confirming"} =>
         records[Key(t)] = pending[t].record /\ SameOperation(t)

Whole == (\A t \in Threads : pc[t] # "keeping") => Shown(book) \in committed

MemoryInv ==
  /\ TypeOK /\ CallsMade /\ LockFollowsCalls
  /\ RecordsHeld /\ Whole /\ AnswersAgree /\ StatusIsWhole

-----------------------------------------------------------------------------
(* Data *)

LEMMA AppliedBook ==
  ASSUME NEW b \in Books, NEW i \in Intents, NEW o \in CycleOutcomes
  PROVE  Applied(b, i, o) \in Books /\ AppliedResult(b, i, o) \in Results
<1>1. Admitted(b.task, i) \in Tasks
  <2> DEFINE task == b.task
             state == IF task.state = "QUEUED" THEN "RUNNING" ELSE task.state
             worker == IF Role[i.actor_id] = "worker" /\ task.worker_actor_id = NoActor
                       THEN i.actor_id ELSE task.worker_actor_id
  <2>1. /\ task \in Tasks /\ state \in TaskStates /\ worker \in Actors \cup {NoActor}
        /\ task.version + 1 \in Nat /\ task.tool_actions + 1 \in Nat
    BY DEF Books, Tasks, TaskStates, Intents
  <2>2. Admitted(task, i) = [task EXCEPT !.state = state, !.version = task.version + 1,
                                         !.tool_actions = task.tool_actions + 1,
                                         !.worker_actor_id = worker]
    BY DEF Admitted
  <2> HIDE DEF state, worker, task
  <2>3. Admitted(task, i) \in Tasks
    BY <2>1, <2>2 DEF Tasks
  <2> QED  BY <2>3 DEF task
<1>2. TaskAfter(b, i, o) \in Tasks
  <2> DEFINE task == Admitted(b.task, i)
  <2>1. task.failed_actions + 1 \in Nat /\ o.target \in TaskStates
    BY <1>1 DEF Tasks, CycleOutcomes
  <2>2. [task EXCEPT !.state = o.target] \in Tasks
    BY <1>1, <2>1 DEF Tasks
  <2>3. [task EXCEPT !.state = "NEEDS_OPERATOR",
                     !.failed_actions = task.failed_actions + 1] \in Tasks
    BY <1>1, <2>1 DEF Tasks, TaskStates
  <2> QED  BY <2>2, <2>3 DEF TaskAfter
<1>3. EvidenceFrom(b, i, o) \in SUBSET Evidence
  BY DEF EvidenceFrom, CycleOutcomes
<1> QED  BY <1>2, <1>3 DEF Applied, AppliedResult, Results, Books, CycleOutcomes

\* A denial and the direct writes move the version, and one part each.
LEMMA OtherBooks ==
  ASSUME NEW b \in Books
  PROVE  /\ Denied(b) \in Books /\ DeniedResult(b) \in Results
         /\ \A e \in Evidence : Appended(b, e) \in Books
         /\ \A k \in Keys \cup {NoKey} : BatonSet(b, k) \in Books
<1>1. b.task \in Tasks /\ b.task.version + 1 \in Nat
  BY DEF Books, Tasks
<1>2. TaskDenied(b.task) \in Tasks
  BY <1>1 DEF TaskDenied, Tasks, TaskStates
<1>3. [b.task EXCEPT !.version = b.task.version + 1] \in Tasks
  BY <1>1 DEF Tasks
<1> QED
  BY <1>2, <1>3 DEF Books, Denied, DeniedResult, Results, Appended, BatonSet

LEMMA NothingYet ==
  /\ NewTask \in Tasks /\ NoRecord \in Records /\ NoAnswer \in Answers
  /\ NoCall \in Calls /\ NothingPending \in [baton : Keys \cup {NoKey}, record : Records]
  /\ NoStatus \in [task : Tasks, baton : Keys \cup {NoKey}]
BY DEF NewTask, Tasks, TaskStates, NoRecord, Records, NoAnswer, Answers, NoCall, Calls,
       NothingPending, NoStatus

LEMMA RingOK ==
  ASSUME NEW ring \in Seq(Nat), Len(ring) <= MaxEvents, NEW v \in Nat
  PROVE  Reported(ring, v) \in Seq(Nat) /\ Len(Reported(ring, v)) <= MaxEvents
<1>1. Append(ring, v) \in Seq(Nat) /\ Len(Append(ring, v)) = Len(ring) + 1
  OBVIOUS
<1> QED  BY <1>1 DEF Reported

-----------------------------------------------------------------------------
(* The threads in the lock *)

LEMMA InsideIsHolder ==
  ASSUME MemoryInv, NEW t \in Threads
  PROVE  /\ pc[t] \in Inside <=> holder = t
         /\ holder = NoThread <=> \A s \in Threads : pc[s] \notin Inside
         /\ CanEnter(t) => \A s \in Threads : s # t => pc[s] \notin Inside
         /\ pc[t] \in Inside => \A s \in Threads : s # t => pc[s] \notin Inside
         /\ pc[t] \in Inside => CanEnter(t)
         /\ CanEnter(t) /\ pc[t] \notin Inside => holder = NoThread
         /\ Service(t) => call[t] \in CallsOf[t]
         /\ pc[t] # "idle" => Key(t) \in Keys /\ call[t].kind \in Kinds
<1>1. /\ \A s \in Threads : holder = s <=> pc[s] \in Inside
      /\ holder \in Threads \cup {NoThread}
  BY DEF MemoryInv, TypeOK, StoreOK, LockFollowsCalls
<1>2. pc[t] # "idle" => call[t] \in [kind : Kinds, key : Keys]
  BY DEF MemoryInv, CallsMade
<1>3. Service(t) => call[t] \in CallsOf[t]
  BY DEF MemoryInv, TypeOK, ThreadsOK, Service, NoCall
<1> QED  BY <1>1, <1>2, <1>3 DEF CanEnter, Key

-----------------------------------------------------------------------------
(* Steps *)

LEMMA InitOK == Init => MemoryInv
<1> SUFFICES ASSUME Init PROVE MemoryInv
  OBVIOUS
<1>1. StoreOK
  BY NothingYet DEF Init, StoreOK
<1>2. ThreadsOK
  BY NothingYet DEF Init, ThreadsOK
<1>3. CallsMade
  BY NothingYet DEF Init, CallsMade, Inside
<1>4. LockFollowsCalls
  BY DEF Init, LockFollowsCalls, Inside
<1>5. RecordsHeld /\ AnswersAgree /\ StatusIsWhole
  BY DEF Init, RecordsHeld, AnswersAgree, StatusIsWhole
<1>6. Whole
  BY DEF Init, Whole, Shown, NoStatus
<1> QED  BY <1>1, <1>2, <1>3, <1>4, <1>5, <1>6 DEF MemoryInv, TypeOK

\* A call ends, whether it holds the lock or not.
LEMMA EndKeeps ==
  ASSUME MemoryInv, NEW t \in Threads, pc[t] \notin {"idle", "keeping"},
         NEW code \in Nat, NEW result \in Results \cup {NoResult},
         NEW shown \in [task : Tasks, baton : Keys \cup {NoKey}],
         End(t, code, result, shown), Unwind(t), UNCHANGED <<store, events>>,
         call[t].kind = "status" => shown \in committed,
         call[t].kind # "status" =>
           /\ code \in {200, 409}
           /\ code = 200 => /\ Recorded(t) /\ SameOperation(t)
                            /\ result = records[Key(t)].result
  PROVE  MemoryInv'
<1>1. /\ pc \in [Threads -> {"idle", "entering", "done"} \cup Inside]
      /\ held \in [Threads -> Tasks] /\ proposal \in [Threads -> Intents \cup {NoIntent}]
      /\ pending \in [Threads -> [baton : Keys \cup {NoKey}, record : Records]]
      /\ answer \in [Threads -> Answers] /\ holder \in Threads \cup {NoThread}
      /\ depth \in Nat
  BY DEF MemoryInv, TypeOK, StoreOK, ThreadsOK, CallsMade
<1>2. /\ pc' = [pc EXCEPT ![t] = "done"]
      /\ answer' = [answer EXCEPT ![t] = [code |-> code, result |-> result, shown |-> shown]]
      /\ held' = [held EXCEPT ![t] = NewTask]
      /\ proposal' = [proposal EXCEPT ![t] = NoIntent]
      /\ pending' = [pending EXCEPT ![t] = NothingPending]
      /\ UNCHANGED <<call, book, records, foreign, committed, events>>
  BY DEF End, store
<1>3. holder' \in Threads \cup {NoThread} /\ depth' \in Nat
  BY <1>1 DEF Unwind, lock
<1>4. StoreOK'
  BY <1>2, <1>3 DEF MemoryInv, TypeOK, StoreOK
<1>5. ThreadsOK'
  BY <1>1, <1>2, NothingYet DEF MemoryInv, TypeOK, ThreadsOK
<1>6. CallsMade'
  <2>1. [code |-> code, result |-> result, shown |-> shown] \in Answers
    BY DEF Answers
  <2> QED  BY <1>1, <1>2, <2>1 DEF MemoryInv, CallsMade, Service, Inside
<1>7. LockFollowsCalls'
  <2>1. CASE holder = t
    BY <1>1, <1>2, <2>1 DEF MemoryInv, LockFollowsCalls, Unwind, Inside
  <2>2. CASE holder # t
    BY <1>1, <1>2, <2>2 DEF MemoryInv, LockFollowsCalls, Unwind, Inside, Service, lock
  <2> QED  BY <2>1, <2>2
<1>8. RecordsHeld'
  BY <1>1, <1>2 DEF MemoryInv, RecordsHeld, Recorded, SameOperation, Key
<1>9. Whole'
  BY <1>1, <1>2 DEF MemoryInv, Whole, Shown
<1>10. AnswersAgree'
  <2>1. ASSUME NEW s \in Threads, s # t, pc'[s] = "done", call'[s].kind # "status"
        PROVE  /\ answer'[s] = answer[s] /\ Key(s)' = Key(s) /\ call'[s] = call[s]
               /\ pc[s] = "done"
    BY <1>1, <1>2, <2>1 DEF Key
  <2>2. answer'[t] = [code |-> code, result |-> result, shown |-> shown]
    BY <1>1, <1>2
  <2> QED  BY <1>2, <2>1, <2>2 DEF MemoryInv, AnswersAgree, Recorded, SameOperation, Key
<1>11. StatusIsWhole'
  BY <1>1, <1>2 DEF MemoryInv, StatusIsWhole
<1> QED  BY <1>4, <1>5, <1>6, <1>7, <1>8, <1>9, <1>10, <1>11 DEF MemoryInv, TypeOK

\* A service call goes on inside the lock and writes nothing.
LEMMA MoveKeeps ==
  ASSUME MemoryInv, NEW t \in Threads, NEW l \in Inside \ {"keeping"},
         pc[t] \in Inside \ {"keeping"}, pc' = [pc EXCEPT ![t] = l],
         UNCHANGED <<store, lock, call, held, answer>>,
         NEW i \in Intents \cup {NoIntent}, proposal' = [proposal EXCEPT ![t] = i],
         NEW p \in [baton : Keys \cup {NoKey}, record : Records],
         pending' = [pending EXCEPT ![t] = p],
         l = "applying" => i \in Intents,
         l \in {"emitting", "confirming"} =>
           records[Key(t)] = p.record /\ SameOperation(t),
         events' \in Seq(Nat), Len(events') <= MaxEvents
  PROVE  MemoryInv'
<1>1. /\ pc \in [Threads -> {"idle", "entering", "done"} \cup Inside]
      /\ proposal \in [Threads -> Intents \cup {NoIntent}]
      /\ pending \in [Threads -> [baton : Keys \cup {NoKey}, record : Records]]
  BY DEF MemoryInv, TypeOK, ThreadsOK
<1>2. UNCHANGED <<book, records, foreign, committed, holder, depth, call, held, answer>>
  BY DEF store, lock
<1>3. StoreOK'
  BY <1>2 DEF MemoryInv, TypeOK, StoreOK
<1>4. ThreadsOK'
  BY <1>1, <1>2 DEF MemoryInv, TypeOK, ThreadsOK
<1>5. CallsMade'
  BY <1>1, <1>2 DEF MemoryInv, CallsMade, Service, Inside
<1>6. LockFollowsCalls'
  BY <1>1, <1>2 DEF MemoryInv, LockFollowsCalls, Service
<1>7. RecordsHeld'
  BY <1>1, <1>2 DEF MemoryInv, RecordsHeld, Recorded, SameOperation, Key
<1>8. Whole'
  BY <1>1, <1>2 DEF MemoryInv, Whole, Shown
<1>9. AnswersAgree' /\ StatusIsWhole'
  BY <1>1, <1>2 DEF MemoryInv, AnswersAgree, StatusIsWhole, Key, Inside
<1> QED  BY <1>3, <1>4, <1>5, <1>6, <1>7, <1>8, <1>9 DEF MemoryInv, TypeOK

\* What a call can be answered with.
LEMMA AnswerTypes ==
  ASSUME MemoryInv, NEW t \in Threads, pc[t] # "idle"
  PROVE  /\ records[Key(t)].result \in Results \cup {NoResult}
         /\ pending[t].record.result \in Results \cup {NoResult}
         /\ Shown(book) \in [task : Tasks, baton : Keys \cup {NoKey}]
         /\ records[Key(t)] \in Records /\ pending[t].record \in Records
         /\ SameOperation(t) => Recorded(t)
<1>1. /\ records \in [Keys -> Records] /\ Key(t) \in Keys
      /\ pending \in [Threads -> [baton : Keys \cup {NoKey}, record : Records]]
      /\ book \in Books /\ call[t].kind \in Kinds
  BY InsideIsHolder DEF MemoryInv, TypeOK, StoreOK, ThreadsOK, Books
<1> QED
  BY <1>1 DEF Records, Shown, Books, SameOperation, Recorded, NoRecord, Kinds

LEMMA ReplayKeeps ==
  ASSUME MemoryInv, NEW t \in Threads, Replay(t)
  PROVE  MemoryInv'
<1>1. /\ pc[t] = "entering" /\ call[t].kind # "status" /\ holder # t
      /\ End(t, 200, records[Key(t)].result, NoStatus)
  BY InsideIsHolder DEF Replay, LookUp, Service, Answered, Inside
<1> QED  BY <1>1, AnswerTypes, NothingYet, EndKeeps DEF Replay, Unwind, lock

LEMMA RefusedKeeps ==
  ASSUME MemoryInv, NEW t \in Threads, Refused(t), UNCHANGED <<store, events>>,
         pc[t] \notin {"idle", "keeping"}, call[t].kind # "status"
  PROVE  MemoryInv'
BY NothingYet, EndKeeps DEF Refused

LEMMA LookUpRefusedKeeps ==
  ASSUME MemoryInv, NEW t \in Threads, LookUpRefused(t)
  PROVE  MemoryInv'
BY RefusedKeeps DEF LookUpRefused, LookUp, Service

\* Whoever applies does not read the status.
LEMMA ApplyingIs ==
  ASSUME MemoryInv, NEW t \in Threads, Applying(t)
  PROVE  /\ pc[t] \in {"entering", "applying"} /\ call[t].kind # "status"
         /\ proposal[t] \in Intents
         /\ pc[t] = "applying" <=> Service(t)
         /\ pc[t] = "entering" => holder = NoThread
<1>1. CASE pc[t] = "applying"
  <2>1. pc[t] \in Inside \ {"keeping"}
    BY <1>1 DEF Inside
  <2>2. Service(t) /\ proposal[t] \in Intents
    BY <1>1, <2>1 DEF MemoryInv, CallsMade
  <2> QED  BY <1>1, <2>2 DEF Service
<1>2. CASE pc[t] = "entering" /\ call[t].kind = "apply" /\ CanEnter(t)
  BY <1>2, InsideIsHolder DEF MemoryInv, CallsMade, Service, Inside
<1> QED  BY <1>1, <1>2 DEF Applying

LEMMA ApplyReplayKeeps ==
  ASSUME MemoryInv, NEW t \in Threads, ApplyReplay(t)
  PROVE  MemoryInv'
<1>1. CASE Service(t)
  <2> DEFINE p == [pending[t] EXCEPT !.record = records[Key(t)]]
  <2>1. /\ pc[t] = "applying" /\ pending' = [pending EXCEPT ![t] = p]
        /\ pc' = [pc EXCEPT ![t] = "emitting"]
        /\ UNCHANGED <<call, held, proposal, answer, store, lock, events>>
        /\ SameOperation(t)
    BY <1>1, ApplyingIs DEF ApplyReplay
  <2>2. /\ pending[t] \in [baton : Keys \cup {NoKey}, record : Records]
        /\ proposal \in [Threads -> Intents \cup {NoIntent}]
    BY DEF MemoryInv, TypeOK, ThreadsOK
  <2>3. p \in [baton : Keys \cup {NoKey}, record : Records] /\ p.record = records[Key(t)]
    BY <2>1, <2>2, AnswerTypes
  <2>4. proposal' = [proposal EXCEPT ![t] = proposal[t]] /\ proposal[t] \in Intents \cup {NoIntent}
    BY <2>1, <2>2
  <2>5. events' \in Seq(Nat) /\ Len(events') <= MaxEvents
    BY <2>1 DEF MemoryInv, TypeOK, StoreOK
  <2>6. "emitting" \in Inside \ {"keeping"} /\ pc[t] \in Inside \ {"keeping"}
    BY <2>1 DEF Inside
  <2> HIDE DEF p
  <2>7. \A l \in Inside \ {"keeping"} : l = "emitting" => MemoryInv'
    BY <2>1, <2>3, <2>4, <2>5, <2>6, MoveKeeps
  <2> QED  BY <2>6, <2>7
<1>2. CASE ~ Service(t)
  <2>1. /\ pc[t] = "entering" /\ call[t].kind # "status" /\ holder = NoThread
        /\ End(t, 200, records[Key(t)].result, NoStatus)
        /\ UNCHANGED <<store, lock, events>> /\ Recorded(t) /\ SameOperation(t)
    BY <1>2, ApplyingIs DEF ApplyReplay, Answered
  <2> QED  BY <2>1, AnswerTypes, NothingYet, EndKeeps DEF Unwind, lock
<1> QED  BY <1>1, <1>2

LEMMA ApplyRefusedKeeps ==
  ASSUME MemoryInv, NEW t \in Threads, ApplyRefused(t)
  PROVE  MemoryInv'
BY RefusedKeeps, ApplyingIs DEF ApplyRefused

LEMMA FailRefusedKeeps ==
  ASSUME MemoryInv, NEW t \in Threads, FailRefused(t)
  PROVE  MemoryInv'
<1>1. pc[t] = "failing" /\ call[t].kind # "status"
  BY DEF FailRefused, MemoryInv, CallsMade, Service, Inside
<1>2. CASE Recorded(t) /\ SameOperation(t)
  <2> DEFINE p == [pending[t] EXCEPT !.record = records[Key(t)]]
  <2>1. /\ pending' = [pending EXCEPT ![t] = p] /\ pc' = [pc EXCEPT ![t] = "confirming"]
        /\ UNCHANGED <<call, held, proposal, answer, store, lock, events>>
    BY <1>2 DEF FailRefused
  <2>2. /\ pending[t] \in [baton : Keys \cup {NoKey}, record : Records]
        /\ proposal \in [Threads -> Intents \cup {NoIntent}]
    BY DEF MemoryInv, TypeOK, ThreadsOK
  <2>3. p \in [baton : Keys \cup {NoKey}, record : Records] /\ p.record = records[Key(t)]
    BY <1>1, <2>2, AnswerTypes
  <2>4. proposal' = [proposal EXCEPT ![t] = proposal[t]] /\ proposal[t] \in Intents \cup {NoIntent}
    BY <2>1, <2>2
  <2>5. events' \in Seq(Nat) /\ Len(events') <= MaxEvents
    BY <2>1 DEF MemoryInv, TypeOK, StoreOK
  <2> HIDE DEF p
  <2>6. "confirming" \in Inside \ {"keeping"} /\ pc[t] \in Inside \ {"keeping"}
    BY <1>1 DEF Inside
  <2>7. \A l \in Inside \ {"keeping"} : l = "confirming" => MemoryInv'
    BY <1>1, <1>2, <2>1, <2>3, <2>4, <2>5, <2>6, MoveKeeps
  <2> QED  BY <2>6, <2>7
<1>3. CASE ~ (Recorded(t) /\ SameOperation(t))
  BY <1>1, <1>3, RefusedKeeps DEF FailRefused
<1> QED  BY <1>2, <1>3

LEMMA ConfirmKeeps ==
  ASSUME MemoryInv, NEW t \in Threads, Confirm(t)
  PROVE  MemoryInv'
<1>1. /\ pc[t] = "confirming" /\ call[t].kind # "status" /\ SameOperation(t)
      /\ records[Key(t)] = pending[t].record
  BY DEF Confirm, MemoryInv, CallsMade, RecordsHeld, Service, Inside
<1>2. Recorded(t) /\ End(t, 200, pending[t].record.result, NoStatus)
  BY <1>1, AnswerTypes DEF Confirm, Answered
<1> QED  BY <1>1, <1>2, AnswerTypes, NothingYet, EndKeeps DEF Confirm

LEMMA StatusKeeps ==
  ASSUME MemoryInv, NEW t \in Threads, Status(t)
  PROVE  MemoryInv'
<1>1. /\ pc[t] = "entering" /\ call[t].kind = "status" /\ holder = NoThread
      /\ End(t, 200, NoResult, Shown(book)) /\ UNCHANGED <<store, lock, events>>
  BY InsideIsHolder DEF Status, Inside
<1>2. Shown(book) \in committed
  BY <1>1, InsideIsHolder DEF MemoryInv, Whole, Inside
<1> QED  BY <1>1, <1>2, AnswerTypes, EndKeeps DEF Unwind, lock

\* A step inside that keeps what is pending.
LEMMA ProposeKeeps ==
  ASSUME MemoryInv, NEW t \in Threads, NEW a \in Actors, NEW action \in Actions,
         Propose(t, a, action)
  PROVE  MemoryInv'
<1> DEFINE i == [actor_id |-> a, action |-> action, expected_version |-> held[t].version]
<1>1. /\ pending \in [Threads -> [baton : Keys \cup {NoKey}, record : Records]]
      /\ held[t] \in Tasks
      /\ events \in Seq(Nat) /\ Len(events) <= MaxEvents
  BY DEF MemoryInv, TypeOK, StoreOK, ThreadsOK
<1>2. i \in Intents
  BY <1>1 DEF Intents, Tasks
<1>3. /\ pc[t] = "proposing" /\ pc' = [pc EXCEPT ![t] = "applying"]
      /\ proposal' = [proposal EXCEPT ![t] = i]
      /\ UNCHANGED <<store, lock, call, held, answer, pending, events>>
  BY DEF Propose
<1>4. pending' = [pending EXCEPT ![t] = pending[t]]
      /\ pending[t] \in [baton : Keys \cup {NoKey}, record : Records]
  BY <1>1, <1>3
<1> HIDE DEF i
<1>5. "applying" \in Inside \ {"keeping"} /\ pc[t] \in Inside \ {"keeping"}
  BY <1>3 DEF Inside
<1>6. \A l \in Inside \ {"keeping"} : l = "applying" => MemoryInv'
  BY <1>1, <1>2, <1>3, <1>4, <1>5, MoveKeeps
<1> QED  BY <1>5, <1>6

LEMMA CoordinatorDeniedKeeps ==
  ASSUME MemoryInv, NEW t \in Threads, CoordinatorDenied(t)
  PROVE  MemoryInv'
<1>1. /\ pending \in [Threads -> [baton : Keys \cup {NoKey}, record : Records]]
      /\ proposal \in [Threads -> Intents \cup {NoIntent}]
      /\ events \in Seq(Nat) /\ Len(events) <= MaxEvents
  BY DEF MemoryInv, TypeOK, StoreOK, ThreadsOK
<1>2. /\ pc[t] = "proposing" /\ pc' = [pc EXCEPT ![t] = "failing"]
      /\ UNCHANGED <<store, lock, call, held, answer, proposal, pending, events>>
  BY DEF CoordinatorDenied, locals
<1>3. /\ pending' = [pending EXCEPT ![t] = pending[t]]
      /\ proposal' = [proposal EXCEPT ![t] = proposal[t]]
  BY <1>1, <1>2
<1>4. "failing" \in Inside \ {"keeping"} /\ pc[t] \in Inside \ {"keeping"}
  BY <1>2 DEF Inside
<1>5. \A l \in Inside \ {"keeping"} : l = "failing" => MemoryInv'
  BY <1>1, <1>2, <1>3, <1>4, MoveKeeps
<1> QED  BY <1>4, <1>5

LEMMA EmitKeeps ==
  ASSUME MemoryInv, NEW t \in Threads, Emit(t)
  PROVE  MemoryInv'
<1>1. /\ pending \in [Threads -> [baton : Keys \cup {NoKey}, record : Records]]
      /\ proposal \in [Threads -> Intents \cup {NoIntent}]
      /\ events \in Seq(Nat) /\ Len(events) <= MaxEvents
  BY DEF MemoryInv, TypeOK, StoreOK, ThreadsOK
<1>2. /\ pc[t] = "emitting" /\ pc' = [pc EXCEPT ![t] = "confirming"]
      /\ UNCHANGED <<store, lock, call, held, answer, proposal, pending>>
      /\ events' = Reported(events, pending[t].record.result.task.version)
  BY DEF Emit, locals
<1>3. /\ pending' = [pending EXCEPT ![t] = pending[t]]
      /\ proposal' = [proposal EXCEPT ![t] = proposal[t]]
  BY <1>1, <1>2
<1>4. pending[t].record.result.task.version \in Nat
  BY <1>2, AnswerTypes DEF Results, NoResult, NewTask, Tasks
<1>5. events' \in Seq(Nat) /\ Len(events') <= MaxEvents
  BY <1>1, <1>2, <1>4, RingOK
<1>6. records[Key(t)] = pending[t].record /\ SameOperation(t)
  BY <1>2 DEF MemoryInv, RecordsHeld
<1>7. "confirming" \in Inside \ {"keeping"} /\ pc[t] \in Inside \ {"keeping"}
  BY <1>2 DEF Inside
<1>8. \A l \in Inside \ {"keeping"} : l = "confirming" => MemoryInv'
  BY <1>1, <1>2, <1>3, <1>5, <1>6, <1>7, MoveKeeps
<1> QED  BY <1>7, <1>8

LEMMA BeginKeeps ==
  ASSUME MemoryInv, NEW t \in Threads, Begin(t)
  PROVE  MemoryInv'
<1> PICK c \in CallsOf[t] :
      /\ call' = [call EXCEPT ![t] = c]
      /\ IF c.kind = "apply"
         THEN \E d \in DirectIntents :
                proposal' = [proposal EXCEPT ![t] =
                  [actor_id |-> d.actor_id, action |-> d.action,
                   expected_version |-> book.task.version]]
         ELSE UNCHANGED proposal
  BY DEF Begin
<1>1. /\ pc \in [Threads -> {"idle", "entering", "done"} \cup Inside]
      /\ proposal \in [Threads -> Intents \cup {NoIntent}]
      /\ call \in [Threads -> Calls] /\ c \in Calls /\ book.task.version \in Nat
      /\ holder # t
  BY InsideIsHolder
     DEF MemoryInv, TypeOK, StoreOK, ThreadsOK, CallsMade, Calls, Begin, Inside, Tasks
<1>2. /\ pc[t] = "idle" /\ pc' = [pc EXCEPT ![t] = "entering"]
      /\ UNCHANGED <<book, records, foreign, committed, holder, depth, events, held,
                     pending, answer>>
  BY DEF Begin, store, lock
<1>3. /\ proposal' \in [Threads -> Intents \cup {NoIntent}]
      /\ \A s \in Threads : s # t => proposal'[s] = proposal[s]
      /\ c.kind = "apply" => proposal'[t] \in Intents
  <2>1. CASE c.kind = "apply"
    <3> PICK d \in DirectIntents :
          proposal' = [proposal EXCEPT ![t] =
            [actor_id |-> d.actor_id, action |-> d.action,
             expected_version |-> book.task.version]]
      BY <2>1
    <3> DEFINE i == [actor_id |-> d.actor_id, action |-> d.action,
                     expected_version |-> book.task.version]
    <3>1. i \in Intents
      BY <1>1 DEF Intents
    <3> HIDE DEF i
    <3> QED  BY <1>1, <3>1 DEF i
  <2> QED  BY <1>1, <2>1
<1>4. StoreOK'
  BY <1>2 DEF MemoryInv, TypeOK, StoreOK
<1>5. ThreadsOK'
  BY <1>1, <1>2, <1>3 DEF MemoryInv, TypeOK, ThreadsOK
<1>6. CallsMade'
  BY <1>1, <1>2, <1>3 DEF MemoryInv, CallsMade, Service, Inside
<1>7. LockFollowsCalls'
  BY <1>1, <1>2 DEF MemoryInv, LockFollowsCalls, Service, Inside
<1>8. RecordsHeld'
  BY <1>1, <1>2 DEF MemoryInv, RecordsHeld, Recorded, SameOperation, Key
<1>9. Whole'
  BY <1>1, <1>2 DEF MemoryInv, Whole, Shown
<1>10. AnswersAgree' /\ StatusIsWhole'
  BY <1>1, <1>2 DEF MemoryInv, AnswersAgree, StatusIsWhole, Key
<1> QED  BY <1>4, <1>5, <1>6, <1>7, <1>8, <1>9, <1>10 DEF MemoryInv, TypeOK

\* A service call enters to stay.
LEMMA OpenKeeps ==
  ASSUME MemoryInv, NEW t \in Threads, Open(t)
  PROVE  MemoryInv'
<1> DEFINE i == IF call[t].kind = "breaker"
                THEN [actor_id |-> DemoActor, action |-> "record_progress",
                      expected_version |-> book.task.version]
                ELSE NoIntent
           l == IF call[t].kind = "breaker" THEN "applying" ELSE "proposing"
<1>1. /\ pc \in [Threads -> {"idle", "entering", "done"} \cup Inside]
      /\ proposal \in [Threads -> Intents \cup {NoIntent}]
      /\ held \in [Threads -> Tasks] /\ book.task \in Tasks
  BY DEF MemoryInv, TypeOK, StoreOK, ThreadsOK
<1>2. /\ pc[t] = "entering" /\ Service(t) /\ holder = NoThread /\ depth = 0
      /\ \A s \in Threads : pc[s] \notin Inside
  BY InsideIsHolder DEF Open, LookUp, Inside, MemoryInv, LockFollowsCalls
<1>3. /\ pc' = [pc EXCEPT ![t] = l] /\ proposal' = [proposal EXCEPT ![t] = i]
      /\ held' = [held EXCEPT ![t] = book.task] /\ holder' = t /\ depth' = 1
      /\ UNCHANGED <<book, records, foreign, committed, events, call, pending, answer>>
  BY <1>2 DEF Open, Enter, store
<1>4. l \in {"applying", "proposing"} /\ i \in Intents \cup {NoIntent}
      /\ (l = "applying" => i \in Intents)
  BY <1>1 DEF Intents, Actions, Tasks
<1> HIDE DEF i, l
<1>5. StoreOK'
  BY <1>3 DEF MemoryInv, TypeOK, StoreOK
<1>6. ThreadsOK'
  BY <1>1, <1>3, <1>4 DEF MemoryInv, TypeOK, ThreadsOK, Inside
<1>7. CallsMade'
  BY <1>1, <1>2, <1>3, <1>4 DEF MemoryInv, CallsMade, Service, Inside
<1>8. LockFollowsCalls'
  BY <1>1, <1>2, <1>3, <1>4 DEF MemoryInv, LockFollowsCalls, Service, Inside
<1>9. RecordsHeld'
  BY <1>1, <1>3, <1>4 DEF MemoryInv, RecordsHeld, Recorded, SameOperation, Key
<1>10. Whole'
  BY <1>1, <1>2, <1>3, <1>4 DEF MemoryInv, Whole, Shown, Inside
<1>11. AnswersAgree' /\ StatusIsWhole'
  BY <1>1, <1>3, <1>4 DEF MemoryInv, AnswersAgree, StatusIsWhole, Key
<1> QED  BY <1>5, <1>6, <1>7, <1>8, <1>9, <1>10, <1>11 DEF MemoryInv, TypeOK

\* The first half of an effect: the lock is entered, once more if it is held.
LEMMA WriteKeeps ==
  ASSUME MemoryInv, NEW t \in Threads, NEW b \in Books, NEW i \in Intents \cup {NoIntent},
         NEW r \in Results, Write(t, b, i, r), ~ Recorded(t),
         pc[t] \in {"entering", "applying", "failing"}, Service(t) <=> pc[t] # "entering",
         call[t].kind # "status"
  PROVE  MemoryInv'
<1> DEFINE record == [operation |-> call[t].kind, intent |-> i, result |-> r]
           p == [baton |-> b.baton, record |-> record]
<1>1. /\ pc \in [Threads -> {"idle", "entering", "done"} \cup Inside]
      /\ pending \in [Threads -> [baton : Keys \cup {NoKey}, record : Records]]
      /\ book \in Books /\ CanEnter(t) /\ call[t].kind \in Kinds
  BY InsideIsHolder DEF MemoryInv, TypeOK, StoreOK, ThreadsOK, Books, Write, Enter
<1>2. /\ pc' = [pc EXCEPT ![t] = "keeping"] /\ pending' = [pending EXCEPT ![t] = p]
      /\ book' = [book EXCEPT !.task = b.task, !.evidence = b.evidence]
      /\ holder' = t /\ depth' = depth + 1
      /\ UNCHANGED <<records, foreign, committed, events, call, held, proposal, answer>>
  BY DEF Write, Enter
<1>3. record \in Records /\ record.operation = call[t].kind
  BY <1>1 DEF Records
<1> HIDE DEF record
<1>4. p \in [baton : Keys \cup {NoKey}, record : Records] /\ p.record = record
  BY <1>3 DEF Books
<1> HIDE DEF p
<1>5. book' \in Books
  BY <1>1, <1>2 DEF Books
<1>6. \A s \in Threads : s # t => pc[s] \notin Inside
  BY <1>1, InsideIsHolder
<1>7. depth = IF Service(t) THEN 1 ELSE 0
  BY <1>1, InsideIsHolder DEF MemoryInv, LockFollowsCalls, Inside
<1>8. StoreOK'
  BY <1>2, <1>5, <1>7 DEF MemoryInv, TypeOK, StoreOK, Books
<1>9. ThreadsOK'
  BY <1>1, <1>2, <1>4 DEF MemoryInv, TypeOK, ThreadsOK, Inside
<1>10. CallsMade'
  BY <1>1, <1>2 DEF MemoryInv, CallsMade, Service
<1>11. LockFollowsCalls'
  BY <1>1, <1>2, <1>6, <1>7 DEF MemoryInv, LockFollowsCalls, Service, Inside
<1>12. RecordsHeld'
  BY <1>1, <1>2, <1>3, <1>4
     DEF MemoryInv, RecordsHeld, Recorded, SameOperation, Key
<1>13. Whole'
  BY <1>1, <1>2 DEF Whole
<1>14. AnswersAgree' /\ StatusIsWhole'
  BY <1>1, <1>2 DEF MemoryInv, AnswersAgree, StatusIsWhole, Key
<1> QED  BY <1>8, <1>9, <1>10, <1>11, <1>12, <1>13, <1>14 DEF MemoryInv, TypeOK

LEMMA ApplyKeeps ==
  ASSUME MemoryInv, NEW t \in Threads, NEW o \in Outcomes, Apply(t, o)
  PROVE  MemoryInv'
<1>1. book \in Books /\ proposal[t] \in Intents /\ Stored(o) \in CycleOutcomes
  BY ApplyingIs DEF MemoryInv, TypeOK, StoreOK, Books, Apply, Stored
<1>2. /\ Applied(book, proposal[t], Stored(o)) \in Books
      /\ AppliedResult(book, proposal[t], Stored(o)) \in Results
  BY <1>1, AppliedBook
<1>3. pc[t] \in {"entering", "applying"} /\ (Service(t) <=> pc[t] # "entering")
  BY ApplyingIs DEF Apply
<1> QED  BY <1>1, <1>2, <1>3, ApplyingIs, WriteKeeps DEF Apply

LEMMA FailKeeps ==
  ASSUME MemoryInv, NEW t \in Threads, Fail(t)
  PROVE  MemoryInv'
<1>1. Denied(book) \in Books /\ DeniedResult(book) \in Results
  BY OtherBooks DEF MemoryInv, TypeOK, StoreOK, Books
<1>2. pc[t] = "failing" /\ Service(t)
  BY DEF Fail, MemoryInv, CallsMade, Inside
<1> QED  BY <1>1, <1>2, WriteKeeps DEF Fail, Service

\* The second half: the lock is left once, for good if the call has no more to do.
LEMMA KeepKeeps ==
  ASSUME MemoryInv, NEW t \in Threads, Keep(t)
  PROVE  MemoryInv'
<1> DEFINE record == pending[t].record
           answered == [code |-> 200, result |-> record.result, shown |-> NoStatus]
<1>1. /\ pc \in [Threads -> {"idle", "entering", "done"} \cup Inside]
      /\ held \in [Threads -> Tasks] /\ proposal \in [Threads -> Intents \cup {NoIntent}]
      /\ pending \in [Threads -> [baton : Keys \cup {NoKey}, record : Records]]
      /\ records \in [Keys -> Records] /\ answer \in [Threads -> Answers]
      /\ book \in Books
  BY DEF MemoryInv, TypeOK, StoreOK, ThreadsOK, CallsMade, Books
<1>2. /\ pc[t] = "keeping" /\ holder = t /\ Key(t) \in Keys /\ call[t].kind \in Kinds
      /\ \A s \in Threads : s # t => pc[s] \notin Inside
  BY InsideIsHolder DEF Keep, Inside
<1>3. depth = IF Service(t) THEN 2 ELSE 1
  BY <1>2 DEF MemoryInv, LockFollowsCalls
<1>4. /\ record \in Records /\ record.operation = call[t].kind /\ ~ Recorded(t)
      /\ record.result \in Results \cup {NoResult}
  BY <1>1, <1>2 DEF MemoryInv, RecordsHeld, Records
<1>5. /\ book' = [book EXCEPT !.baton = pending[t].baton]
      /\ records' = [records EXCEPT ![Key(t)] = record]
      /\ committed' = committed \cup {Shown(book')}
      /\ holder' = (IF Service(t) THEN t ELSE NoThread)
      /\ depth' = (IF Service(t) THEN 1 ELSE 0)
      /\ UNCHANGED <<foreign, events, call>>
  BY <1>2, <1>3 DEF Keep, Leave, Answered, End, locals
<1>6. CASE Service(t)
  <2> DEFINE l == IF record.intent = NoIntent THEN "confirming" ELSE "emitting"
  <2>1. /\ pc' = [pc EXCEPT ![t] = l] /\ UNCHANGED <<held, proposal, pending, answer>>
    BY <1>6 DEF Keep, locals
  <2>2. l \in {"confirming", "emitting"}
    OBVIOUS
  <2> HIDE DEF l, record
  <2>3. StoreOK'
    BY <1>1, <1>2, <1>4, <1>5 DEF MemoryInv, TypeOK, StoreOK, Books
  <2>4. ThreadsOK'
    BY <1>1, <1>5, <2>1, <2>2 DEF MemoryInv, TypeOK, ThreadsOK, Inside
  <2>5. CallsMade'
    BY <1>1, <1>2, <1>5, <1>6, <2>1, <2>2 DEF MemoryInv, CallsMade, Service, Inside
  <2>6. LockFollowsCalls'
    BY <1>1, <1>2, <1>5, <1>6, <2>1, <2>2 DEF MemoryInv, LockFollowsCalls, Service, Inside
  <2>7. RecordsHeld'
    <3> SUFFICES ASSUME NEW s \in Threads
                 PROVE  /\ pc'[s] # "keeping"
                        /\ pc'[s] \in {"emitting", "confirming"} =>
                             records'[Key(s)'] = pending'[s].record /\ SameOperation(s)'
      BY DEF RecordsHeld
    <3>1. CASE s = t
      BY <1>1, <1>2, <1>4, <1>5, <2>1, <2>2, <3>1 DEF SameOperation, Key, record
    <3>2. CASE s # t
      BY <1>1, <1>2, <2>1, <3>2 DEF Inside
    <3> QED  BY <3>1, <3>2
  <2>8. Whole'
    BY <1>5 DEF Whole
  <2>9. AnswersAgree'
    BY <1>1, <1>2, <1>4, <1>5, <2>1, <2>2 DEF MemoryInv, AnswersAgree, Recorded, Key
  <2>10. StatusIsWhole'
    BY <1>1, <1>5, <2>1, <2>2 DEF MemoryInv, StatusIsWhole
  <2> QED
    BY <2>3, <2>4, <2>5, <2>6, <2>7, <2>8, <2>9, <2>10 DEF MemoryInv, TypeOK
<1>7. CASE ~ Service(t)
  <2>1. /\ pc' = [pc EXCEPT ![t] = "done"] /\ held' = [held EXCEPT ![t] = NewTask]
        /\ proposal' = [proposal EXCEPT ![t] = NoIntent]
        /\ pending' = [pending EXCEPT ![t] = NothingPending]
        /\ answer' = [answer EXCEPT ![t] = answered]
    BY <1>7 DEF Keep, Answered, End
  <2>2. answered \in Answers
    BY <1>4, NothingYet DEF Answers
  <2>3. /\ answered.code = 200 /\ answered.result = record.result
    OBVIOUS
  <2> HIDE DEF answered, record
  <2>4. StoreOK'
    BY <1>1, <1>2, <1>4, <1>5 DEF MemoryInv, TypeOK, StoreOK, Books
  <2>5. ThreadsOK'
    BY <1>1, <1>5, <2>1, NothingYet DEF MemoryInv, TypeOK, ThreadsOK
  <2>6. CallsMade'
    BY <1>1, <1>2, <1>5, <2>1, <2>2 DEF MemoryInv, CallsMade, Service, Inside
  <2>7. LockFollowsCalls'
    BY <1>1, <1>2, <1>5, <1>7, <2>1 DEF MemoryInv, LockFollowsCalls, Service, Inside
  <2>8. RecordsHeld'
    BY <1>1, <1>2, <2>1 DEF RecordsHeld, Inside
  <2>9. Whole'
    BY <1>5 DEF Whole
  <2>10. AnswersAgree'
    <3> SUFFICES ASSUME NEW s \in Threads, pc'[s] = "done", call'[s].kind # "status"
                 PROVE  /\ answer'[s].code \in {200, 409}
                        /\ answer'[s].code = 200 =>
                             /\ records'[Key(s)'] # NoRecord
                             /\ records'[Key(s)'].operation = call'[s].kind
                             /\ answer'[s].result = records'[Key(s)'].result
      BY DEF AnswersAgree
    <3>1. CASE s = t
      BY <1>1, <1>2, <1>4, <1>5, <2>1, <2>3, <3>1 DEF Key, NoRecord, Kinds, record
    <3>2. CASE s # t
      BY <1>1, <1>2, <1>4, <1>5, <2>1, <3>2 DEF MemoryInv, AnswersAgree, Recorded, Key
    <3> QED  BY <3>1, <3>2
  <2>11. StatusIsWhole'
    <3>1. \A s \in Threads : s # t => answer'[s] = answer[s] /\ pc'[s] = pc[s]
      BY <1>1, <2>1
    <3>2. call'[t].kind # "status"
      BY <1>2, <1>5 DEF MemoryInv, CallsMade, Keep, Inside
    <3> QED  BY <1>5, <3>1, <3>2 DEF MemoryInv, StatusIsWhole
  <2> QED
    BY <2>4, <2>5, <2>6, <2>7, <2>8, <2>9, <2>10, <2>11 DEF MemoryInv, TypeOK
<1> QED  BY <1>6, <1>7

\* Writes from elsewhere happen while nobody is inside.
LEMMA OutsideKeeps ==
  ASSUME MemoryInv, holder = NoThread, book' \in Books, foreign' \subseteq EvidenceIds,
         committed \subseteq committed',
         book' # book => Shown(book') \in committed',
         UNCHANGED <<records, lock, events, pc, locals, answer>>
  PROVE  MemoryInv'
<1>1. UNCHANGED <<records, holder, depth, events, pc, call, held, proposal, pending, answer>>
  BY DEF lock, locals
<1>2. StoreOK'
  BY <1>1 DEF MemoryInv, TypeOK, StoreOK, Books
<1>3. ThreadsOK'
  BY <1>1 DEF MemoryInv, TypeOK, ThreadsOK
<1>4. CallsMade'
  BY <1>1 DEF MemoryInv, CallsMade, Service
<1>5. LockFollowsCalls'
  BY <1>1 DEF MemoryInv, LockFollowsCalls, Service
<1>6. RecordsHeld'
  BY <1>1 DEF MemoryInv, RecordsHeld, Recorded, SameOperation, Key
<1>7. Whole'
  BY <1>1 DEF MemoryInv, Whole
<1>8. AnswersAgree' /\ StatusIsWhole'
  BY <1>1 DEF MemoryInv, AnswersAgree, StatusIsWhole, Key
<1> QED  BY <1>2, <1>3, <1>4, <1>5, <1>6, <1>7, <1>8 DEF MemoryInv, TypeOK

LEMMA EnvironmentKeeps ==
  ASSUME MemoryInv, Environment
  PROVE  MemoryInv'
<1>1. book \in Books /\ foreign \subseteq EvidenceIds
  BY DEF MemoryInv, TypeOK, StoreOK, Books
<1>2. ASSUME NEW e \in DirectEvidence, AppendEvidence(e)
      PROVE  MemoryInv'
  BY <1>1, <1>2, OtherBooks, OutsideKeeps DEF AppendEvidence, Writable
<1>3. ASSUME NEW k \in DirectBatons, SetBaton(k)
      PROVE  MemoryInv'
  BY <1>1, <1>3, OtherBooks, OutsideKeeps DEF SetBaton, Writable
<1>4. ASSUME NEW id \in ForeignIds, OtherTaskEvidence(id)
      PROVE  MemoryInv'
  BY <1>1, <1>4, OutsideKeeps DEF OtherTaskEvidence
<1> QED  BY <1>2, <1>3, <1>4 DEF Environment

LEMMA StillKeeps ==
  ASSUME MemoryInv, UNCHANGED vars
  PROVE  MemoryInv'
<1>1. UNCHANGED <<book, foreign, committed, records, holder, depth, events, pc,
                  call, held, proposal, pending, answer>>
  BY DEF vars, store, lock, locals
<1>2. StoreOK' /\ ThreadsOK'
  BY <1>1 DEF MemoryInv, TypeOK, StoreOK, ThreadsOK
<1>3. CallsMade' /\ LockFollowsCalls'
  BY <1>1 DEF MemoryInv, CallsMade, LockFollowsCalls, Service
<1>4. RecordsHeld' /\ Whole'
  BY <1>1 DEF MemoryInv, RecordsHeld, Recorded, SameOperation, Key, Whole, Shown
<1>5. AnswersAgree' /\ StatusIsWhole'
  BY <1>1 DEF MemoryInv, AnswersAgree, StatusIsWhole, Key
<1> QED  BY <1>2, <1>3, <1>4, <1>5 DEF MemoryInv, TypeOK

LEMMA StepKeeps ==
  ASSUME MemoryInv, [Next]_vars
  PROVE  MemoryInv'
<1>1. ASSUME NEW t \in Threads, Begin(t)
      PROVE  MemoryInv'
  BY <1>1, BeginKeeps
<1>2. ASSUME NEW t \in Threads, Steps(t)
      PROVE  MemoryInv'
  <2>1. CASE Replay(t) \/ LookUpRefused(t) \/ Open(t)
    BY <2>1, ReplayKeeps, LookUpRefusedKeeps, OpenKeeps
  <2>2. CASE \E a \in Actors, action \in Actions : Propose(t, a, action)
    BY <2>2, ProposeKeeps
  <2>3. CASE CoordinatorDenied(t) \/ ApplyReplay(t) \/ ApplyRefused(t)
    BY <2>3, CoordinatorDeniedKeeps, ApplyReplayKeeps, ApplyRefusedKeeps
  <2>4. CASE \E o \in Outcomes : Apply(t, o)
    BY <2>4, ApplyKeeps
  <2>5. CASE Fail(t) \/ FailRefused(t) \/ Keep(t)
    BY <2>5, FailKeeps, FailRefusedKeeps, KeepKeeps
  <2>6. CASE Emit(t) \/ Confirm(t) \/ Status(t)
    BY <2>6, EmitKeeps, ConfirmKeeps, StatusKeeps
  <2> QED  BY <1>2, <2>1, <2>2, <2>3, <2>4, <2>5, <2>6 DEF Steps
<1> QED  BY <1>1, <1>2, EnvironmentKeeps, StillKeeps DEF Next

LEMMA Inductive == Spec => []MemoryInv
BY InitOK, StepKeeps, PTL DEF Spec

-----------------------------------------------------------------------------
\* Store, threads and ring keep their shape and their bound.
THEOREM MemoryTypeCorrect == Spec => []TypeOK
<1>1. MemoryInv => TypeOK
  BY DEF MemoryInv
<1> QED  BY Inductive, <1>1, PTL

\* The lock is held by the one thread inside an operation, as deep as its with
\* blocks go, and left by every call that ends (run_cycle_transaction).
THEOREM LockIsLeft == Spec => []LockFollowsCalls
<1>1. MemoryInv => LockFollowsCalls
  BY DEF MemoryInv
<1> QED  BY Inductive, <1>1, PTL

\* Every answer under a key is the record of that key and operation, and no call ends
\* with an exception the API does not map: neither EvidenceConflict nor the
\* RuntimeError of run_cycle_transaction, for a result that is not on record.
THEOREM AnswersAreRecords == Spec => []AnswersAgree
<1>1. MemoryInv => AnswersAgree
  BY DEF MemoryInv
<1> QED  BY Inductive, <1>1, PTL

\* A call that reached the second half of its write, its report or its re-read ends
\* with the result on record: an exception can end it only before it writes
\* (run_cycle_transaction, apply_cycle, fail_cycle).
THEOREM EffectsAreAnswered == Spec => EffectIsAnswered
<1>1. MemoryInv /\ MemoryInv' /\ [Next]_vars =>
        \A t \in Threads :
          pc[t] \in {"keeping", "emitting", "confirming"} /\ pc'[t] = "done" =>
            /\ answer'[t].code = 200
            /\ records'[Key(t)].operation = call[t].kind
            /\ answer'[t].result = records'[Key(t)].result
  <2> SUFFICES ASSUME MemoryInv, MemoryInv', [Next]_vars, NEW t \in Threads,
                      pc[t] \in {"keeping", "emitting", "confirming"}, pc'[t] = "done"
               PROVE  /\ answer'[t].code = 200
                      /\ records'[Key(t)].operation = call[t].kind
                      /\ answer'[t].result = records'[Key(t)].result
    OBVIOUS
  <2>1. /\ pc \in [Threads -> {"idle", "entering", "done"} \cup Inside]
        /\ answer \in [Threads -> Answers] /\ records \in [Keys -> Records]
        /\ Key(t) \in Keys
    BY InsideIsHolder DEF MemoryInv, TypeOK, StoreOK, ThreadsOK, CallsMade
  <2>2. CASE Confirm(t)
    <3>1. /\ SameOperation(t) /\ Recorded(t) /\ records[Key(t)] = pending[t].record
          /\ UNCHANGED records
      BY <2>2, AnswerTypes DEF Confirm, MemoryInv, RecordsHeld, store
    <3>2. End(t, 200, records[Key(t)].result, NoStatus)
      BY <2>2, <3>1 DEF Confirm, Answered
    <3> QED  BY <2>1, <3>1, <3>2 DEF End, SameOperation
  <2>3. CASE Keep(t)
    <3>1. ~ Service(t)
      BY <2>1, <2>3 DEF Keep
    <3>2. /\ records' = [records EXCEPT ![Key(t)] = pending[t].record]
          /\ End(t, 200, pending[t].record.result, NoStatus)
          /\ pending[t].record.operation = call[t].kind
      BY <2>3, <3>1 DEF Keep, Answered, MemoryInv, RecordsHeld
    <3> QED  BY <2>1, <3>2 DEF End
  <2>4. CASE Emit(t)
    BY <2>1, <2>4 DEF Emit
  <2>5. ASSUME NEW s \in Threads, s # t, Begin(s) \/ Steps(s)
        PROVE  FALSE
    <3>1. \E l : pc' = [pc EXCEPT ![s] = l]
      BY <2>5 DEF Begin, Steps, Replay, LookUpRefused, Open, Propose, CoordinatorDenied,
                  ApplyReplay, ApplyRefused, Apply, Fail, FailRefused, Keep, Emit, Confirm,
                  Status, Write, Answered, Refused, End
    <3> QED  BY <2>1, <2>5, <3>1
  <2>6. (\E s \in Threads : Begin(s) \/ Steps(s)) \/ UNCHANGED pc
    BY DEF Next, vars, Environment, AppendEvidence, SetBaton, OtherTaskEvidence
  <2>7. ~ (Begin(t) \/ (Steps(t) /\ ~ (Confirm(t) \/ Keep(t) \/ Emit(t))))
    BY DEF Begin, Steps, Replay, LookUp, LookUpRefused, Open, Propose, CoordinatorDenied,
           ApplyReplay, ApplyRefused, Applying, Apply, Fail, FailRefused, Status
  <2> QED  BY <2>2, <2>3, <2>4, <2>5, <2>6, <2>7
<1> QED  BY Inductive, <1>1, PTL DEF Spec, EffectIsAnswered

\* No status shows the task of one moment with the baton of another (get_task_status).
THEOREM StatusesAreWhole == Spec => []StatusIsWhole
<1>1. MemoryInv => StatusIsWhole
  BY DEF MemoryInv
<1> QED  BY Inductive, <1>1, PTL

-----------------------------------------------------------------------------
(* The evidence *)

\* Not only what a caller was told is stored, but what is recorded, and what a
\* thread between the two halves of its write will record.
EvidenceKept ==
  /\ IdsOf(book.evidence) \cap foreign = {}
  /\ DistinctIds(book.evidence)
  /\ \A t \in Threads : answer[t].result.evidence \subseteq book.evidence
  /\ \A k \in Keys : records[k].result.evidence \subseteq book.evidence
  /\ \A t \in Threads :
       pc[t] = "keeping" => pending[t].record.result.evidence \subseteq book.evidence

\* What an admitted action adds has new ids, each once.
LEMMA FreshEvidence ==
  ASSUME NEW b \in Books, NEW i \in Intents, NEW o \in CycleOutcomes,
         DistinctIds(b.evidence), IdsOf(b.evidence) \cap foreign = {}
  PROVE  LET after == Applied(b, i, Stored(o)).evidence
         IN  /\ b.evidence \subseteq after
             /\ AppliedResult(b, i, Stored(o)).evidence \subseteq after
             /\ DistinctIds(after) /\ IdsOf(after) \cap foreign = {}
<1> DEFINE f == Stored(o)
           new == EvidenceFrom(b, i, f)
<1>1. /\ Applied(b, i, f).evidence = b.evidence \cup new
      /\ AppliedResult(b, i, f).evidence = new
  BY DEF Applied, AppliedResult, Books
<1>2. IdsOf(f.evidence) \cap foreign = {}
  BY DEF Stored, Failure, IdsOf
<1>3. CASE Succeeds(b, i, f)
  <2>1. /\ new = f.evidence /\ DistinctIds(new) /\ IdsOf(new) \cap IdsOf(b.evidence) = {}
    BY <1>3 DEF EvidenceFrom, Succeeds
  <2> HIDE DEF f, new
  <2>2. DistinctIds(b.evidence \cup new)
    BY <2>1 DEF DistinctIds, IdsOf
  <2>3. IdsOf(b.evidence \cup new) \cap foreign = {}
    BY <1>2, <2>1 DEF IdsOf
  <2> QED  BY <1>1, <2>2, <2>3 DEF f, new
<1>4. CASE ~ Succeeds(b, i, f)
  <2>1. new = {}
    BY <1>4 DEF EvidenceFrom
  <2> QED  BY <1>1, <2>1
<1> QED  BY <1>3, <1>4

\* A call ends with evidence that is stored, or none.
LEMMA EndKeepsEvidence ==
  ASSUME MemoryInv, EvidenceKept, NEW t \in Threads, NEW code, NEW result, NEW shown,
         End(t, code, result, shown), result.evidence \subseteq book.evidence,
         UNCHANGED <<book, records, foreign>>
  PROVE  EvidenceKept'
<1>1. /\ pc' = [pc EXCEPT ![t] = "done"]
      /\ answer' = [answer EXCEPT ![t] = [code |-> code, result |-> result, shown |-> shown]]
      /\ pending' = [pending EXCEPT ![t] = NothingPending]
  BY DEF End
<1>2. \A s \in Threads : /\ pc'[s] = "keeping" => pc[s] = "keeping" /\ pending'[s] = pending[s]
                         /\ \/ answer'[s] = answer[s]
                            \/ answer'[s].result.evidence \subseteq book.evidence
  BY <1>1 DEF MemoryInv, TypeOK, ThreadsOK, CallsMade
<1> QED  BY <1>2 DEF EvidenceKept

\* A thread goes on, with whatever it now means to record.
LEMMA MoveKeepsEvidence ==
  ASSUME MemoryInv, EvidenceKept, NEW t \in Threads, NEW l, l # "keeping",
         pc' = [pc EXCEPT ![t] = l], UNCHANGED <<book, records, foreign, answer>>,
         \A s \in Threads : s # t => pending'[s] = pending[s]
  PROVE  EvidenceKept'
<1>1. \A s \in Threads : pc'[s] = "keeping" => pc[s] = "keeping" /\ pending'[s] = pending[s]
  BY DEF MemoryInv, TypeOK, ThreadsOK
<1> QED  BY <1>1 DEF EvidenceKept

LEMMA WriteKeepsEvidence ==
  ASSUME MemoryInv, EvidenceKept, NEW t \in Threads, NEW b \in Books, NEW i, NEW r,
         Write(t, b, i, r), book.evidence \subseteq b.evidence, r.evidence \subseteq b.evidence,
         DistinctIds(b.evidence), IdsOf(b.evidence) \cap foreign = {}
  PROVE  EvidenceKept'
<1> DEFINE record == [operation |-> call[t].kind, intent |-> i, result |-> r]
           p == [baton |-> b.baton, record |-> record]
<1>1. /\ pc' = [pc EXCEPT ![t] = "keeping"] /\ pending' = [pending EXCEPT ![t] = p]
      /\ book' = [book EXCEPT !.task = b.task, !.evidence = b.evidence]
      /\ UNCHANGED <<records, foreign, answer>>
  BY DEF Write
<1>2. book'.evidence = b.evidence /\ p.record.result = r
  BY <1>1 DEF MemoryInv, TypeOK, StoreOK
<1> HIDE DEF p
<1>3. \A s \in Threads :
        pc'[s] = "keeping" => pending'[s].record.result.evidence \subseteq b.evidence
  BY <1>1, <1>2 DEF MemoryInv, TypeOK, ThreadsOK, EvidenceKept
<1> QED  BY <1>1, <1>2, <1>3 DEF EvidenceKept

LEMMA ApplyKeepsEvidence ==
  ASSUME MemoryInv, EvidenceKept, NEW t \in Threads, NEW o \in Outcomes, Apply(t, o)
  PROVE  EvidenceKept'
<1>1. book \in Books /\ proposal[t] \in Intents /\ o \in CycleOutcomes
      /\ Stored(o) \in CycleOutcomes
  BY ApplyingIs DEF MemoryInv, TypeOK, StoreOK, Books, Apply, Stored
<1>2. Applied(book, proposal[t], Stored(o)) \in Books
  BY <1>1, AppliedBook
<1> QED  BY <1>1, <1>2, FreshEvidence, WriteKeepsEvidence DEF Apply, EvidenceKept

LEMMA FailKeepsEvidence ==
  ASSUME MemoryInv, EvidenceKept, NEW t \in Threads, Fail(t)
  PROVE  EvidenceKept'
<1>1. book \in Books
  BY DEF MemoryInv, TypeOK, StoreOK, Books
<1>2. /\ Denied(book) \in Books /\ Denied(book).evidence = book.evidence
      /\ DeniedResult(book).evidence = {}
  BY <1>1, OtherBooks DEF Denied, DeniedResult, Books
<1> QED  BY <1>2, WriteKeepsEvidence DEF Fail, EvidenceKept

LEMMA KeepKeepsEvidence ==
  ASSUME MemoryInv, EvidenceKept, NEW t \in Threads, Keep(t)
  PROVE  EvidenceKept'
<1> DEFINE record == pending[t].record
<1>1. /\ pc[t] = "keeping" /\ Key(t) \in Keys
      /\ \A s \in Threads : s # t => pc[s] # "keeping"
  BY InsideIsHolder DEF Keep, Inside
<1>2. /\ records' = [records EXCEPT ![Key(t)] = record]
      /\ book' = [book EXCEPT !.baton = pending[t].baton] /\ foreign' = foreign
      /\ record.result.evidence \subseteq book.evidence
  BY <1>1 DEF Keep, EvidenceKept
<1>3. book'.evidence = book.evidence
  BY <1>2 DEF MemoryInv, TypeOK, StoreOK
<1>4. \A k \in Keys : records'[k].result.evidence \subseteq book.evidence
  BY <1>1, <1>2 DEF EvidenceKept, MemoryInv, TypeOK, StoreOK
<1>5. \A s \in Threads : answer'[s].result.evidence \subseteq book.evidence
  <2>1. CASE Service(t)
    BY <2>1 DEF Keep, EvidenceKept
  <2>2. CASE ~ Service(t)
    <3>1. answer' = [answer EXCEPT ![t] = [code |-> 200, result |-> record.result,
                                           shown |-> NoStatus]]
      BY <2>2 DEF Keep, Answered, End
    <3> QED  BY <1>2, <3>1 DEF EvidenceKept, MemoryInv, CallsMade
  <2> QED  BY <2>1, <2>2
<1>6. \A s \in Threads : pc'[s] # "keeping"
  <2>1. \E l : l # "keeping" /\ pc' = [pc EXCEPT ![t] = l]
    BY DEF Keep, Answered, End
  <2> QED  BY <1>1, <2>1 DEF MemoryInv, TypeOK, ThreadsOK
<1> QED  BY <1>2, <1>3, <1>4, <1>5, <1>6 DEF EvidenceKept

LEMMA EnvironmentKeepsEvidence ==
  ASSUME MemoryInv, EvidenceKept, Environment
  PROVE  EvidenceKept'
<1>1. UNCHANGED <<records, pc, pending, answer>>
  BY DEF Environment, AppendEvidence, SetBaton, OtherTaskEvidence, locals
<1>2. ASSUME NEW e \in DirectEvidence, AppendEvidence(e)
      PROVE  EvidenceKept'
  <2>1. /\ book'.evidence = book.evidence \cup {e} /\ foreign' = foreign
        /\ e.id \notin IdsOf(book.evidence) \cup foreign
    BY <1>2 DEF AppendEvidence, Appended, MemoryInv, TypeOK, StoreOK
  <2>2. DistinctIds(book'.evidence) /\ IdsOf(book'.evidence) \cap foreign' = {}
    BY <2>1 DEF EvidenceKept, DistinctIds, IdsOf
  <2> QED  BY <1>1, <2>1, <2>2 DEF EvidenceKept
<1>3. ASSUME NEW k \in DirectBatons, SetBaton(k)
      PROVE  EvidenceKept'
  <2>1. book'.evidence = book.evidence /\ foreign' = foreign
    BY <1>3 DEF SetBaton, BatonSet, MemoryInv, TypeOK, StoreOK
  <2> QED  BY <1>1, <2>1 DEF EvidenceKept
<1>4. ASSUME NEW id \in ForeignIds, OtherTaskEvidence(id)
      PROVE  EvidenceKept'
  <2>1. /\ book' = book /\ foreign' = foreign \cup {id} /\ id \notin IdsOf(book.evidence)
    BY <1>4 DEF OtherTaskEvidence
  <2> QED  BY <1>1, <2>1 DEF EvidenceKept
<1> QED  BY <1>2, <1>3, <1>4 DEF Environment

LEMMA StepKeepsEvidence ==
  ASSUME MemoryInv, EvidenceKept, NEW t \in Threads, Begin(t) \/ Steps(t)
  PROVE  EvidenceKept'
<1>1. ASSUME NEW o \in Outcomes, Apply(t, o)
      PROVE  EvidenceKept'
  BY <1>1, ApplyKeepsEvidence
<1>2. CASE Replay(t) \/ (ApplyReplay(t) /\ ~ Service(t))
  <2>1. /\ pc[t] # "idle" /\ End(t, 200, records[Key(t)].result, NoStatus)
        /\ UNCHANGED <<book, records, foreign>>
    BY <1>2 DEF Replay, LookUp, ApplyReplay, Applying, Answered, store
  <2>2. records[Key(t)].result.evidence \subseteq book.evidence
    BY <2>1, InsideIsHolder DEF EvidenceKept
  <2> QED  BY <2>1, <2>2, EndKeepsEvidence
<1>3. CASE \/ LookUpRefused(t) \/ ApplyRefused(t) \/ Status(t)
           \/ (FailRefused(t) /\ ~ (Recorded(t) /\ SameOperation(t)))
  <2>1. /\ \E code, shown : End(t, code, NoResult, shown)
        /\ UNCHANGED <<book, records, foreign>>
    BY <1>3 DEF LookUpRefused, ApplyRefused, Status, FailRefused, Refused, store
  <2>2. NoResult.evidence \subseteq book.evidence
    BY DEF NoResult
  <2> QED  BY <2>1, <2>2, EndKeepsEvidence
<1>4. CASE Confirm(t)
  <2>1. /\ pc[t] = "confirming" /\ SameOperation(t) /\ records[Key(t)] = pending[t].record
        /\ UNCHANGED <<book, records, foreign>>
    BY <1>4 DEF Confirm, MemoryInv, RecordsHeld, store
  <2>2. End(t, 200, records[Key(t)].result, NoStatus)
    BY <1>4, <2>1, AnswerTypes DEF Confirm, Answered
  <2>3. records[Key(t)].result.evidence \subseteq book.evidence
    BY <2>1, InsideIsHolder DEF EvidenceKept
  <2> QED  BY <2>1, <2>2, <2>3, EndKeepsEvidence
<1>5. CASE \/ Begin(t) \/ Open(t) \/ CoordinatorDenied(t) \/ Emit(t)
           \/ \E a \in Actors, action \in Actions : Propose(t, a, action)
           \/ ApplyReplay(t) /\ Service(t)
           \/ FailRefused(t) /\ Recorded(t) /\ SameOperation(t)
  <2>1. /\ \E l : l # "keeping" /\ pc' = [pc EXCEPT ![t] = l]
        /\ UNCHANGED <<book, records, foreign, answer>>
    BY <1>5 DEF Begin, Open, CoordinatorDenied, Emit, Propose, ApplyReplay, FailRefused, store
  <2>2. \A s \in Threads : s # t => pending'[s] = pending[s]
    BY <1>5 DEF Begin, Open, CoordinatorDenied, Emit, Propose, ApplyReplay, FailRefused,
                locals, MemoryInv, TypeOK, ThreadsOK
  <2> QED  BY <2>1, <2>2, MoveKeepsEvidence
<1>6. CASE Fail(t)
  BY <1>6, FailKeepsEvidence
<1>7. CASE Keep(t)
  BY <1>7, KeepKeepsEvidence
<1> QED  BY <1>1, <1>2, <1>3, <1>4, <1>5, <1>6, <1>7 DEF Steps

\* No two tasks of the process hold one evidence id, no task holds it twice, and what
\* any caller was told is stored stays stored (evidence_ids in apply_cycle and
\* append_evidence).
THEOREM EvidenceIdsAreOnce == Spec => []EvidenceIsOnce
<1>1. Init => EvidenceKept
  BY DEF Init, EvidenceKept, IdsOf, DistinctIds, NoAnswer, NoRecord, NoResult
<1>2. MemoryInv /\ EvidenceKept /\ [Next]_vars => EvidenceKept'
  <2>1. ASSUME MemoryInv, EvidenceKept, Next
        PROVE  EvidenceKept'
    BY <2>1, StepKeepsEvidence, EnvironmentKeepsEvidence DEF Next
  <2>2. ASSUME EvidenceKept, UNCHANGED vars
        PROVE  EvidenceKept'
    BY <2>2 DEF EvidenceKept, vars, store, locals
  <2> QED  BY <2>1, <2>2
<1>3. EvidenceKept => EvidenceIsOnce
  BY DEF EvidenceKept, EvidenceIsOnce
<1> QED  BY Inductive, <1>1, <1>2, <1>3, PTL DEF Spec

-----------------------------------------------------------------------------
(* The ring *)

\* The ring holds the latest of some versions, in order.
Latest(ring, versions) ==
  LET kept == {ring[n] : n \in DOMAIN ring}
  IN  /\ kept \subseteq versions
      /\ \A m, n \in DOMAIN ring : m < n => ring[m] < ring[n]
      /\ Len(ring) = MaxEvents \/ kept = versions
      /\ \A v \in versions \ kept : \A w \in kept : v < w

\* A version later than all of them pushes out the oldest one that is kept.
LEMMA ReportedIsLatest ==
  ASSUME NEW ring \in Seq(Nat), Len(ring) <= MaxEvents, NEW versions \in SUBSET Nat,
         NEW v \in Nat, \A u \in versions : u < v, Latest(ring, versions)
  PROVE  Latest(Reported(ring, v), versions \cup {v})
<1> DEFINE len == Len(ring)
           kept == {ring[n] : n \in 1 .. len}
           all == Append(ring, v)
<1>1. /\ len \in Nat /\ all \in Seq(Nat) /\ Len(all) = len + 1 /\ all[len + 1] = v
      /\ \A n \in 1 .. len : all[n] = ring[n] /\ ring[n] \in Nat /\ ring[n] \in kept
      /\ DOMAIN ring = 1 .. len
  OBVIOUS
<1>0. len <= MaxEvents /\ MaxEvents \in Nat
  OBVIOUS
<1>2. /\ kept \subseteq versions
      /\ \A m, n \in 1 .. len : m < n => ring[m] < ring[n]
      /\ len = MaxEvents \/ kept = versions
      /\ \A u \in versions \ kept : \A w \in kept : u < w
  BY <1>1 DEF Latest
<1> HIDE DEF len, kept, all
<1>3. \A m, n \in 1 .. len + 1 : m < n => all[m] < all[n]
  <2> SUFFICES ASSUME NEW m \in 1 .. len + 1, NEW n \in 1 .. len + 1, m < n
               PROVE  all[m] < all[n]
    OBVIOUS
  <2>1. m \in 1 .. len
    BY <1>1
  <2>2. CASE n = len + 1
    BY <1>1, <1>2, <2>1, <2>2
  <2>3. CASE n \in 1 .. len
    BY <1>1, <1>2, <2>1, <2>3
  <2>4. n = len + 1 \/ n \in 1 .. len
    BY <1>1
  <2> QED  BY <2>2, <2>3, <2>4
<1>4. CASE len < MaxEvents
  <2> DEFINE after == {all[n] : n \in 1 .. len + 1}
  <2>1. Reported(ring, v) = all /\ DOMAIN all = 1 .. len + 1
    <3>1. ~ (len + 1 > MaxEvents)
      BY <1>1, <1>4
    <3>2. ~ (Len(Append(ring, v)) > MaxEvents)
      BY <1>1, <3>1 DEF all
    <3>3. Reported(ring, v) = all
      BY <3>2 DEF Reported, all
    <3> QED  BY <1>1, <3>3
  <2>2. kept = versions
    BY <1>1, <1>2, <1>4
  <2>3. after = versions \cup {v}
    <3>1. after \subseteq kept \cup {v}
      <4> SUFFICES ASSUME NEW n \in 1 .. len + 1
                   PROVE  all[n] \in kept \cup {v}
        OBVIOUS
      <4>1. n = len + 1 \/ n \in 1 .. len
        BY <1>1
      <4> QED  BY <1>1, <4>1
    <3>2. kept \subseteq after
      <4> SUFFICES ASSUME NEW n \in 1 .. len
                   PROVE  ring[n] \in after
        BY DEF kept
      <4>1. n \in 1 .. len + 1 /\ all[n] = ring[n]
        BY <1>1
      <4> QED  BY <4>1
    <3>3. v \in after
      <4>1. len + 1 \in 1 .. len + 1
        BY <1>1
      <4> QED  BY <1>1, <4>1
    <3> QED  BY <2>2, <3>1, <3>2, <3>3
  <2> QED  BY <1>3, <2>1, <2>3 DEF Latest
<1>5. CASE len = MaxEvents
  <2> DEFINE new == Tail(all)
             after == {new[n] : n \in 1 .. len}
  <2>1. /\ Reported(ring, v) = new /\ new \in Seq(Nat) /\ Len(new) = len
        /\ DOMAIN new = 1 .. len
        /\ \A n \in 1 .. len : new[n] = all[n + 1]
    <3>1. Len(Append(ring, v)) > MaxEvents /\ all # <<>>
      BY <1>1, <1>5 DEF all
    <3>2. Reported(ring, v) = new
      BY <3>1 DEF Reported, all
    <3>3. new \in Seq(Nat) /\ Len(new) = Len(all) - 1
          /\ \A n \in 1 .. Len(new) : new[n] = all[n + 1]
      BY <1>1, <3>1
    <3>4. Len(new) = len
      BY <1>1, <3>3
    <3> QED  BY <3>2, <3>3, <3>4
  <2> HIDE DEF new
  <2>2. /\ 1 \in 1 .. len /\ len \in 1 .. len /\ new[len] = v /\ len + 1 \in 1 .. len + 1
    BY <1>1, <1>5, <2>1
  <2>3. \A n \in 1 .. len : n # 1 => n - 1 \in 1 .. len /\ new[n - 1] = ring[n]
    <3> SUFFICES ASSUME NEW n \in 1 .. len, n # 1
                 PROVE  n - 1 \in 1 .. len /\ new[n - 1] = ring[n]
      OBVIOUS
    <3>1. n - 1 \in 1 .. len /\ (n - 1) + 1 = n
      BY <1>1
    <3> QED  BY <1>1, <2>1, <3>1
  <2>4. ASSUME NEW n \in 1 .. len
        PROVE  new[n] = v \/ \E m \in 1 .. len : m # 1 /\ new[n] = ring[m]
    <3>1. n = len \/ (n + 1 \in 1 .. len /\ n + 1 # 1)
      BY <1>1
    <3> QED  BY <1>1, <2>1, <2>2, <3>1
  <2>5. after \subseteq versions \cup {v}
    BY <1>1, <1>2, <2>4
  <2>6. \A m, n \in 1 .. len : m < n => new[m] < new[n]
    <3> SUFFICES ASSUME NEW m \in 1 .. len, NEW n \in 1 .. len, m < n
                 PROVE  new[m] < new[n]
      OBVIOUS
    <3>1. m + 1 \in 1 .. len + 1 /\ n + 1 \in 1 .. len + 1 /\ m + 1 < n + 1
      BY <1>1
    <3> QED  BY <1>3, <2>1, <3>1
  <2>7. \A u \in (versions \cup {v}) \ after : \A w \in after : u < w
    <3> SUFFICES ASSUME NEW u \in versions \cup {v}, u \notin after, NEW w \in after
                 PROVE  u < w
      OBVIOUS
    <3> PICK n \in 1 .. len : w = new[n]
      BY DEF after
    <3>1. u \in versions
      BY <2>2
    <3>2. CASE new[n] = v
      BY <3>1, <3>2
    <3>3. ASSUME NEW m \in 1 .. len, m # 1, new[n] = ring[m]
          PROVE  u < new[n]
      <4>1. ring[m] \in kept /\ 1 < m
        BY <1>1, <3>3
      <4>2. CASE u \in kept
        <5> PICK j \in 1 .. len : u = ring[j]
          BY <4>2 DEF kept
        <5>1. j = 1
          <6>1. j # 1 => u \in after
            BY <2>3 DEF after
          <6> QED  BY <6>1
        <5> QED  BY <1>2, <2>2, <3>3, <4>1, <5>1
      <4>3. CASE u \notin kept
        BY <1>2, <3>1, <3>3, <4>1, <4>3
      <4> QED  BY <4>2, <4>3
    <3> QED  BY <2>4, <3>2, <3>3
  <2> HIDE DEF after
  <2>8. after = {new[n] : n \in DOMAIN new}
    BY <2>1 DEF after
  <2> QED  BY <1>5, <2>1, <2>5, <2>6, <2>7, <2>8 DEF Latest
<1>6. len < MaxEvents \/ len = MaxEvents
  BY <1>0, <1>1
<1> QED  BY <1>4, <1>5, <1>6

Version(k) == records[k].result.task.version

\* Versions only grow: what is about to be recorded, or about to be reported, is
\* later than every completed cycle before it.  And a call that holds the lock
\* finds, when it comes to write, that its key is still without a record.
EventsKept ==
  /\ \A k \in Completed : Version(k) <= book.task.version
  /\ \A t \in Threads : pc[t] = "keeping" =>
       /\ pending[t].record.result.task.version = book.task.version
       /\ \A k \in Completed : Version(k) < book.task.version
  /\ \A t \in Threads : pc[t] = "emitting" =>
       /\ Key(t) \in Completed
       /\ \A k \in Completed \ {Key(t)} : Version(k) < Version(Key(t))
  /\ \A t \in Threads : pc[t] \in {"proposing", "applying", "failing"} => ~ Recorded(t)
  /\ EventsAreLatest

LEMMA LatestIs == EventsAreLatest <=> Latest(events, VersionsOf(Completed \ Unreported))
BY DEF EventsAreLatest, Latest

LEMMA VersionTypes ==
  ASSUME MemoryInv
  PROVE  /\ Completed \subseteq Keys /\ book.task.version \in Nat
         /\ \A k \in Keys : Version(k) \in Nat
         /\ \A keys \in SUBSET Keys : VersionsOf(keys) \in SUBSET Nat
         /\ \A keys : VersionsOf(keys) = {Version(k) : k \in keys}
<1>1. \A k \in Keys : records[k].result.task \in Tasks
  BY NothingYet DEF MemoryInv, TypeOK, StoreOK, Records, Results, NoResult
<1>2. book.task \in Tasks
  BY DEF MemoryInv, TypeOK, StoreOK
<1> QED  BY <1>1, <1>2 DEF Tasks, Completed, Version, VersionsOf

LEMMA SameRing ==
  ASSUME EventsAreLatest, UNCHANGED <<events, records>>, Unreported' = Unreported
  PROVE  EventsAreLatest'
<1>1. (Completed \ Unreported)' = Completed \ Unreported
  BY DEF Completed
<1>2. VersionsOf(Completed \ Unreported)' = VersionsOf(Completed \ Unreported)
  BY <1>1 DEF VersionsOf
<1> QED  BY <1>2 DEF EventsAreLatest

\* Steps that neither write, nor record, nor report.
LEMMA QuietKeepsEvents ==
  ASSUME MemoryInv, EventsKept, NEW t \in Threads,
         NEW l \in {"entering", "proposing", "applying", "failing", "confirming", "done"},
         pc' = [pc EXCEPT ![t] = l], pc[t] \notin {"keeping", "emitting"},
         l \in {"proposing", "applying", "failing"} => ~ Recorded(t) /\ call'[t] = call[t],
         UNCHANGED <<book, records, events>>,
         \A s \in Threads : s # t => pending'[s] = pending[s] /\ call'[s] = call[s]
  PROVE  EventsKept'
<1>1. /\ pc'[t] = l /\ \A s \in Threads : s # t => pc'[s] = pc[s]
  BY DEF MemoryInv, TypeOK, ThreadsOK
<1>2. /\ Completed' = Completed
      /\ \A k : Version(k)' = Version(k)
      /\ \A keys : VersionsOf(keys)' = VersionsOf(keys)
  BY DEF Completed, Version, VersionsOf
<1>3. \A s \in Threads : /\ pc'[s] \in {"keeping", "emitting"} <=> pc[s] \in {"keeping", "emitting"}
                         /\ pc'[s] \in {"keeping", "emitting"} =>
                              /\ pc'[s] = pc[s] /\ pending'[s] = pending[s]
                              /\ Key(s)' = Key(s)
  BY <1>1 DEF Key
<1>4. Unreported' = Unreported
  BY <1>2, <1>3 DEF Unreported
<1>5. EventsAreLatest'
  BY <1>4, SameRing DEF EventsKept
<1>6. \A s \in Threads : pc'[s] \in {"proposing", "applying", "failing"} => ~ Recorded(s)'
  BY <1>1 DEF EventsKept, Recorded, Key
<1> QED  BY <1>2, <1>3, <1>5, <1>6 DEF EventsKept

LEMMA WriteKeepsEvents ==
  ASSUME MemoryInv, EventsKept, NEW t \in Threads, NEW b \in Books,
         NEW i \in Intents \cup {NoIntent}, NEW r \in Results, Write(t, b, i, r),
         pc[t] \in {"entering", "applying", "failing"},
         b.task.version = book.task.version + 1, r.task = b.task
  PROVE  EventsKept'
<1> DEFINE record == [operation |-> call[t].kind, intent |-> i, result |-> r]
           p == [baton |-> b.baton, record |-> record]
<1>1. /\ pc' = [pc EXCEPT ![t] = "keeping"] /\ pending' = [pending EXCEPT ![t] = p]
      /\ book' = [book EXCEPT !.task = b.task, !.evidence = b.evidence]
      /\ UNCHANGED <<records, events, call>>
  BY DEF Write
<1>2. \A s \in Threads : s # t => pc[s] \notin Inside
  BY InsideIsHolder DEF Write, Enter
<1>3. p.record.result.task = b.task
  OBVIOUS
<1> HIDE DEF p
<1>4. /\ pc'[t] = "keeping" /\ pending'[t] = p /\ book'.task = b.task
      /\ \A s \in Threads : s # t => pc'[s] = pc[s]
  BY <1>1 DEF MemoryInv, TypeOK, StoreOK, ThreadsOK
<1>5. /\ Completed' = Completed
      /\ \A k : Version(k)' = Version(k)
      /\ \A keys : VersionsOf(keys)' = VersionsOf(keys)
  BY <1>1 DEF Completed, Version, VersionsOf
<1>6. \A s \in Threads : pc'[s] # "emitting" /\ pc[s] # "emitting"
  BY <1>2, <1>4 DEF Inside
<1>7. Unreported' = Unreported
  BY <1>5, <1>6 DEF Unreported
<1>8. EventsAreLatest'
  BY <1>1, <1>7, SameRing DEF EventsKept
<1>9. \A k \in Completed : Version(k) < book'.task.version
  BY <1>4, VersionTypes DEF EventsKept
<1>10. \A k \in Completed' : Version(k)' <= book'.task.version
  BY <1>4, <1>5, <1>9, VersionTypes
<1>11. \A s \in Threads : pc'[s] = "keeping" => s = t
  BY <1>2, <1>4 DEF Inside
<1>12. \A s \in Threads : pc'[s] \notin {"proposing", "applying", "failing"}
  BY <1>2, <1>4 DEF Inside
<1> QED
  BY <1>3, <1>4, <1>5, <1>6, <1>8, <1>9, <1>10, <1>11, <1>12 DEF EventsKept

LEMMA KeepKeepsEvents ==
  ASSUME MemoryInv, EventsKept, NEW t \in Threads, Keep(t)
  PROVE  EventsKept'
<1> DEFINE record == pending[t].record
           key == Key(t)
           completes == Service(t) /\ record.intent # NoIntent
<1>1. /\ pc[t] = "keeping" /\ key \in Keys /\ call[t].kind \in Kinds
      /\ \A s \in Threads : s # t => pc[s] \notin Inside
  BY InsideIsHolder DEF Keep, Inside
<1>2. /\ records' = [records EXCEPT ![key] = record]
      /\ book' = [book EXCEPT !.baton = pending[t].baton] /\ UNCHANGED events
      /\ call' = call /\ key' = key
      /\ pc' = [pc EXCEPT ![t] = IF ~ Service(t) THEN "done"
                                 ELSE IF record.intent = NoIntent THEN "confirming"
                                 ELSE "emitting"]
  BY DEF Keep, locals, Answered, End, Key
<1>3. record.operation = call[t].kind /\ records[key] = NoRecord
  BY <1>1 DEF MemoryInv, RecordsHeld, Recorded
<1>4. /\ record.result.task.version = book.task.version
      /\ \A k \in Completed : Version(k) < book.task.version
  BY <1>1 DEF EventsKept
<1>5. book'.task = book.task
  BY <1>2 DEF MemoryInv, TypeOK, StoreOK
<1>6. /\ \A k \in Keys : k # key => records'[k] = records[k]
      /\ records'[key] = record
  BY <1>1, <1>2 DEF MemoryInv, TypeOK, StoreOK
<1>7. /\ pc'[t] = "emitting" <=> completes
      /\ \A s \in Threads : /\ pc'[s] \notin {"keeping", "proposing", "applying", "failing"}
                            /\ s # t => pc'[s] # "emitting"
                            /\ pc[s] # "emitting"
  BY <1>1, <1>2 DEF MemoryInv, TypeOK, ThreadsOK, Inside
<1>8. key \notin Completed
  BY <1>3 DEF Completed, NoRecord
<1>9. completes <=> record.operation \in {"normal", "breaker"} /\ record.intent # NoIntent
  BY <1>3 DEF Service
<1> HIDE DEF record, key, completes
<1>10. Completed' = IF completes THEN Completed \cup {key} ELSE Completed
  BY <1>1, <1>6, <1>8, <1>9 DEF Completed
<1>11. Unreported = {}
  BY <1>7 DEF Unreported
<1>12. Unreported' = IF completes THEN {key} ELSE {}
  BY <1>2, <1>7, <1>10 DEF Unreported, Key, key
<1>13. /\ (Completed \ Unreported)' = Completed \ Unreported
       /\ Completed \subseteq Keys
  BY <1>8, <1>10, <1>11, <1>12 DEF Completed
<1>14. \A k \in Completed : Version(k)' = Version(k)
  BY <1>6, <1>8, <1>13 DEF Version
<1>15. VersionsOf(Completed \ Unreported)' = VersionsOf(Completed \ Unreported)
  BY <1>13, <1>14, <1>11 DEF VersionsOf, Version
<1>16. EventsAreLatest'
  BY <1>2, <1>15 DEF EventsKept, EventsAreLatest
<1>17. Version(key)' = book.task.version
  BY <1>2, <1>4, <1>6 DEF Version, record
<1>18. \A k \in Completed' : Version(k)' <= book'.task.version
  BY <1>2, <1>4, <1>5, <1>10, <1>13, <1>14, <1>17, VersionTypes
<1>19. \A s \in Threads : pc'[s] = "emitting" =>
         /\ s = t /\ Key(s)' = key /\ key \in Completed'
         /\ \A k \in Completed' \ {key} : Version(k)' < Version(key)'
  BY <1>2, <1>4, <1>7, <1>10, <1>14, <1>17 DEF Key, key
<1> QED  BY <1>2, <1>7, <1>16, <1>18, <1>19 DEF EventsKept, Version

LEMMA EmitKeepsEvents ==
  ASSUME MemoryInv, EventsKept, NEW t \in Threads, Emit(t)
  PROVE  EventsKept'
<1> DEFINE key == Key(t)
           v == Version(key)
           before == VersionsOf(Completed \ {key})
<1>1. /\ pc[t] = "emitting" /\ pc' = [pc EXCEPT ![t] = "confirming"]
      /\ UNCHANGED <<book, records, call, pending>>
      /\ records[key] = pending[t].record
      /\ events' = Reported(events, v)
  BY DEF Emit, store, locals, MemoryInv, RecordsHeld, Version
<1>2. /\ key \in Completed
      /\ \A k \in Completed \ {key} : Version(k) < v
  BY <1>1 DEF EventsKept
<1>3. \A s \in Threads : s # t => pc[s] \notin Inside
  BY <1>1, InsideIsHolder DEF Inside
<1>4. /\ \A s \in Threads : pc'[s] \notin {"keeping", "emitting", "proposing", "applying",
                                            "failing"}
      /\ \A s \in Threads : pc[s] = "emitting" <=> s = t
  BY <1>1, <1>3 DEF MemoryInv, TypeOK, ThreadsOK, Inside
<1>5. /\ Completed' = Completed
      /\ \A k : Version(k)' = Version(k)
      /\ \A keys : VersionsOf(keys)' = VersionsOf(keys)
  BY <1>1 DEF Completed, Version, VersionsOf
<1> HIDE DEF key
<1>6. Unreported = {key} /\ Unreported' = {}
  BY <1>2, <1>4, <1>5 DEF Unreported, key
<1>7. Latest(events, before)
  BY <1>6, LatestIs DEF EventsKept
<1>8. /\ before \in SUBSET Nat /\ v \in Nat
      /\ \A u \in before : u < v
  BY <1>2, VersionTypes
<1>9. events \in Seq(Nat) /\ Len(events) <= MaxEvents
  BY DEF MemoryInv, TypeOK, StoreOK
<1>10. before \cup {v} = VersionsOf(Completed)
  BY <1>2, VersionTypes
<1> HIDE DEF before, v
<1>11. Latest(events', VersionsOf(Completed))
  <2>1. Latest(Reported(events, v), before \cup {v})
    BY <1>7, <1>8, <1>9, ReportedIsLatest
  <2> QED  BY <1>1, <1>10, <2>1
<1>12. EventsAreLatest'
  <2>1. VersionsOf(Completed \ Unreported)' = VersionsOf(Completed)
    BY <1>1, <1>5, <1>6 DEF VersionsOf
  <2> QED  BY <1>11, <2>1 DEF EventsAreLatest, Latest
<1>13. \A k \in Completed' : Version(k)' <= book'.task.version
  BY <1>1, <1>5 DEF EventsKept
<1> QED  BY <1>4, <1>12, <1>13 DEF EventsKept

LEMMA EnvironmentKeepsEvents ==
  ASSUME MemoryInv, EventsKept, Environment
  PROVE  EventsKept'
<1>1. holder = NoThread /\ UNCHANGED <<records, events, pc, call, pending>>
  BY DEF Environment, AppendEvidence, SetBaton, OtherTaskEvidence, Writable, locals
<1>2. \A s \in Threads : pc[s] \notin Inside
  BY <1>1 DEF MemoryInv, LockFollowsCalls
<1>3. book'.task.version \in {book.task.version, book.task.version + 1}
  <2>1. \A e : Appended(book, e).task.version = book.task.version + 1
    BY DEF Appended, MemoryInv, TypeOK, StoreOK, Tasks
  <2>2. \A k : BatonSet(book, k).task.version = book.task.version + 1
    BY DEF BatonSet, MemoryInv, TypeOK, StoreOK, Tasks
  <2> QED
    BY <2>1, <2>2 DEF Environment, AppendEvidence, SetBaton, OtherTaskEvidence
<1>4. /\ Completed' = Completed
      /\ \A k : Version(k)' = Version(k)
      /\ \A keys : VersionsOf(keys)' = VersionsOf(keys)
      /\ Unreported' = Unreported
  BY <1>1 DEF Completed, Version, VersionsOf, Unreported, Key
<1>5. EventsAreLatest'
  BY <1>1, <1>4, SameRing DEF EventsKept
<1>6. \A k \in Completed : Version(k) <= book'.task.version
  BY <1>3, VersionTypes DEF EventsKept
<1>7. \A s \in Threads : pc'[s] \notin {"keeping", "emitting", "proposing", "applying",
                                        "failing"}
  BY <1>1, <1>2 DEF Inside
<1> QED  BY <1>4, <1>5, <1>6, <1>7 DEF EventsKept

\* The version moves by one with every effect.
LEMMA EffectMoves ==
  ASSUME NEW b \in Books, NEW i \in Intents, NEW o \in CycleOutcomes
  PROVE  /\ Applied(b, i, o).task.version = b.task.version + 1
         /\ AppliedResult(b, i, o).task = Applied(b, i, o).task
         /\ Denied(b).task.version = b.task.version + 1
         /\ DeniedResult(b).task = Denied(b).task
<1>1. /\ Admitted(b.task, i).version = b.task.version + 1
      /\ TaskDenied(b.task).version = b.task.version + 1
  BY DEF Books, Tasks, Admitted, TaskDenied
<1>2. TaskAfter(b, i, o).version = Admitted(b.task, i).version
  BY DEF TaskAfter, Admitted, Books, Tasks
<1> QED
  BY <1>1, <1>2 DEF Applied, AppliedResult, Denied, DeniedResult, Books

LEMMA ApplyKeepsEvents ==
  ASSUME MemoryInv, EventsKept, NEW t \in Threads, NEW o \in Outcomes, Apply(t, o)
  PROVE  EventsKept'
<1>1. /\ book \in Books /\ proposal[t] \in Intents /\ Stored(o) \in CycleOutcomes
      /\ pc[t] \in {"entering", "applying"}
  BY ApplyingIs DEF MemoryInv, TypeOK, StoreOK, Books, Apply, Stored
<1>2. /\ Applied(book, proposal[t], Stored(o)) \in Books
      /\ AppliedResult(book, proposal[t], Stored(o)) \in Results
  BY <1>1, AppliedBook
<1> QED  BY <1>1, <1>2, EffectMoves, WriteKeepsEvents DEF Apply

LEMMA FailKeepsEvents ==
  ASSUME MemoryInv, EventsKept, NEW t \in Threads, Fail(t)
  PROVE  EventsKept'
<1>1. book \in Books /\ Denied(book) \in Books /\ DeniedResult(book) \in Results
  BY OtherBooks DEF MemoryInv, TypeOK, StoreOK, Books
<1>2. /\ Denied(book).task.version = book.task.version + 1
      /\ DeniedResult(book).task = Denied(book).task
  BY <1>1 DEF Denied, DeniedResult, TaskDenied, Books, Tasks
<1> QED  BY <1>1, <1>2, WriteKeepsEvents DEF Fail

LEMMA StepKeepsEvents ==
  ASSUME MemoryInv, EventsKept, NEW t \in Threads, Begin(t) \/ Steps(t)
  PROVE  EventsKept'
<1>1. ASSUME NEW o \in Outcomes, Apply(t, o)
      PROVE  EventsKept'
  BY <1>1, ApplyKeepsEvents
<1>2. CASE Fail(t) \/ Keep(t) \/ Emit(t)
  BY <1>2, FailKeepsEvents, KeepKeepsEvents, EmitKeepsEvents
<1>3. ~ (ApplyReplay(t) /\ Service(t)) /\ ~ (FailRefused(t) /\ Recorded(t))
  BY ApplyingIs DEF EventsKept, ApplyReplay, FailRefused
<1>4. CASE \/ Replay(t) \/ LookUpRefused(t) \/ ApplyReplay(t) \/ ApplyRefused(t)
           \/ FailRefused(t) \/ Confirm(t) \/ Status(t)
  <2>1. /\ pc' = [pc EXCEPT ![t] = "done"] /\ UNCHANGED <<book, records, events, call>>
        /\ pending' = [pending EXCEPT ![t] = NothingPending]
    BY <1>3, <1>4 DEF Replay, LookUpRefused, ApplyReplay, ApplyRefused, FailRefused,
                      Confirm, Status, Answered, Refused, End, store
  <2>2. pc[t] \notin {"keeping", "emitting"}
    BY <1>4 DEF Replay, LookUpRefused, LookUp, ApplyReplay, ApplyRefused, Applying,
                FailRefused, Confirm, Status
  <2>3. \A s \in Threads : s # t => pending'[s] = pending[s]
    BY <2>1 DEF MemoryInv, TypeOK, ThreadsOK
  <2> QED  BY <2>1, <2>2, <2>3, QuietKeepsEvents
<1>5. CASE \/ Open(t) \/ CoordinatorDenied(t)
           \/ \E a \in Actors, action \in Actions : Propose(t, a, action)
  <2>1. /\ \E l \in {"proposing", "applying", "failing"} : pc' = [pc EXCEPT ![t] = l]
        /\ UNCHANGED <<book, records, events, call, pending>>
        /\ pc[t] \in {"entering", "proposing"}
    BY <1>5 DEF Open, LookUp, CoordinatorDenied, Propose, store, locals
  <2>2. ~ Recorded(t)
    BY <1>5 DEF Open, CoordinatorDenied, Propose, EventsKept
  <2> QED  BY <2>1, <2>2, QuietKeepsEvents
<1>6. CASE Begin(t)
  <2>1. /\ pc' = [pc EXCEPT ![t] = "entering"] /\ pc[t] = "idle"
        /\ UNCHANGED <<book, records, events, pending>>
    BY <1>6 DEF Begin, store
  <2>2. \A s \in Threads : s # t => call'[s] = call[s]
    BY <1>6 DEF Begin, MemoryInv, CallsMade
  <2> QED  BY <2>1, <2>2, QuietKeepsEvents
<1> QED  BY <1>1, <1>2, <1>4, <1>5, <1>6 DEF Steps

\* The telemetry ring is the latest completed cycles, each once and in the order of
\* their effects, but for the one whose call is about to report it (TelemetrySink.emit
\* inside run_cycle_transaction).
THEOREM RingIsLatest == Spec => []EventsAreLatest
<1>1. Init => EventsKept
  <2> SUFFICES ASSUME Init PROVE EventsKept
    OBVIOUS
  <2>1. Completed = {}
    BY DEF Init, Completed, NoRecord
  <2>2. EventsAreLatest
    BY <2>1 DEF Init, EventsAreLatest, VersionsOf
  <2> QED  BY <2>1, <2>2 DEF Init, EventsKept
<1>2. MemoryInv /\ EventsKept /\ [Next]_vars => EventsKept'
  <2>1. ASSUME MemoryInv, EventsKept, Next
        PROVE  EventsKept'
    BY <2>1, StepKeepsEvents, EnvironmentKeepsEvents DEF Next
  <2>2. ASSUME EventsKept, UNCHANGED vars
        PROVE  EventsKept'
    <3>1. UNCHANGED <<book, records, events, pc, call, pending>>
      BY <2>2 DEF vars, store, locals
    <3>2. /\ Completed' = Completed /\ Unreported' = Unreported
          /\ \A k : Version(k)' = Version(k)
      BY <3>1 DEF Completed, Unreported, Version, Key
    <3>3. EventsAreLatest'
      BY <2>2, <3>1, <3>2, SameRing DEF EventsKept
    <3> QED  BY <2>2, <3>1, <3>2, <3>3 DEF EventsKept, Recorded, Key
  <2> QED  BY <2>1, <2>2
<1>3. EventsKept => EventsAreLatest
  BY DEF EventsKept
<1> QED  BY Inductive, <1>1, <1>2, <1>3, PTL DEF Spec

-----------------------------------------------------------------------------
(* The ledger *)

\* Through the mapping, the rules are the same rules.
LEMMA SameData ==
  /\ Ledger!NoIntent = NoIntent /\ Ledger!NoResult = NoResult /\ Ledger!NewTask = NewTask
  /\ Ledger!NoEntry = [intent |-> NoIntent, result |-> NoResult]
  /\ Ledger!Terminal = Terminal /\ Ledger!Actions = Actions /\ Ledger!Evidence = Evidence
  /\ \A items : Ledger!IdsOf(items) = IdsOf(items)
  /\ \A items : Ledger!DistinctIds(items) <=> DistinctIds(items)
BY DEF Ledger!NoIntent, NoIntent, Ledger!NoResult, NoResult, Ledger!NewTask, NewTask,
       Ledger!NoEntry, Ledger!Terminal, Terminal, Ledger!Actions, Actions,
       Ledger!Evidence, Evidence, Ledger!IdsOf, IdsOf,
       Ledger!DistinctIds, DistinctIds

LEMMA SameAdmission ==
  /\ \A t, i : Ledger!Admits(t, i) <=> Admits(t, i)
  /\ \A t, i : Ledger!Admitted(t, i) = Admitted(t, i)
  /\ \A t, i, items : Ledger!MayPass(t, i, items) <=> MayPass(t, i, items)
<1>1. \A role : Ledger!RoleAction(role) = RoleAction(role)
  BY DEF Ledger!RoleAction, RoleAction
<1>2. \A t : Ledger!WithinBudget(t) <=> WithinBudget(t)
  BY DEF Ledger!WithinBudget, WithinBudget
<1>3. \A t, i : Ledger!Admits(t, i) <=> Admits(t, i)
  BY <1>1, <1>2, SameData DEF Ledger!Admits, Admits
<1>4. \A t, i : Ledger!Admitted(t, i) = Admitted(t, i)
  BY DEF Ledger!Admitted, Admitted
<1>5. \A t, i, items : Ledger!MayPass(t, i, items) <=> MayPass(t, i, items)
  BY DEF Ledger!MayPass, MayPass
<1> QED  BY <1>3, <1>4, <1>5

LEMMA SameEffects ==
  /\ \A b, i, o : Ledger!Applied(b, i, o) = Applied(b, i, o)
  /\ \A b, i, o : Ledger!AppliedResult(b, i, o) = AppliedResult(b, i, o)
  /\ \A b : Ledger!Denied(b) = Denied(b) /\ Ledger!DeniedResult(b) = DeniedResult(b)
  /\ \A b, e : Ledger!Appended(b, e) = Appended(b, e)
  /\ \A b, k : Ledger!BatonSet(b, k) = BatonSet(b, k)
<1>1. Ledger!LegalTransitions = LegalTransitions
  BY DEF Ledger!LegalTransitions, LegalTransitions
<1>2. \A b, i, o : Ledger!Succeeds(b, i, o) <=> Succeeds(b, i, o)
  BY <1>1, SameData, SameAdmission DEF Ledger!Succeeds, Succeeds
<1>3. \A b, i, o : Ledger!TaskAfter(b, i, o) = TaskAfter(b, i, o)
  BY <1>2, SameAdmission DEF Ledger!TaskAfter, TaskAfter
<1>4. \A b, i, o : Ledger!EvidenceFrom(b, i, o) = EvidenceFrom(b, i, o)
  BY <1>2 DEF Ledger!EvidenceFrom, EvidenceFrom
<1>5. \A b, i, o : Ledger!Applied(b, i, o) = Applied(b, i, o)
  BY <1>2, <1>3, <1>4 DEF Ledger!Applied, Applied
<1>6. \A b, i, o : Ledger!AppliedResult(b, i, o) = AppliedResult(b, i, o)
  BY <1>2, <1>3, <1>4 DEF Ledger!AppliedResult, AppliedResult
<1>7. \A b : Ledger!Denied(b) = Denied(b) /\ Ledger!DeniedResult(b) = DeniedResult(b)
  BY DEF Ledger!Denied, Denied, Ledger!DeniedResult, DeniedResult,
         Ledger!TaskDenied, TaskDenied
<1>8. \A b, e : Ledger!Appended(b, e) = Appended(b, e)
  BY DEF Ledger!Appended, Appended
<1>9. \A b, k : Ledger!BatonSet(b, k) = BatonSet(b, k)
  BY DEF Ledger!BatonSet, BatonSet
<1> QED  BY <1>5, <1>6, <1>7, <1>8, <1>9

\* What others see between operations, and while a thread writes.
LEMMA SeenOutside ==
  ASSUME MemoryInv, \A t \in Threads : pc[t] # "keeping"
  PROVE  BookSeen = book /\ ~ HalfWritten
BY DEF MemoryInv, TypeOK, StoreOK, BookSeen, HalfWritten

LEMMA InitLedger == Init => Ledger!LedgerInit
<1> SUFFICES ASSUME Init PROVE Ledger!LedgerInit
  OBVIOUS
<1>1. ~ HalfWritten
  BY DEF Init, HalfWritten
<1>2. BookSeen = [task |-> NewTask, evidence |-> {}, baton |-> NoKey]
  BY <1>1 DEF Init, BookSeen
<1>3. LedgerSeen = [k \in Keys |-> Ledger!NoEntry]
  BY <1>1, SameData DEF Init, LedgerSeen, RecordSeen, NoRecord
<1> QED  BY <1>2, <1>3, SameData DEF Ledger!LedgerInit

\* The first half of an effect is the entry.
LEMMA WriteEnters ==
  ASSUME MemoryInv, NEW t \in Threads, NEW b \in Books, NEW i \in Intents \cup {NoIntent},
         NEW r \in Results, Write(t, b, i, r), ~ Recorded(t),
         pc[t] \in {"entering", "applying", "failing"}
  PROVE  /\ Key(t) \in Keys /\ Ledger!Enter(Key(t))
         /\ BookSeen = book /\ BookSeen' = b
         /\ LedgerSeen'[Key(t)] = [intent |-> i, result |-> r]
<1> DEFINE record == [operation |-> call[t].kind, intent |-> i, result |-> r]
           p == [baton |-> b.baton, record |-> record]
<1>1. /\ pc \in [Threads -> {"idle", "entering", "done"} \cup Inside]
      /\ pending \in [Threads -> [baton : Keys \cup {NoKey}, record : Records]]
      /\ book \in Books
  BY DEF MemoryInv, TypeOK, StoreOK, ThreadsOK, Books
<1>2. Key(t) \in Keys /\ \A s \in Threads : pc[s] # "keeping"
  BY InsideIsHolder DEF Write, Enter, Inside
<1>3. ~ HalfWritten /\ BookSeen = book
  BY <1>2, SeenOutside
<1>4. /\ pc' = [pc EXCEPT ![t] = "keeping"] /\ pending' = [pending EXCEPT ![t] = p]
      /\ book' = [book EXCEPT !.task = b.task, !.evidence = b.evidence]
      /\ holder' = t /\ UNCHANGED <<records, call>>
  BY DEF Write, Enter
<1> HIDE DEF p
<1>5. HalfWritten' /\ pending'[t] = p
  BY <1>1, <1>4 DEF HalfWritten
<1>6. BookSeen' = b
  <2>1. BookSeen' = [book' EXCEPT !.baton = p.baton]
    BY <1>4, <1>5 DEF BookSeen
  <2>2. p.baton = b.baton
    BY DEF p
  <2> QED  BY <1>1, <1>4, <2>1, <2>2 DEF Books
<1>7. p.record.intent = i /\ p.record.result = r
  BY DEF p
<1>8. /\ \A k \in Keys : RecordSeen(k) = records[k]
      /\ \A k \in Keys : RecordSeen(k)' = IF k = Key(t) THEN p.record ELSE records[k]
  BY <1>3, <1>4, <1>5 DEF RecordSeen, Key
<1>9. LedgerSeen[Key(t)] = Ledger!NoEntry
  BY <1>2, <1>8, SameData DEF LedgerSeen, Recorded, NoRecord
<1>10. LedgerSeen'[Key(t)] = [intent |-> i, result |-> r]
  BY <1>2, <1>7, <1>8 DEF LedgerSeen
<1>11. LedgerSeen'[Key(t)] # Ledger!NoEntry
  BY <1>10, SameData DEF NoResult, Results
<1>12. LedgerSeen' = [LedgerSeen EXCEPT ![Key(t)] = LedgerSeen'[Key(t)]]
  BY <1>2, <1>8 DEF LedgerSeen
<1> QED  BY <1>2, <1>3, <1>6, <1>9, <1>10, <1>11, <1>12 DEF Ledger!Enter

LEMMA ApplyRecords ==
  ASSUME MemoryInv, NEW t \in Threads, NEW o \in Outcomes, Apply(t, o)
  PROVE  Ledger!Write
<1> DEFINE i == proposal[t]
           f == Stored(o)
<1>1. book \in Books /\ i \in Intents /\ f \in Outcomes /\ f \in CycleOutcomes
  BY ApplyingIs DEF MemoryInv, TypeOK, StoreOK, Books, Apply, Stored
<1>2. Applied(book, i, f) \in Books /\ AppliedResult(book, i, f) \in Results
  BY <1>1, AppliedBook
<1>3. /\ pc[t] \in {"entering", "applying"} /\ ~ Recorded(t) /\ Admits(book.task, i)
      /\ Write(t, Applied(book, i, f), i, AppliedResult(book, i, f))
  BY ApplyingIs DEF Apply
<1> HIDE DEF i, f
<1>4. /\ Key(t) \in Keys /\ Ledger!Enter(Key(t))
      /\ BookSeen = book /\ BookSeen' = Applied(book, i, f)
      /\ LedgerSeen'[Key(t)] = [intent |-> i, result |-> AppliedResult(book, i, f)]
  BY <1>1, <1>2, <1>3, WriteEnters
<1>5. /\ i.actor_id \in Actors /\ i.action \in Actions
      /\ i = [actor_id |-> i.actor_id, action |-> i.action,
              expected_version |-> book.task.version]
  BY <1>1, <1>3 DEF Intents, Admits
<1>6. Ledger!Record(Key(t), i.actor_id, i.action, f)
  BY <1>3, <1>4, <1>5, SameAdmission, SameEffects DEF Ledger!Record
<1> QED  BY <1>1, <1>4, <1>5, <1>6, SameData, OutcomesAssumption DEF Ledger!Write

LEMMA FailRecords ==
  ASSUME MemoryInv, NEW t \in Threads, Fail(t)
  PROVE  Ledger!Write
<1>1. Denied(book) \in Books /\ DeniedResult(book) \in Results
  BY OtherBooks DEF MemoryInv, TypeOK, StoreOK, Books
<1>2. /\ pc[t] = "failing" /\ ~ Recorded(t) /\ book.task.state \notin Terminal
      /\ Write(t, Denied(book), NoIntent, DeniedResult(book))
  BY DEF Fail, MayFail
<1>3. /\ Key(t) \in Keys /\ Ledger!Enter(Key(t))
      /\ BookSeen = book /\ BookSeen' = Denied(book)
      /\ LedgerSeen'[Key(t)] = [intent |-> NoIntent, result |-> DeniedResult(book)]
  BY <1>1, <1>2, WriteEnters
<1> QED  BY <1>2, <1>3, SameData, SameEffects DEF Ledger!Write, Ledger!Refuse

\* The second half changes nothing that others see.
LEMMA KeepStutters ==
  ASSUME MemoryInv, NEW t \in Threads, Keep(t)
  PROVE  UNCHANGED Ledger!ledgerVars
<1>1. /\ pc \in [Threads -> {"idle", "entering", "done"} \cup Inside]
      /\ records \in [Keys -> Records]
  BY DEF MemoryInv, TypeOK, StoreOK, ThreadsOK
<1>2. /\ pc[t] = "keeping" /\ holder = t /\ Key(t) \in Keys /\ HalfWritten
      /\ \A s \in Threads : s # t => pc[s] # "keeping"
  BY InsideIsHolder DEF Keep, Inside, HalfWritten
<1>3. /\ \A s \in Threads : pc'[s] # "keeping"
      /\ book' = [book EXCEPT !.baton = pending[t].baton]
      /\ records' = [records EXCEPT ![Key(t)] = pending[t].record]
      /\ holder' \in Threads \cup {NoThread}
  <2>1. \E l : l # "keeping" /\ pc' = [pc EXCEPT ![t] = l]
    BY DEF Keep, Answered, End
  <2> QED  BY <1>1, <1>2, <2>1 DEF Keep, Leave
<1>4. ~ HalfWritten'
  BY <1>3 DEF HalfWritten
<1>5. BookSeen' = BookSeen
  BY <1>2, <1>3, <1>4 DEF BookSeen
<1>6. \A k \in Keys : RecordSeen(k)' = RecordSeen(k)
  BY <1>1, <1>2, <1>3, <1>4 DEF RecordSeen
<1>7. LedgerSeen' = LedgerSeen
  BY <1>6 DEF LedgerSeen
<1> QED  BY <1>5, <1>7 DEF Ledger!ledgerVars

\* Nor does any other step of a thread.
LEMMA QuietStutters ==
  ASSUME MemoryInv, MemoryInv', NEW t \in Threads, NEW l, l # "keeping", pc[t] # "keeping",
         pc' = [pc EXCEPT ![t] = l], UNCHANGED store,
         \A s \in Threads : s # t => pending'[s] = pending[s] /\ call'[s] = call[s]
  PROVE  UNCHANGED Ledger!ledgerVars
<1>1. /\ pc \in [Threads -> {"idle", "entering", "done"} \cup Inside]
      /\ UNCHANGED <<book, records>>
  BY DEF MemoryInv, TypeOK, ThreadsOK, store
<1>2. \A s \in Threads : pc[s] = "keeping" <=> pc'[s] = "keeping"
  BY <1>1
<1>3. CASE \E s \in Threads : pc[s] = "keeping"
  <2> PICK s \in Threads : pc[s] = "keeping"
    BY <1>3
  <2>1. holder = s /\ holder' = s
    BY <1>2 DEF MemoryInv, LockFollowsCalls, Inside
  <2>2. /\ HalfWritten /\ HalfWritten' /\ pending'[s] = pending[s] /\ Key(s)' = Key(s)
    BY <1>2, <2>1 DEF HalfWritten, Key
  <2>3. BookSeen' = BookSeen
    BY <1>1, <2>1, <2>2 DEF BookSeen
  <2>4. \A k \in Keys : RecordSeen(k)' = RecordSeen(k)
    BY <1>1, <2>1, <2>2 DEF RecordSeen
  <2>5. LedgerSeen' = LedgerSeen
    BY <2>4 DEF LedgerSeen
  <2> QED  BY <2>3, <2>5 DEF Ledger!ledgerVars
<1>4. CASE \A s \in Threads : pc[s] # "keeping"
  <2>1. /\ holder \in Threads \cup {NoThread} /\ holder' \in Threads \cup {NoThread}
    BY DEF MemoryInv, TypeOK, StoreOK
  <2>2. ~ HalfWritten /\ ~ HalfWritten'
    BY <1>2, <1>4, <2>1 DEF HalfWritten
  <2>3. BookSeen' = BookSeen
    BY <1>1, <2>2 DEF BookSeen
  <2>4. \A k \in Keys : RecordSeen(k)' = RecordSeen(k)
    BY <1>1, <2>2 DEF RecordSeen
  <2>5. LedgerSeen' = LedgerSeen
    BY <2>4 DEF LedgerSeen
  <2> QED  BY <2>3, <2>5 DEF Ledger!ledgerVars
<1> QED  BY <1>3, <1>4

LEMMA StepRecords ==
  ASSUME MemoryInv, MemoryInv', NEW t \in Threads, Begin(t) \/ Steps(t)
  PROVE  [Ledger!LedgerNext]_Ledger!ledgerVars
<1>1. ASSUME NEW o \in Outcomes, Apply(t, o)
      PROVE  Ledger!Write
  BY <1>1, ApplyRecords
<1>2. ASSUME Fail(t)
      PROVE  Ledger!Write
  BY <1>2, FailRecords
<1>3. ASSUME Keep(t)
      PROVE  UNCHANGED Ledger!ledgerVars
  BY <1>3, KeepStutters
<1>4. ASSUME Begin(t)
      PROVE  UNCHANGED Ledger!ledgerVars
  <2>1. /\ pc[t] # "keeping" /\ pc' = [pc EXCEPT ![t] = "entering"]
        /\ UNCHANGED store /\ UNCHANGED pending
    BY <1>4 DEF Begin
  <2>2. \A s \in Threads : s # t => call'[s] = call[s]
    BY <1>4 DEF Begin, MemoryInv, CallsMade
  <2> QED  BY <2>1, <2>2, QuietStutters
<1>5. ASSUME NEW l, l # "keeping", pc[t] # "keeping", pc' = [pc EXCEPT ![t] = l],
             UNCHANGED <<store, call>>,
             \/ UNCHANGED pending
             \/ \E p : pending' = [pending EXCEPT ![t] = p]
      PROVE  UNCHANGED Ledger!ledgerVars
  <2>1. \A s \in Threads : s # t => pending'[s] = pending[s]
    BY <1>5 DEF MemoryInv, TypeOK, ThreadsOK
  <2> QED  BY <1>5, <2>1, QuietStutters
<1>6. ASSUME \/ Replay(t) \/ LookUpRefused(t) \/ ApplyRefused(t)
             \/ Confirm(t) \/ Status(t)
      PROVE  UNCHANGED Ledger!ledgerVars
  <2>1. pc[t] # "keeping" /\ pc' = [pc EXCEPT ![t] = "done"]
    BY <1>6 DEF Replay, LookUpRefused, LookUp, ApplyRefused, Applying, Confirm, Status,
                Answered, Refused, End
  <2>2. /\ UNCHANGED <<store, call>>
        /\ pending' = [pending EXCEPT ![t] = NothingPending]
    BY <1>6 DEF Replay, LookUpRefused, ApplyRefused, Confirm, Status, Answered, Refused, End
  <2> QED  BY <1>5, <2>1, <2>2
<1>7. ASSUME \/ Open(t) \/ CoordinatorDenied(t) \/ Emit(t)
             \/ \E a \in Actors, action \in Actions : Propose(t, a, action)
      PROVE  UNCHANGED Ledger!ledgerVars
  <2>1. /\ pc[t] # "keeping"
        /\ \E l \in {"proposing", "applying", "failing", "confirming"} :
             pc' = [pc EXCEPT ![t] = l]
        /\ UNCHANGED <<store, call, pending>>
    BY <1>7 DEF Open, LookUp, CoordinatorDenied, Emit, Propose, locals
  <2> QED  BY <1>5, <2>1
<1>8. ASSUME ApplyReplay(t) \/ FailRefused(t)
      PROVE  UNCHANGED Ledger!ledgerVars
  <2>1. /\ pc[t] # "keeping"
        /\ \E l \in {"emitting", "confirming", "done"} : pc' = [pc EXCEPT ![t] = l]
        /\ UNCHANGED <<store, call>>
    BY <1>8 DEF ApplyReplay, Applying, FailRefused, Answered, Refused, End
  <2>2. \A s \in Threads : s # t => pending'[s] = pending[s]
    BY <1>8 DEF MemoryInv, TypeOK, ThreadsOK, ApplyReplay, FailRefused, Answered, Refused, End
  <2> QED  BY <2>1, <2>2, QuietStutters
<1> QED  BY <1>1, <1>2, <1>3, <1>4, <1>6, <1>7, <1>8 DEF Steps, Ledger!LedgerNext

\* The direct writers write the book of the ledger, those of other tasks do not.
LEMMA EnvironmentRecords ==
  ASSUME MemoryInv, MemoryInv', Environment
  PROVE  [Ledger!LedgerNext]_Ledger!ledgerVars
<1>1. holder = NoThread /\ UNCHANGED <<records, holder>>
  BY DEF Environment, AppendEvidence, SetBaton, OtherTaskEvidence, Writable, lock
<1>2. ~ HalfWritten /\ ~ HalfWritten'
  BY <1>1 DEF HalfWritten
<1>3. BookSeen = book /\ BookSeen' = book'
  BY <1>2 DEF BookSeen
<1>4. LedgerSeen' = LedgerSeen
  <2>1. \A k \in Keys : RecordSeen(k)' = RecordSeen(k)
    BY <1>1, <1>2 DEF RecordSeen
  <2> QED  BY <2>1 DEF LedgerSeen
<1>5. ASSUME NEW e \in DirectEvidence, AppendEvidence(e)
      PROVE  Ledger!WriteDirectly
  <2>1. Ledger!AppendEvidence(e) /\ e \in Ledger!Evidence
    BY <1>3, <1>4, <1>5, SameData, SameEffects
       DEF AppendEvidence, Writable, Ledger!AppendEvidence
  <2> QED  BY <2>1 DEF Ledger!WriteDirectly
<1>6. ASSUME NEW k \in DirectBatons, SetBaton(k)
      PROVE  Ledger!WriteDirectly
  <2>1. Ledger!SetBaton(k) /\ k \in Keys \cup {NoKey}
    BY <1>3, <1>4, <1>6, SameData, SameEffects DEF SetBaton, Writable, Ledger!SetBaton
  <2> QED  BY <2>1 DEF Ledger!WriteDirectly
<1>7. ASSUME NEW id \in ForeignIds, OtherTaskEvidence(id)
      PROVE  UNCHANGED Ledger!ledgerVars
  BY <1>3, <1>4, <1>7 DEF OtherTaskEvidence, Ledger!ledgerVars
<1> QED  BY <1>5, <1>6, <1>7 DEF Environment, Ledger!LedgerNext

\* The store is the ledger that CycleLedger promises (MemoryStateStore.apply_cycle,
\* fail_cycle): one entry per key, in one step with its effect, whatever threads meet.
THEOREM StoreIsLedger == Spec => KeepsLedger
<1>1. Init => Ledger!LedgerInit
  BY InitLedger
<1>2. MemoryInv /\ MemoryInv' /\ [Next]_vars => [Ledger!LedgerNext]_Ledger!ledgerVars
  <2>1. ASSUME MemoryInv, MemoryInv', Next
        PROVE  [Ledger!LedgerNext]_Ledger!ledgerVars
    BY <2>1, StepRecords, EnvironmentRecords DEF Next
  <2>2. ASSUME UNCHANGED vars
        PROVE  UNCHANGED Ledger!ledgerVars
    <3>1. UNCHANGED <<book, records, holder, pc, pending, call>>
      BY <2>2 DEF vars, store, lock, locals
    <3> QED  BY <3>1 DEF Ledger!ledgerVars, BookSeen, LedgerSeen, RecordSeen, HalfWritten, Key
  <2> QED  BY <2>1, <2>2
<1> QED  BY Inductive, <1>1, <1>2, PTL DEF Spec, KeepsLedger, Ledger!LedgerSpec
=============================================================================
