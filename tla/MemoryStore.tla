----------------------------- MODULE MemoryStore -----------------------------
(***************************************************************************)
(* MemoryStateStore for one task: the threads of one process share one     *)
(* backing and its re-entrant lock.  A service call holds the lock from    *)
(* its look-up to its confirmation, with the coordinator's answer and the  *)
(* telemetry event in between; everything else takes it for one operation. *)
(*                                                                         *)
(* A step that enters and leaves the lock only has CanEnter as a guard.    *)
(* apply_cycle and fail_cycle write the task and its evidence first and    *)
(* the baton and the record after; the lock is what makes the two one.     *)
(***************************************************************************)
EXTENDS TaskRules, Sequences

CONSTANTS
  Threads, NoThread,
  CallsOf,          \* per thread: the calls, each with its cycle key, it may make
  DirectIntents,    \* actor and action of the intents apply_cycle is called with
  DirectOutcomes,   \* what the actions of those calls hand back
  DemoActor,        \* the worker the breaker acts as ("worker-1")
  MaxEvents,        \* MAX_TELEMETRY_EVENTS
  DirectEvidence,   \* items that append_evidence is called with
  DirectBatons,     \* batons that set_baton is called with
  ForeignIds,       \* evidence ids that other tasks of the process may take
  MaxVersion        \* bound of the model: writes from elsewhere stop at this version

Kinds == {"normal", "breaker", "apply", "status"}

ASSUME ThreadsAssumption == NoThread \notin Threads
ASSUME CallsAssumption == CallsOf \in [Threads -> SUBSET [kind : Kinds, key : Keys]]
ASSUME DemoActorAssumption == DemoActor \in Actors
ASSUME BoundsAssumption == MaxEvents \in Nat \ {0} /\ MaxVersion \in Nat
ASSUME DirectAssumption ==
  /\ DirectIntents \subseteq [actor_id : Actors, action : Actions]
  /\ DirectOutcomes \subseteq Outcomes
  /\ DirectEvidence \subseteq Evidence
  /\ DirectBatons \subseteq Keys \cup {NoKey}
  /\ ForeignIds \subseteq EvidenceIds

VARIABLES
  book,       \* the task, its evidence and its baton
  records,    \* backing.cycles
  foreign,    \* backing.evidence_ids that belong to other tasks
  holder,     \* the thread in the lock
  depth,      \* how often it has entered
  events,     \* the telemetry ring: the versions of the completed cycles
  committed,  \* history: the task and baton after each operation so far
  pc, call,
  held,       \* the task that transact was given
  proposal,   \* the intent a thread came with, or had authorized
  pending,    \* what is still to be kept, or was: the baton and the record
  answer      \* what the HTTP caller gets

lock == <<holder, depth>>
store == <<book, records, foreign, committed>>
locals == <<call, held, proposal, pending>>
vars == <<store, lock, events, pc, locals, answer>>

-----------------------------------------------------------------------------
(* Data *)

NoRecord == [operation |-> "none", intent |-> NoIntent, result |-> NoResult]
NothingPending == [baton |-> NoKey, record |-> NoRecord]
NoCall == [kind |-> "none", key |-> NoKey]

Shown(b) == [task |-> b.task, baton |-> b.baton]
NoStatus == [task |-> NewTask, baton |-> NoKey]
NoAnswer == [code |-> 0, result |-> NoResult, shown |-> NoStatus]

Inside == {"proposing", "applying", "failing", "keeping", "emitting", "confirming"}

Key(t) == call[t].key
Service(t) == call[t].kind \in {"normal", "breaker"}

-----------------------------------------------------------------------------
(* The lock, and how a call ends *)

\* Mutant: a lock that its holder cannot enter again.
CanEnterOnce(t) == holder = NoThread

CanEnter(t) == holder \in {NoThread, t}

Enter(t) == CanEnter(t) /\ holder' = t /\ depth' = depth + 1
Leave(t) == depth' = depth - 1 /\ holder' = IF depth = 1 THEN NoThread ELSE t

\* Mutant: an exception leaves the innermost with block only.
UnwindOnce(t) == IF holder = t /\ depth > 1 THEN Leave(t) ELSE UNCHANGED lock

\* An exception leaves every with block it passes.
Unwind(t) ==
  IF holder = t THEN holder' = NoThread /\ depth' = 0 ELSE UNCHANGED lock

End(t, code, result, shown) ==
  /\ pc' = [pc EXCEPT ![t] = "done"]
  /\ answer' = [answer EXCEPT ![t] = [code |-> code, result |-> result, shown |-> shown]]
  /\ held' = [held EXCEPT ![t] = NewTask]
  /\ proposal' = [proposal EXCEPT ![t] = NoIntent]
  /\ pending' = [pending EXCEPT ![t] = NothingPending]
  /\ UNCHANGED call

\* The conflicts, refusals and denials that the API answers with 409.
Refused(t) == End(t, 409, NoResult, NoStatus) /\ Unwind(t)

Answered(t, result) == End(t, 200, result, NoStatus)

-----------------------------------------------------------------------------
Init ==
  /\ book = [task |-> NewTask, evidence |-> {}, baton |-> NoKey]
  /\ records = [k \in Keys |-> NoRecord]
  /\ foreign = {}
  /\ committed = {NoStatus}
  /\ holder = NoThread
  /\ depth = 0
  /\ events = <<>>
  /\ pc = [t \in Threads |-> "idle"]
  /\ call = [t \in Threads |-> NoCall]
  /\ held = [t \in Threads |-> NewTask]
  /\ proposal = [t \in Threads |-> NoIntent]
  /\ pending = [t \in Threads |-> NothingPending]
  /\ answer = [t \in Threads |-> NoAnswer]

\* apply_cycle comes with an intent for the version its caller saw.
Begin(t) ==
  /\ pc[t] = "idle"
  /\ \E c \in CallsOf[t] :
       /\ call' = [call EXCEPT ![t] = c]
       /\ IF c.kind = "apply"
          THEN \E d \in DirectIntents :
                 proposal' = [proposal EXCEPT ![t] =
                   [actor_id |-> d.actor_id, action |-> d.action,
                    expected_version |-> book.task.version]]
          ELSE UNCHANGED proposal
  /\ pc' = [pc EXCEPT ![t] = "entering"]
  /\ UNCHANGED <<store, lock, events, held, pending, answer>>

-----------------------------------------------------------------------------
(* run_cycle_transaction: look up, and hold on to the lock *)

Recorded(t) == records[Key(t)] # NoRecord
\* Mutant: a key is a key, whatever it was used for.
AnyOperation(t) == Recorded(t)

SameOperation(t) == records[Key(t)].operation = call[t].kind

LookUp(t) == pc[t] = "entering" /\ Service(t) /\ CanEnter(t)

Replay(t) ==
  /\ LookUp(t)
  /\ Recorded(t) /\ SameOperation(t)
  /\ Answered(t, records[Key(t)].result)
  /\ UNCHANGED <<store, lock, events>>

LookUpRefused(t) ==
  /\ LookUp(t)
  /\ Recorded(t) /\ ~ SameOperation(t)
  /\ Refused(t)
  /\ UNCHANGED <<store, events>>

\* Mutant: the lock is only taken for the look-up.
OpenAndLeave(t) ==
  /\ pc[t] = "entering" /\ Service(t) /\ holder = NoThread
  /\ ~ Recorded(t)
  /\ held' = [held EXCEPT ![t] = book.task]
  /\ proposal' = [proposal EXCEPT ![t] =
       IF call[t].kind = "breaker"
       THEN [actor_id |-> DemoActor, action |-> "record_progress",
             expected_version |-> book.task.version]
       ELSE NoIntent]
  /\ pc' = [pc EXCEPT ![t] = IF call[t].kind = "breaker" THEN "applying" ELSE "proposing"]
  /\ UNCHANGED <<store, lock, events, call, pending, answer>>

\* The breaker makes up its intent; a normal cycle asks the coordinator.
Open(t) ==
  /\ LookUp(t)
  /\ ~ Recorded(t)
  /\ Enter(t)
  /\ held' = [held EXCEPT ![t] = book.task]
  /\ proposal' = [proposal EXCEPT ![t] =
       IF call[t].kind = "breaker"
       THEN [actor_id |-> DemoActor, action |-> "record_progress",
             expected_version |-> book.task.version]
       ELSE NoIntent]
  /\ pc' = [pc EXCEPT ![t] = IF call[t].kind = "breaker" THEN "applying" ELSE "proposing"]
  /\ UNCHANGED <<store, events, call, pending, answer>>

-----------------------------------------------------------------------------
(* transact *)

\* The coordinator proposes, through the budget and the registry of this very
\* store, and the policy authorizes.
Propose(t, a, action) ==
  LET i == [actor_id |-> a, action |-> action, expected_version |-> held[t].version]
  IN  /\ pc[t] = "proposing"
      /\ CanEnter(t)
      /\ Authorized(i, held[t])
      /\ proposal' = [proposal EXCEPT ![t] = i]
      /\ pc' = [pc EXCEPT ![t] = "applying"]
      /\ UNCHANGED <<store, lock, events, call, held, pending, answer>>

CoordinatorDenied(t) ==
  /\ pc[t] = "proposing"
  /\ CanEnter(t)
  /\ pc' = [pc EXCEPT ![t] = "failing"]
  /\ UNCHANGED <<store, lock, events, locals, answer>>

\* apply_cycle, called by transact or from outside.
Applying(t) ==
  /\ \/ pc[t] = "applying"
     \/ pc[t] = "entering" /\ call[t].kind = "apply"
  /\ CanEnter(t)

\* The record that is already there: a service call goes on as if it were its own.
ApplyReplay(t) ==
  /\ Applying(t)
  /\ Recorded(t) /\ SameOperation(t) /\ records[Key(t)].intent = proposal[t]
  /\ IF Service(t)
     THEN /\ pending' = [pending EXCEPT ![t].record = records[Key(t)]]
          /\ pc' = [pc EXCEPT ![t] = "emitting"]
          /\ UNCHANGED <<call, held, proposal, answer>>
     ELSE Answered(t, records[Key(t)].result)
  /\ UNCHANGED <<store, lock, events>>

ApplyRefused(t) ==
  /\ Applying(t)
  /\ IF Recorded(t)
     THEN ~ SameOperation(t) \/ records[Key(t)].intent # proposal[t]
     ELSE ~ Admits(book.task, proposal[t])
  /\ Refused(t)
  /\ UNCHANGED <<store, events>>

OutcomesFor(t) ==
  CASE call[t].kind = "normal"  -> {Progress(Key(t), proposal[t].actor_id)}
    [] call[t].kind = "breaker" -> {Failure}
    [] OTHER                    -> DirectOutcomes

\* Mutant: only the ids of this task are looked at.
StoredAsIs(o) == o

\* Evidence ids are global: an outcome that takes one of another task's is
\* stored as a failure, like one that takes one of this task's.
Stored(o) == IF IdsOf(o.evidence) \cap foreign = {} THEN o ELSE Failure

\* Mutant: the record is kept under apply_cycle's own operation, not the caller's.
WriteUnnamed(t, b, intent, result) ==
  /\ Enter(t)
  /\ book' = [book EXCEPT !.task = b.task, !.evidence = b.evidence]
  /\ pending' = [pending EXCEPT ![t] =
       [baton  |-> b.baton,
        record |-> [operation |-> "apply", intent |-> intent, result |-> result]]]
  /\ pc' = [pc EXCEPT ![t] = "keeping"]
  /\ UNCHANGED <<records, foreign, committed, events, call, held, proposal, answer>>

\* The task and its evidence are written; baton and record are still to come.
Write(t, b, intent, result) ==
  /\ Enter(t)
  /\ book' = [book EXCEPT !.task = b.task, !.evidence = b.evidence]
  /\ pending' = [pending EXCEPT ![t] =
       [baton  |-> b.baton,
        record |-> [operation |-> call[t].kind, intent |-> intent, result |-> result]]]
  /\ pc' = [pc EXCEPT ![t] = "keeping"]
  /\ UNCHANGED <<records, foreign, committed, events, call, held, proposal, answer>>

Apply(t, o) ==
  /\ Applying(t)
  /\ ~ Recorded(t)
  /\ Admits(book.task, proposal[t])
  /\ o \in OutcomesFor(t)
  /\ Write(t, Applied(book, proposal[t], Stored(o)), proposal[t],
           AppliedResult(book, proposal[t], Stored(o)))

\* Mutant: a terminal task is parked as well.
MayFailAlways(t) == book.task.version = held[t].version

MayFail(t) == book.task.version = held[t].version /\ book.task.state \notin Terminal

\* fail_cycle.  Under the lock that transact holds it finds no record.
Fail(t) ==
  /\ pc[t] = "failing"
  /\ CanEnter(t)
  /\ ~ Recorded(t)
  /\ MayFail(t)
  /\ Write(t, Denied(book), NoIntent, DeniedResult(book))

FailRefused(t) ==
  /\ pc[t] = "failing"
  /\ CanEnter(t)
  /\ Recorded(t) \/ ~ MayFail(t)
  /\ IF Recorded(t) /\ SameOperation(t)
     THEN /\ pending' = [pending EXCEPT ![t].record = records[Key(t)]]
          /\ pc' = [pc EXCEPT ![t] = "confirming"]
          /\ UNCHANGED <<lock, call, held, proposal, answer>>
     ELSE Refused(t)
  /\ UNCHANGED <<store, events>>

\* The second half of apply_cycle and fail_cycle.
Keep(t) ==
  /\ pc[t] = "keeping"
  /\ book' = [book EXCEPT !.baton = pending[t].baton]
  /\ records' = [records EXCEPT ![Key(t)] = pending[t].record]
  /\ committed' = committed \cup {Shown(book')}
  /\ Leave(t)
  /\ IF Service(t)
     THEN /\ pc' = [pc EXCEPT ![t] =
               IF pending[t].record.intent = NoIntent THEN "confirming" ELSE "emitting"]
          /\ UNCHANGED <<locals, answer>>
     ELSE Answered(t, pending[t].record.result)
  /\ UNCHANGED <<foreign, events>>

\* Mutant: the ring keeps one event too many.
ReportedLong(ring, v) ==
  LET all == Append(ring, v)
  IN  IF Len(all) > MaxEvents + 1 THEN Tail(all) ELSE all

\* TelemetrySink.emit: the oldest events go.
Reported(ring, v) ==
  LET all == Append(ring, v)
  IN  IF Len(all) > MaxEvents THEN Tail(all) ELSE all

Emit(t) ==
  /\ pc[t] = "emitting"
  /\ events' = Reported(events, pending[t].record.result.task.version)
  /\ pc' = [pc EXCEPT ![t] = "confirming"]
  /\ UNCHANGED <<store, lock, locals, answer>>

\* What is recorded is read again, and the lock left.  The record of another
\* operation is a conflict; no record, or another result, is a RuntimeError, which
\* is not among the exceptions the API maps.
Confirm(t) ==
  /\ pc[t] = "confirming"
  /\ CASE Recorded(t) /\ ~ SameOperation(t) -> End(t, 409, NoResult, NoStatus)
       [] Recorded(t) /\ SameOperation(t)
          /\ records[Key(t)].result = pending[t].record.result ->
            Answered(t, pending[t].record.result)
       [] OTHER -> End(t, 500, NoResult, NoStatus)
  /\ Unwind(t)
  /\ UNCHANGED <<store, events>>

\* Mutant: the status is read without the lock.
StatusUnlocked(t) ==
  /\ pc[t] = "entering" /\ call[t].kind = "status"
  /\ End(t, 200, NoResult, Shown(book))
  /\ UNCHANGED <<store, lock, events>>

\* get_task_status
Status(t) ==
  /\ pc[t] = "entering" /\ call[t].kind = "status"
  /\ CanEnter(t)
  /\ End(t, 200, NoResult, Shown(book))
  /\ UNCHANGED <<store, lock, events>>

-----------------------------------------------------------------------------
(* Direct writers, of this task and of others *)

Writable ==
  /\ holder = NoThread
  /\ book.task.state \notin Terminal
  /\ book.task.version < MaxVersion

AppendEvidence(e) ==
  /\ Writable
  /\ e.id \notin IdsOf(book.evidence) \cup foreign
  /\ book' = Appended(book, e)
  /\ committed' = committed \cup {Shown(book')}
  /\ UNCHANGED <<records, foreign, lock, events, pc, locals, answer>>

SetBaton(k) ==
  /\ Writable
  /\ book' = BatonSet(book, k)
  /\ committed' = committed \cup {Shown(book')}
  /\ UNCHANGED <<records, foreign, lock, events, pc, locals, answer>>

OtherTaskEvidence(id) ==
  /\ holder = NoThread
  /\ book.task.version < MaxVersion
  /\ id \notin IdsOf(book.evidence) \cup foreign
  /\ foreign' = foreign \cup {id}
  /\ UNCHANGED <<book, records, committed, lock, events, pc, locals, answer>>

-----------------------------------------------------------------------------
Steps(t) ==
  \/ Replay(t) \/ LookUpRefused(t) \/ Open(t)
  \/ \E a \in Actors, action \in Actions : Propose(t, a, action)
  \/ CoordinatorDenied(t)
  \/ ApplyReplay(t) \/ ApplyRefused(t) \/ \E o \in Outcomes : Apply(t, o)
  \/ Fail(t) \/ FailRefused(t)
  \/ Keep(t) \/ Emit(t) \/ Confirm(t) \/ Status(t)

Environment ==
  \/ \E e \in DirectEvidence : AppendEvidence(e)
  \/ \E k \in DirectBatons : SetBaton(k)
  \/ \E id \in ForeignIds : OtherTaskEvidence(id)

Next == (\E t \in Threads : Begin(t) \/ Steps(t)) \/ Environment

Spec == Init /\ [][Next]_vars

\* As long as some thread can go on, one of them does: the operating system runs
\* the process, and a coordinator that is asked answers or fails.
Fairness == WF_vars(\E t \in Threads : Steps(t))
FairSpec == Spec /\ Fairness

-----------------------------------------------------------------------------
(* Properties *)

Records == [operation : Kinds \cup {"none"}, intent : Intents \cup {NoIntent},
            result : Results \cup {NoResult}]

StoreOK ==
  /\ book \in [task : Tasks, evidence : SUBSET Evidence, baton : Keys \cup {NoKey}]
  /\ records \in [Keys -> Records]
  /\ foreign \subseteq EvidenceIds
  /\ holder \in Threads \cup {NoThread} /\ depth \in Nat
  /\ events \in Seq(Nat) /\ Len(events) <= MaxEvents

ThreadsOK ==
  /\ pc \in [Threads -> {"idle", "entering", "done"} \cup Inside]
  /\ \A t \in Threads : call[t] \in CallsOf[t] \cup {NoCall}
  /\ held \in [Threads -> Tasks]
  /\ proposal \in [Threads -> Intents \cup {NoIntent}]
  /\ pending \in [Threads -> [baton : Keys \cup {NoKey}, record : Records]]

\* Every part of the store and of a thread keeps its shape, the ring its bound.
TypeOK == StoreOK /\ ThreadsOK

\* The lock is held by the one thread that is inside an operation, as deep as its
\* with blocks go, and free when every call has ended, by whatever exception.
LockFollowsCalls ==
  /\ \A t \in Threads : holder = t <=> pc[t] \in Inside
  /\ depth = IF holder = NoThread THEN 0
             ELSE IF pc[holder] = "keeping" /\ Service(holder) THEN 2 ELSE 1

\* Whoever gets a result under a key gets the one recorded there for its operation,
\* and no caller sees an internal error.
AnswersAgree ==
  \A t \in Threads : pc[t] = "done" /\ call[t].kind # "status" =>
    /\ answer[t].code \in {200, 409}
    /\ answer[t].code = 200 =>
         records[Key(t)] # NoRecord /\ records[Key(t)].operation = call[t].kind
         /\ answer[t].result = records[Key(t)].result

\* A call that has written its effect is answered with it: neither a refusal nor an
\* internal error leaves an effect behind that its caller was not told of.
EffectIsAnswered ==
  [][\A t \in Threads :
       pc[t] \in {"keeping", "emitting", "confirming"} /\ pc'[t] = "done" =>
         /\ answer'[t].code = 200
         /\ records'[Key(t)].operation = call[t].kind
         /\ answer'[t].result = records'[Key(t)].result]_vars

\* An evidence id is taken once in the process, whichever task takes it, and what a
\* caller was told is stored is there.
EvidenceIsOnce ==
  /\ IdsOf(book.evidence) \cap foreign = {}
  /\ DistinctIds(book.evidence)
  /\ \A t \in Threads : answer[t].result.evidence \subseteq book.evidence

\* A status is the task and the baton of one moment between operations.
StatusIsWhole ==
  \A t \in Threads : pc[t] = "done" /\ call[t].kind = "status" =>
    answer[t].shown \in committed

Completed == {k \in Keys : /\ records[k].operation \in {"normal", "breaker"}
                           /\ records[k].intent # NoIntent}
VersionsOf(keys) == {records[k].result.task.version : k \in keys}
Unreported == {k \in Completed : \E t \in Threads : pc[t] = "emitting" /\ Key(t) = k}

\* The ring holds the latest completed cycles, each once and in the order of their
\* effects, up to the one whose call is about to report it.
EventsAreLatest ==
  LET reported == VersionsOf(Completed \ Unreported)
      ring == {events[n] : n \in DOMAIN events}
  IN  /\ ring \subseteq reported
      /\ \A m, n \in DOMAIN events : m < n => events[m] < events[n]
      /\ Len(events) = MaxEvents \/ ring = reported
      /\ \A v \in reported \ ring : \A w \in ring : v < w

\* Every call is answered: none waits for ever for a lock that a call before it, or
\* the call itself, has kept.
EveryCallAnswers == <>[](\A t \in Threads : pc[t] \in {"idle", "done"})

-----------------------------------------------------------------------------
(* The ledger this store keeps: a thread that is between the two halves of its *)
(* write, and so holds the lock, has for everyone else written both            *)

HalfWritten == holder # NoThread /\ pc[holder] = "keeping"
BookSeen ==
  IF HalfWritten THEN [book EXCEPT !.baton = pending[holder].baton] ELSE book

RecordSeen(k) ==
  IF HalfWritten /\ Key(holder) = k THEN pending[holder].record ELSE records[k]
LedgerSeen ==
  [k \in Keys |-> [intent |-> RecordSeen(k).intent, result |-> RecordSeen(k).result]]

Ledger == INSTANCE CycleLedger WITH book <- BookSeen, ledger <- LedgerSeen

\* The memory store is a ledger too, under the one lock.
KeepsLedger == Ledger!LedgerSpec
=============================================================================
