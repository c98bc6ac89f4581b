# Control Room: a TLA+ verification project

Control Room runs institutional agent work as *bounded, policy-authorized,
exactly-once cycles* over tasks. A coordinator (deterministic, or a Gemini model
behind the same seam) proposes one action; a policy gate authorizes it; a state
store executes it once per idempotency key and records what happened. The store
is either in memory, with one lock, or Firestore, where several processes share
documents and only transactions and leased claims keep them apart.

The hard part of the program is the Firestore store's cycle protocol
(`src/control_room/state.py:881-1259`): it spreads one logical transaction over
four Firestore transactions and three plain reads, with a lease, takeovers,
retries and aborts. That protocol, the task rules it runs, and the service calls
that drive it are the core modelled here. Around it stand the memory store, and
the three documents all tasks share: the model budget, the actor registry and
the task counter. Paths below are relative to
`src/control_room/` unless they start with `src/`.

## 1. Inventory

| Component | State | Operations | Interacts with |
|---|---|---|---|
| Task rules (`domain.py`, `policy.py`, bodies of `MemoryStateStore`) | none: functions of task, evidence, baton | authorize, admit, apply an outcome, deny, append, set baton | run inside both stores |
| Firestore store, cycles (`state.py:881-1259`) | task document (task, evidence, baton, `cycle_count`, `active_cycle`), one cycle document per key (claim or result), one marker per evidence id; per thread, the claim it holds | `run_cycle_transaction`, `apply_cycle`, `fail_cycle`, `_bind_claim_intent`, `_finalize_claim`, `_abort_claim`, `get_cycle_result` | service, clock, other processes through the documents |
| Firestore store, direct writes (`state.py:801-823, 1057, 1261`) | the same documents | `append_evidence`, `set_baton` | refused while a cycle is active |
| Service (`service.py`) | none of its own | `run_cycle`, `trip_demo_breaker`, `create_task` | coordinator, store, telemetry |
| Coordinators (`agents/`) | none | propose | policy; Gemini: the model budget and a fallback |
| Telemetry (`telemetry.py`) | ring of 1000 events | emit, read | the service emits after each commit |
| Memory store (`state.py:100-545`) | tasks, evidence, batons, cycles, actors, budget under one re-entrant lock | as above | service |
| Creation counter (`state.py:835-868`) | 256-task counter document | `create_task` | task documents |
| Actor registry (`state.py:1272-1303`) | registry document with a version | `register_actor`, `initialize_actors`, reads | admission, policy |
| Model budget (`state.py:660-681, 1305-1322`) | one document: day and count | `consume_model_call` | Gemini coordinator |
| HTTP API (`api.py`) | none | map requests and exceptions | service |

Hard behaviours and what makes each right:

- *Concurrent calls on one task.* At most one claimed cycle, and it is the task's
  active cycle; a call on another key waits, at most 100 polls, then fails.
- *A snapshot read outside a transaction and written back whole.* Whatever is
  written must have been computed from the document it replaces.
- *Expired leases.* A slow owner and the call that took over from it both go on.
  Only the present owner, before its expiry, may finalize; the other must neither
  finalize nor abort what is not its own.
- *Failures between steps.* Processes die; transactions raise with or without
  having been applied; the abort fails; the re-read fails after the result is in.
  A retry under the same key must still find one effect and one result.
- *Accounting.* Counters, evidence list and evidence markers are changed in
  different documents and must add up to the finalized cycles.
- *One lock around a whole cycle* (memory store). The coordinator runs inside it
  and enters it again; exceptions leave from every depth; a status must not show
  half of a write.
- *Documents that every process writes* (budget, registry, counter). Transactions
  abort and run again, or commit without telling their caller; a caller brings
  what it read or chose before: a day, a version, an id.
- *Verdicts and budgets.* Progress, verification, denials and failures in any
  order: at most the budgeted actions, no pass without a worker's cycle and a
  different verifier's evidence, nothing after a verdict.

`PROJECT.json` lists these hazards at their lines, with the properties that
cover each, and a note where none does.

## 2. Modules

| Module | What it is |
|---|---|
| `TaskRules` | The rules of one task as operators: `Authorized` (policy), `Admits` (admission), `Applied`, `Denied`, `Appended`, `BatonSet` (effects) and their results. No variables. |
| `CycleLedger` | Abstract specification: a book (task, evidence, baton) and a ledger with at most one entry per key, written in one step with its effect. |
| `FirestoreCycles` | The Firestore protocol for one task, with requests, clocks, faults, direct writers and other tasks; its properties; its refinement mapping to `CycleLedger`. |
| `MemoryStore` | The in-memory store for one task: threads, the re-entrant lock, the cycle transaction, telemetry, status reads; a second refinement mapping to `CycleLedger`. |
| `Transactions` | One optimistic transaction of each client: read, decide, commit if nothing read was overwritten, abort and run again, lose the acknowledgement. Extended by the next three. |
| `ModelBudget` | The daily budget document and the Gemini coordinator around it. |
| `ActorRegistry` | The registry document: starts, registrations, and the two role reads of a cycle. |
| `TaskCreation` | A task document and the counter written together. |
| `MCFirestoreCycles`, `MCMemoryStore`, `MCModelBudget`, `MCActorRegistry`, `MCTaskCreation` | The small instances for TLC. |
| `FirestoreCyclesProofs` | Type correctness, proved. |
| `FirestoreCyclesSafety` | Seven safety theorems, proved on top of it. |
| `FirestoreCyclesLedger` | What adds up over the finalized cycles (counters, budget, verdicts, evidence, telemetry), and that the protocol implements `CycleLedger`, proved on top of that. |
| `MemoryStoreProofs` | Seven safety theorems about the memory store, and that it implements `CycleLedger`. |
| `TransactionsProofs`, `ModelBudgetProofs`, `ActorRegistryProofs`, `TaskCreationProofs` | The theorems of section 4 about the shared documents. |

### How `FirestoreCycles` corresponds to the code

A *request* is one call of `run_cycle_transaction` by one thread. Each
transaction callback and each plain read is one step; all else interleaves.

| `pc` | Where the thread is | Steps |
|---|---|---|
| `claiming` | the claim transaction and the polling loop (897-1014) | `ClaimReplay`, `ClaimRefused`, `ClaimWait`, `ClaimTimesOut`, `ClaimTakeover`, `ClaimFresh` |
| `proposing` | `run_cycle.transact`, the coordinator (`service.py:92-117`) | `Propose`, `CoordinatorDenied` |
| `binding` | `_bind_claim_intent` (1116-1147) | `Bind`, `BindRefused` |
| `executing` | the snapshot read, the action, the checks (1108-1113, 1197-1202) | `Execute`, `ExecuteRefused` |
| `failing` | `fail_cycle` (1172-1180) | `Fail`, `FailRefused` |
| `finalizing` | the finalize transaction (1204-1242) | `Finalize`, `FinalizeRefused` |
| `confirming` | telemetry, then the re-read (`service.py:136-143`; 1033-1038) | `Confirm` |
| `aborting` | `_abort_claim` (1040-1055) | `Abort` |

`Calls` says which calls are made: `normal` (`run_cycle`), `breaker`
(`trip_demo_breaker`) and `apply` (`apply_cycle` called from outside a claim,
which brings its own intent and any outcome).

Faults are steps of their own: `Crash` anywhere; `StoreError`, a read or
transaction that raises without effect; `ClaimAckLost`, `BindAckLost`,
`FinalizeAckLost`, one that raises although it was applied; `AbortFails`;
`ConfirmError`. A `ClaimAckLost` request never enters the `try` block, so nobody
aborts its claim: it is left to expire. Direct writers (`AppendEvidence`,
`SetBaton`), time (`Tick`) and another task taking an evidence id
(`OtherTaskEvidence`) are the environment.

Abstractions, all of data and none of control:

- A request's name is its owner token (the code draws 256 random bits per call),
  the kind of call its canonical operation (task and key are in the document name).
- An intent is its actor, action and expected version. Its issue time and
  payload are dropped: two requests proposing the same action for the same
  version bind "the same" intent, which can only let the model do more.
- An evidence id made from a key is that key. One "verification" item stands
  for a verified record per required check.
- Text validation and document byte limits are left out; the counting limits
  (24 items, 64 cycles) are kept as `MaxEvidence` and `MaxCycles`.
- The task exists: `Init` is the state after `create_task`. The breaker's
  provenance check is constant true, since only synthetic tasks are created.
- Roles are the constant `Role`: `ActorRegistry` shows that a role once read
  stands (`RolesStand`).
- `apply_cycle`'s first read (1073-1083) only turns some failures of the bind
  into earlier ones with the same consequence; it is merged with the step after it.
- Firestore transactions are serializable; retries of a callback that did not
  commit have no effect, and the clock is read once with the commit.

### How `MemoryStore` corresponds to the code

Threads of one process share a backing. A step is what happens between two
points where other threads can notice: a service call holds the lock from its
look-up (`Replay`, `LookUpRefused`, `Open`; 222-229) to its confirmation
(`Confirm`; 230-235), with `Propose` or `CoordinatorDenied` (`service.py:94-117`),
`Apply*` (251-397), `Fail*` (399-432) and `Emit` in between. An operation that
enters the lock and leaves it in one step has `CanEnter` as a guard; `apply_cycle`
and `fail_cycle` are two steps, `Apply`/`Fail` (task and evidence) and `Keep`
(baton and record), so that the lock has something to protect. `depth` counts the
nested `with` blocks: `Unwind` is an exception that leaves them all. `End` is the
API's answer: 200, 409 for the exceptions it maps (`api.py:172-179`), 500 for those
it does not. The API's status request is `Status`; direct writers and other tasks
are the environment. `committed` is a history variable.

Data are those of `TaskRules`. The store's registry, budget and creation are
left to the modules below: under the lock each is one step that never aborts.

### How the shared documents correspond to the code

`Transactions` is the library code that `_run_google_transaction` (791-796) hands
a callback to, and is marked external: optimistic concurrency with a bounded
number of runs. `fresh` holds the clients whose read no commit has outdated;
`MayCommit` asks for it. Firestore may also block or abort earlier, which only
allows less than this. An exception, a lost database and a dead process are
`Broken`; each module has its own `LoseAck`, the commit whose caller gets an
exception.

- `ModelBudget` (667-681, 1305-1322; `agents/gemini.py:109-136`). A client is one
  proposal. `Start` takes the day, `Read`, `Refuse`, `Admit` are the transaction,
  `FallBack`, `Ask`, `Answer` what the coordinator does with its outcome. Prompt and
  answer text are left out: an answer is `chosen` or `denied`. Days are numbers,
  `Limit` is per client, since processes may be configured differently.
- `ActorRegistry` (626-657, 1272-1303; memory bodies 482-527). A client is a
  starting service, a registration, which first looks the version up, or a cycle,
  which reads its actor's role at the gate (`agents/agent.py:34-39`) and at
  admission (281-288).
- `TaskCreation` (835-868). A client is one creation with the id its factory made;
  two may have made the same.

In all three each client acts once: a second call is another client.

## 3. What the runs check

The first seven runs are `tlc -config <Name>.cfg MCFirestoreCycles`; the others name
their module.

| Run | Instance | Shows |
|---|---|---|
| `protocol` | 3 requests, 2 keys, normal and breaker calls, 1 lease length of time | `ClaimIsActive`, `NoLeakedClaim`, `RepliesAgree`, `LedgerAccounts`, `TelemetryOnce`, `FinalizedForever`, `BoundIntentKept` |
| `verdicts` | 3 requests, 3 keys, outcomes with passes and hand-overs | `BudgetHeld`, `PassIsVerified`, `TerminalFrozen` |
| `writers` | 2 requests with clocks one apart, direct writers, another task | `TypeOK`, `FreshSnapshot`, `EvidenceIndexed`, `NothingLost`, `MarkersKept` |
| `refinement` | 2 requests, all three kinds of call, skewed clocks, a direct writer | `KeepsLedger`: the protocol implements `CycleLedger` |
| `liveness` | 2 requests, one poll, two lease lengths | `EveryCallAnswers`, `ClaimsReleased` |
| `bound_intent`, `evidence_actor` | 2 requests, 1 key | violations: see section 5 |
| `memory` (`Memory.cfg`, `MCMemoryStore`) | 3 threads, 3 keys, all kinds of call, a status reader, direct writers, another task | `LockFollowsCalls`, `AnswersAgree`, `EvidenceIsOnce`, `StatusIsWhole`, `EventsAreLatest`, `TypeOK`; `EffectIsAnswered`; `KeepsLedger`: this store implements `CycleLedger` too; `EveryCallAnswers` |
| `budget` (`Budget.cfg`, `MCModelBudget`) | 4 proposals, limits 1 and 2, 2 days | `BoundPerTurn`, `CallsArePaid`, `NoEarlyRefusal`, `TypeOK` |
| `budget_day` (`BudgetDay.cfg`, `MCModelBudget`) | 3 proposals, limit 1, 2 days | violation: see section 5 |
| `registry` (`Registry.cfg`, `MCActorRegistry`) | 2 starts that disagree on a role, 2 registrations, 1 cycle, 3 actors of which 2 fit | `VersionCountsActors`, `RolesStand`, `RefusalsAreReal`, `NoBlindRegistration`, `TypeOK` |
| `tasks` (`Tasks.cfg`, `MCTaskCreation`) | 4 creations, 2 with one id, 2 tasks fit | `CounterMatches`, `CreatedOnce`, `TypeOK` |

**Bounds and why they are enough.** Two requests make an owner and a usurper;
the third adds a call that retries or waits while those two fight. Two keys make
the case of one cycle deleting another's expired claim; the third is needed for
work, verification and a call after the verdict. `Lease` is 1 and `MaxNow` 1
or 2: what matters is whether a claim is expired, not by how much; with `MaxNow`
1 a claim made at 0 can be taken over once and its second owner keeps it, with
2, or with a clock one ahead (`Offset`), takeovers repeat and the owners
disagree about expiry. `MaxPolls` is 0 or 1 instead of 100: a poll changes
nothing but its count. `ToolBudget` and `MaxEvidence` are 2 instead of 3 and 24,
`MaxCycles` the number of keys, so that the limits are met. In `writers` and
`memory` one outcome (`Twice`) has two items under one id, which is refused. `MaxVersion` stops
direct writers, and `MaxNow` time; neither exists in the code. The requests are
interchangeable where their clocks agree, so the runs without liveness and
without skew use symmetry. Deadlock is not checked: when every request has ended
and time is at its bound, the model is at rest.

In `memory`, one thread repeats what another does, one contests a key with another
operation, and the third reads the status or takes part; each makes one call,
which is enough, as a thread keeps nothing between calls. `MaxEvents` is 2 of
1000: two events have an order, and the third cycle overflows the ring; `MaxVersion` 1 lets the direct writers write once between the
cycles. In `budget`, `registry` and `tasks`, `MaxAttempts` is 2 of 5: one abort that is run again
and one that gives up. Four proposals with a limit of two are one too many on
each side of midnight; two actors of three, and two tasks of three ids, meet
their bounds. Who has called once and ended stays so, hence no deadlock check.

**Fairness.** `Fairness` is weak fairness of each request's own next step. A
thread in `run_cycle_transaction` never blocks on another: waiting is a loop of
100 sleeps, and all else is straight-line code. Weak fairness says that a thread
that is neither dead nor hung takes its next step. No fairness is assumed of
`Begin` (nobody has to call), of faults, of the environment, or of time: claims
need not expire for calls to end. No fairness singles out success: a request may
abort, fail and time out for ever.

In `MemoryStore` it is weak fairness of *some* thread's step, not of each: the
operating system runs the process, and a coordinator that is asked answers or
raises. Nothing is said of who gets the lock. `EveryCallAnswers` there says that no call waits for ever, and so that none,
however it ends, keeps the lock or waits for itself.
`ModelBudget`, `ActorRegistry` and `TaskCreation` state safety only: their
transactions are library code that ends after a bounded number of runs.

**Mutants.** Each property is paired in `PROJECT.json` with a mutated definition
that breaks it: a finalize without its fence, an abort that does not check the
owner, a takeover that forgets the intent, a direct write during a cycle, an
append without its marker, an unbounded poll, a policy that forgets the failure
budget, a pass without a worker; a lock that its holder cannot enter again, one that
an exception leaves once only, or that is let go after the look-up; a record kept under another operation than
its caller's; a ring that keeps one event too many; a commit that does
not ask what was written since; a coordinator that asks the model when the budget
is not known; a registry version that counts starts.

## 4. What is proved

For every number of requests, keys, actors, every lease, clock offset, bound and
outcome set that meets the named assumptions (`RoleAssumption`,
`OutcomesAssumption`, `ClockAssumption`, ...):

| Theorem | Statement |
|---|---|
| `TypeCorrect` | `Spec => []TypeOK` |
| `OneClaim` | `Spec => []ClaimIsActive` |
| `FinalizedIsFinal` | `Spec => FinalizedForever` |
| `TakeoverKeepsIntent` | `Spec => BoundIntentKept` |
| `ClaimsAreHeld` | `Spec => []NoLeakedClaim` |
| `OneAnswer` | `Spec => []RepliesAgree` |
| `SnapshotsAreFresh` | `Spec => []FreshSnapshot` |
| `WritesAreNotLost` | `Spec => NothingLost` |
| `CountersAddUp`, `BudgetIsHeld`, `PassesAreVerified`, `EvidenceIsIndexed`, `ReportedOnce` | `[]` of `LedgerAccounts`, `BudgetHeld`, `PassIsVerified`, `EvidenceIndexed`, `TelemetryOnce` |
| `VerdictsStand`, `EvidenceIdsAreOwned` | `Spec => TerminalFrozen`, `Spec => MarkersKept` |
| `ProtocolIsLedger` | `Spec => KeepsLedger` |
| `MemoryTypeCorrect`, `LockIsLeft`, `AnswersAreRecords`, `StatusesAreWhole`, `EvidenceIdsAreOnce`, `RingIsLatest` | `[]` of `TypeOK`, `LockFollowsCalls`, `AnswersAgree`, `StatusIsWhole`, `EvidenceIsOnce`, `EventsAreLatest` (`MemoryStore`) |
| `EffectsAreAnswered`, `StoreIsLedger` | `Spec => EffectIsAnswered`, `Spec => KeepsLedger` (`MemoryStore`) |
| `BudgetTypeCorrect`, `TurnsBoundCharges`, `EveryCallIsPaid`, `RefusalsAreEarned` | `[]` of `TypeOK`, `BoundPerTurn`, `CallsArePaid`, `NoEarlyRefusal` (`ModelBudget`) |
| `RegistryTypeCorrect`, `VersionIsCount`, `RolesAreKept`, `RefusalsHaveReasons`, `RegistrationsSee` | `[]` of `TypeOK`, `VersionCountsActors`, `RolesStand`, `RefusalsAreReal`, and `NoBlindRegistration` (`ActorRegistry`) |
| `CreationTypeCorrect`, `CounterIsExact`, `CreationsAreWhole` | `[]` of `TypeOK`, `CounterMatches`, `CreatedOnce` (`TaskCreation`) |

The argument. `TypeOK` is inductive because it says what each request holds at
each `pc` (an intent from `binding` on, a result from `finalizing` on) and that
what it will write is itself within bounds. `ClaimIsActive` is inductive with it:
the lemma `StoreSteps` reduces every step to one of few store effects, and each
moves the claim and `active_cycle` together. From it follows that while a request
owns its cycle nobody else changes the task: direct writers see an active cycle
(`DirectWritesOutside`), and another request can only take the claim away
(`OwnedStays`). That makes `FreshSnapshot` hold. By itself it
is not inductive, since it does not say which intent an owner executes; its
strengthening `HeldBound` adds that this is the intent in its cycle document.
`NothingLost` follows, since a finalize
is the only step that writes a document read earlier. `FinalizedForever` and
`BoundIntentKept` go over the same store effects, and `RepliesAgree` uses the
first of them: a reply, once right, stays right.

`FirestoreCyclesLedger` needs more than `FreshSnapshot`: `OneEffect`, inductive with
`TypeOK` and `ClaimIsActive`, says that what an owner is about to write *is* one admitted action, or
one refusal, on the document as it is now. So every step is of one of three kinds
(`LedgerSteps`): quiet, one request entering its cycle (`Enters`), or a direct write.
Each theorem then looks at what an entry does, and needs its own addition where the
property does not say enough:

- `CountersAddUp`: an entry adds one key to the finalized ones and at most one to each
  counter. `Keys` may be infinite, so that the finalized ones are finite is part of
  the invariant (`Accounts`).
- `BudgetIsHeld` and `VerdictsStand`: admission reads the very counters and state it
  charges. A direct write leaves them alone.
- `PassesAreVerified`: at the pass, the worker's cycle must already be there. `Worked`
  says so of every task that has a worker: some finalized cycle acted as that worker,
  who is registered as one.
- `EvidenceIsIndexed` and `EvidenceIdsAreOwned`: a finalize and an append take only ids
  whose marker is free, and mark what they store. That one outcome does not name an
  id twice is part of the rule (`DistinctIds`).
- `ReportedOnce`: who is about to report knows that its action is on record and that
  nobody else will report this key (`Confirming`).
- `ProtocolIsLedger`: the mapping shows the task, evidence and baton of the document as
  the book, and the finalized cycles as the entries. The rules read nothing else of a
  document (`BookActed`, `BookOther`), so an entry is the ledger's `Record` or `Refuse`
  (`ActionRecords`, `DenialRecords`), a direct write its own (`DirectRecords`),
  and everything else stutters.

For the memory store the invariant starts from `LockFollowsCalls`: whoever is inside
an operation holds the lock, so nobody else is inside (`InsideIsHolder`). What the
holder found therefore stays as it is (`RecordsHeld`): the record it is about to keep
is still missing, the one it is about to confirm is still there and is its own, hence neither a 500 nor
a 409 after the effect (`EffectsAreAnswered`). A task
that is half written is one that the holder is writing; when nobody is, what is there
has been committed (`Whole`), hence no mixed status. The refinement mapping shows
both halves of a write as done once the first is: `Apply` and `Fail` are the
ledger's `Write`, direct writers its `WriteDirectly`, and `Keep` and all
other steps stutter (`KeepStutters`, `QuietStutters`). `SameData`, `SameAdmission` and
`SameEffects` say that the ledger's rules are the store's.

Two properties need more. `EvidenceKept` says of everything that may still become an
answer (the records, and what the thread inside is about to keep) that its evidence is
stored. `EventsKept` says that versions only grow: what is about to be recorded, or
reported, is later than every other completed cycle; and that a call which holds the
lock finds its key still without a record, so that no service call reports a record it
did not write. `ReportedIsLatest` is the fact about the ring: a version later than all
before it pushes out the oldest.

For the shared documents, `TransactionsProofs` proves once what each step of a
transaction does to `TxInv` (what is read is there while deciding, and only then).
The three inductive invariants add what a read means:

- *fresh reads are current*: whoever may commit has seen the present documents
  (`FreshIsCurrent`, in all three). So a commit writes from the state it replaces.
- *outdated reads are still evidence*, for the refusals, which need no commit.
  `TaskCreation` and `ActorRegistry`: what was seen is a part of what is there
  (`SeenIsBefore`; `SeenIsBetween`, `KnownIsBefore`), since tasks and actors are only added and never changed.
  `ModelBudget`: what was seen used on a day was charged to that day
  (`SeenIsCharged`); the document itself may have turned away since.
- *the accounts*: `ModelBudget` relates the charges of each day to the number of
  turns and the present count (`Accounts`); each turn starts again from zero,
  which is why the bound is per turn and not per day (section 5, 3).

Cardinalities go through the library's `FiniteSetTheorems`, with `Clients`, `Ids`
and `Actors` finite by assumption.

Only model-checked: liveness (`EveryCallAnswers` in both stores, `ClaimsReleased`).
TLAPS cannot do it under fairness, as it cannot reason about ENABLED. Induction over
data and RECURSIVE operators are out of its reach too; no module here uses recursion,
and the counters are proved through cardinalities, one entry at a time. Every
invariant and every other action property of the passing runs is a theorem. The three
violations of section 5 are counterexamples, found by TLC.

## 5. Where the code and its documents disagree

1. **A bound intent can be discarded** (run `bound_intent`).
   `src/docs/architecture.md:55-56` says a crashed worker's bound intent is
   "replayed, not re-invented". After a takeover `run_cycle` asks the coordinator
   again *before* the store looks at the intent bound to the claim. If that
   proposal is denied or the model fails, `fail_cycle` finalizes the cycle
   without an intent: the bound one is gone.
2. **A replayed intent can carry another actor's evidence** (run
   `evidence_actor`). When the new proposal succeeds, the store acts on the bound
   intent but runs the new closure, whose evidence names the actor of the *new*
   proposal.
3. **The daily bound of model calls is a bound per turn of the document** (run
   `budget_day`). The docstring of `consume_model_call` (`state.py:1306`) promises
   a "global daily bound". The document keeps one day. A proposal that took its day
   before midnight and commits after the new day's first one turns the document
   back. Each turn starts a day from zero, so the old day, or the new one after the next
   turn, gets calls beyond its limit. The run's trace has two calls of day 0 with one of
   day 1 between them; a late call of day 0 between two of day 1 is as short. What holds
   instead, and is proved, is `BoundPerTurn`: at most a limit's worth of calls each time
   the document turns to a day.

Observed while modelling: a fresh claim on another key deletes
an expired claim with the intent bound to it (`state.py:973-974`), so that the
first key's retry starts over; a task parked by a *denial* is not out of budget
and a later cycle may move it on (the pitch says it "parks in NEEDS_OPERATOR for
a human", `src/docs/devpost-draft.md:22-24`); a claim left
behind by a dead process blocks direct writes until another cycle call comes;
`EvidenceConflict` and the unpersisted-result `RuntimeError` are not in the API's
mapping, and with the memory store no cycle call meets them (`AnswersAgree`,
`EffectIsAnswered`); a
taken-over cycle is charged to the model budget once per proposal.

## 6. Not modelled, and what is left

Not modelled, for good:

- settings, store and coordinator selection (`state.py:1325-1353`,
  `agents/gemini.py:179-209`): run once at start, keep no state;
- validation of texts, tokens, payloads and document bytes (`domain.py:50-132`,
  `state.py:684-733`): a call that it refuses changes nothing;
- the prompt and the text of a model's answer, the ADK transport;
- 404, 403 and 422 of the API, its pages, the smoke and canary scripts, the dashboard and
  packaging: without state of their own.

Left to do, by importance:

1. Theorems about `CycleLedger` alone (an entry is never changed, a verdict is last),
   which then hold of both stores at once, by `ProtocolIsLedger` and `StoreIsLedger`.
2. The registry composed with the cycle protocol is by theorem, not by
   a run: `RolesStand` discharges the constant `Role`.
