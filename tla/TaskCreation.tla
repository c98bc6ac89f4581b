---------------------------- MODULE TaskCreation ----------------------------
(***************************************************************************)
(* Creating tasks: a new task is its own document, written in one          *)
(* transaction with the global counter that bounds the number of tasks.    *)
(* The id comes from the service's id factory.  The memory store counts    *)
(* the tasks it has instead, in one operation under its lock.              *)
(***************************************************************************)
EXTENDS Transactions

CONSTANTS
  Ids,       \* the task ids
  IdOf,      \* per client: the id its factory made
  NoTask,    \* no document under an id
  MaxTasks   \* MAX_FIRESTORE_TASKS (256)

ASSUME IdsAssumption == IsFiniteSet(Ids) /\ IdOf \in [Clients -> Ids]
ASSUME NoTaskAssumption == NoTask \notin Clients
ASSUME MaxTasksAssumption == MaxTasks \in Nat

VARIABLES
  tasks,    \* per id: the client whose task is stored there
  created   \* the counter document

vars == <<txVars, tasks, created>>

Documents == [task : Clients \cup {NoTask}, created : 0 .. MaxTasks]
Stored == {id \in Ids : tasks[id] # NoTask}

-----------------------------------------------------------------------------
Init ==
  /\ TxInit
  /\ tasks = [id \in Ids |-> NoTask]
  /\ created = 0

\* create_task of the API, the service and the store, up to the transaction.
Create(c) ==
  /\ pc[c] = "idle"
  /\ Goto(c, "reading")
  /\ UNCHANGED <<tasks, created>>

\* The task's document and the counter are read together.
Read(c) ==
  /\ ReadIn(c, [task |-> tasks[IdOf[c]], created |-> created])
  /\ UNCHANGED <<tasks, created>>

\* Mutant: the bound is one too high.
RefusesLate(c) == seen[c].created > MaxTasks \/ seen[c].task # NoTask

\* Mutant: an id that is taken is written again.
RefusesFullOnly(c) == seen[c].created >= MaxTasks

Refuses(c) == seen[c].created >= MaxTasks \/ seen[c].task # NoTask

\* A ValueError, answered with 409.
Refuse(c) ==
  /\ EndWith(c, "refused")
  /\ Refuses(c)
  /\ UNCHANGED <<tasks, created>>

Write(c, l) ==
  /\ CommitTo(c, l)
  /\ ~ Refuses(c)
  /\ tasks' = [tasks EXCEPT ![IdOf[c]] = c]
  /\ created' = seen[c].created + 1

Commit(c) == Write(c, "created")

\* The acknowledgement is lost: the task is there, its caller gets an error.
LoseAck(c) == Write(c, "unsure")

Abort(c) == (Aborted(c) \/ Broken(c)) /\ UNCHANGED <<tasks, created>>

Next ==
  \E c \in Clients :
    Create(c) \/ Read(c) \/ Refuse(c) \/ Commit(c) \/ LoseAck(c) \/ Abort(c)

Spec == Init /\ [][Next]_vars

-----------------------------------------------------------------------------
(* Properties *)

\* Documents, counter and clients keep their shape.
TypeOK ==
  /\ TxOK({"refused", "created"}, Documents)
  /\ tasks \in [Ids -> Clients \cup {NoTask}]
  /\ created \in 0 .. MaxTasks

\* The counter counts the tasks that are stored, whatever transactions overlap, are
\* run again or lose their acknowledgement, so the bound is a bound on tasks.
CounterMatches == created = Cardinality(Stored) /\ Cardinality(Stored) <= MaxTasks

\* A task whose creation was answered is stored under its id and never replaced; a
\* creation is refused only for an id that is another's or for a full store; and
\* one that ended with an error has left its whole task or nothing.
CreatedOnce ==
  /\ \A c \in Clients :
       /\ pc[c] = "created" => tasks[IdOf[c]] = c
       /\ pc[c] = "refused" => tasks[IdOf[c]] \notin {NoTask, c} \/ created = MaxTasks
  /\ \A id \in Stored : IdOf[tasks[id]] = id /\ pc[tasks[id]] \in {"created", "unsure"}
=============================================================================
