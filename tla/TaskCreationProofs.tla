-------------------------- MODULE TaskCreationProofs --------------------------
(***************************************************************************)
(* The counter counts the tasks for any number of creations, ids and any   *)
(* bound.  A commit writes both documents from one current read; a refusal *)
(* on an outdated read is right because tasks are only ever added.         *)
(***************************************************************************)
EXTENDS TaskCreation, TransactionsProofs, FiniteSetTheorems

USE IdsAssumption, NoTaskAssumption, MaxTasksAssumption

Labels == {"refused", "created"}

FreshIsCurrent ==
  \A c \in fresh : seen[c] = [task |-> tasks[IdOf[c]], created |-> created]

\* What was read is still there, and more may be.
SeenIsBefore ==
  \A c \in Clients : pc[c] = "deciding" =>
    /\ seen[c].created <= created
    /\ seen[c].task # NoTask => tasks[IdOf[c]] = seen[c].task

CreationInv ==
  /\ TypeOK /\ TxInv(Labels, Documents)
  /\ FreshIsCurrent /\ SeenIsBefore /\ CounterMatches /\ CreatedOnce

LEMMA StoredFinite == IsFiniteSet(Stored) /\ Cardinality(Stored) \in Nat
BY FS_Subset, FS_CardinalityType DEF Stored

LEMMA InitOK == Init => CreationInv
<1> SUFFICES ASSUME Init PROVE CreationInv
  OBVIOUS
<1>1. TxInv(Labels, Documents)
  BY TxInitOK DEF Init
<1>2. TypeOK
  BY <1>1 DEF Init, TypeOK, TxInv, Labels
<1>3. Stored = {}
  BY DEF Init, Stored
<1>4. CounterMatches
  BY <1>3, FS_EmptySet DEF Init, CounterMatches
<1>5. FreshIsCurrent /\ SeenIsBefore /\ CreatedOnce
  BY <1>3 DEF Init, TxInit, FreshIsCurrent, SeenIsBefore, CreatedOnce
<1> QED  BY <1>1, <1>2, <1>4, <1>5 DEF CreationInv

\* A step that writes nothing: one client moves on.
LEMMA QuietKeeps ==
  ASSUME CreationInv, NEW c \in Clients, NEW l \in {"reading", "refused", "unsure"},
         UNCHANGED <<tasks, created>>, TxInv(Labels, Documents)',
         pc' = [pc EXCEPT ![c] = l], pc[c] \in {"idle", "reading", "deciding"},
         fresh' \subseteq fresh,
         \A b \in Clients : b \in fresh' \/ pc'[b] = "deciding" => seen'[b] = seen[b],
         l = "refused" => tasks[IdOf[c]] \notin {NoTask, c} \/ created = MaxTasks
  PROVE  CreationInv'
<1> USE DEF CreationInv
<1>1. /\ pc \in [Clients -> {"idle", "reading", "deciding", "unsure"} \cup Labels]
      /\ fresh \subseteq Clients /\ Stored' = Stored
      /\ tasks \in [Ids -> Clients \cup {NoTask}]
  BY DEF TypeOK, TxOK, Labels, Stored
<1>2. TypeOK'
  BY DEF TypeOK, TxInv, Labels
<1>3. FreshIsCurrent' /\ SeenIsBefore'
  BY <1>1 DEF FreshIsCurrent, SeenIsBefore
<1>4. CounterMatches'
  BY <1>1 DEF CounterMatches
<1>5. CreatedOnce'
  BY <1>1 DEF CreatedOnce
<1> QED  BY <1>2, <1>3, <1>4, <1>5

LEMMA CreateKeeps ==
  ASSUME CreationInv, NEW c \in Clients, Create(c)
  PROVE  CreationInv'
<1>1. TxInv(Labels, Documents)'
  BY GotoKeeps DEF CreationInv, Create, Labels, AllLabels
<1> QED  BY <1>1, QuietKeeps DEF Create, Goto

LEMMA ReadKeeps ==
  ASSUME CreationInv, NEW c \in Clients, Read(c)
  PROVE  CreationInv'
<1> USE DEF CreationInv
<1> DEFINE d == [task |-> tasks[IdOf[c]], created |-> created]
<1>1. /\ d \in Documents
      /\ pc \in [Clients -> {"idle", "reading", "deciding", "unsure"} \cup Labels]
      /\ seen \in [Clients -> Documents \cup {Unread}] /\ fresh \subseteq Clients
      /\ created \in Nat
  BY DEF TypeOK, TxOK, Documents, Labels
<1>2. /\ UNCHANGED <<tasks, created>> /\ pc[c] = "reading"
      /\ pc' = [pc EXCEPT ![c] = "deciding"] /\ seen' = [seen EXCEPT ![c] = d]
      /\ fresh' = fresh \cup {c} /\ Stored' = Stored
  BY DEF Read, ReadIn, Stored
<1>3. TxInv(Labels, Documents)'
  BY <1>1, ReadInKeeps DEF Read, Labels
<1>4. TypeOK'
  BY <1>2, <1>3 DEF TypeOK, TxInv, Labels
<1>5. FreshIsCurrent' /\ SeenIsBefore'
  BY <1>1, <1>2 DEF FreshIsCurrent, SeenIsBefore
<1>6. CounterMatches' /\ CreatedOnce'
  BY <1>1, <1>2 DEF CounterMatches, CreatedOnce, TypeOK
<1> QED  BY <1>3, <1>4, <1>5, <1>6

LEMMA RefuseKeeps ==
  ASSUME CreationInv, NEW c \in Clients, Refuse(c)
  PROVE  CreationInv'
<1>1. TxInv(Labels, Documents)'
  BY EndWithKeeps DEF CreationInv, Refuse, Labels, AllLabels
<1>2. /\ UNCHANGED <<tasks, created>> /\ pc[c] = "deciding"
      /\ pc' = [pc EXCEPT ![c] = "refused"] /\ seen' = [seen EXCEPT ![c] = Unread]
      /\ fresh' = fresh \ {c} /\ Refuses(c)
  BY DEF Refuse, EndWith, Leave
<1>3. /\ seen \in [Clients -> Documents \cup {Unread}] /\ seen[c] \in Documents
      /\ pc \in [Clients -> {"idle", "reading", "deciding", "unsure"} \cup Labels]
      /\ created \in 0 .. MaxTasks /\ IdOf[c] \in Ids
  BY <1>2 DEF CreationInv, TypeOK, TxInv, TxOK, Labels
<1>4. CASE seen[c].created >= MaxTasks
  <2>1. created = MaxTasks
    BY <1>2, <1>3, <1>4 DEF CreationInv, SeenIsBefore, Documents
  <2> QED  BY <1>1, <1>2, <1>3, <2>1, QuietKeeps
<1>5. CASE seen[c].task # NoTask
  <2>1. tasks[IdOf[c]] # NoTask
    BY <1>2, <1>5 DEF CreationInv, SeenIsBefore
  <2>2. tasks[IdOf[c]] # c
    BY <1>2, <1>3, <2>1 DEF CreationInv, CreatedOnce, Stored
  <2> QED  BY <1>1, <1>2, <1>3, <2>1, <2>2, QuietKeeps
<1> QED  BY <1>2, <1>4, <1>5 DEF Refuses

LEMMA AbortKeepsCreation ==
  ASSUME CreationInv, NEW c \in Clients, Abort(c)
  PROVE  CreationInv'
<1>1. TxInv(Labels, Documents)'
  BY AbortKeeps DEF CreationInv, Abort
<1>2. /\ UNCHANGED <<tasks, created>> /\ pc[c] \in {"reading", "deciding"}
      /\ seen \in [Clients -> Documents \cup {Unread}]
      /\ pc \in [Clients -> {"idle", "reading", "deciding", "unsure"} \cup Labels]
  BY DEF Abort, Aborted, Broken, CreationInv, TypeOK, TxOK, Labels
<1>3. CASE pc' = [pc EXCEPT ![c] = "reading"] /\ UNCHANGED <<seen, fresh>>
  BY <1>1, <1>2, <1>3, QuietKeeps
<1>4. CASE /\ pc' = [pc EXCEPT ![c] = "unsure"] /\ seen' = [seen EXCEPT ![c] = Unread]
           /\ fresh' = fresh \ {c}
  BY <1>1, <1>2, <1>4, QuietKeeps
<1> QED  BY <1>3, <1>4 DEF Abort, Aborted, Broken, Goto, Leave

LEMMA WriteKeeps ==
  ASSUME CreationInv, NEW c \in Clients, NEW l \in {"created", "unsure"}, Write(c, l)
  PROVE  CreationInv'
<1> USE DEF CreationInv
<1>1. TxInv(Labels, Documents)'
  BY CommitToKeeps DEF Write, Labels, AllLabels
<1>2. /\ pc[c] = "deciding" /\ c \in fresh /\ fresh' = {} /\ ~ Refuses(c)
      /\ pc' = [pc EXCEPT ![c] = l] /\ seen' = [seen EXCEPT ![c] = Unread]
      /\ tasks' = [tasks EXCEPT ![IdOf[c]] = c] /\ created' = seen[c].created + 1
  BY DEF Write, CommitTo, MayCommit, Leave
<1>3. /\ tasks \in [Ids -> Clients \cup {NoTask}] /\ created \in 0 .. MaxTasks
      /\ IdOf[c] \in Ids
      /\ pc \in [Clients -> {"idle", "reading", "deciding", "unsure"} \cup Labels]
      /\ seen \in [Clients -> Documents \cup {Unread}]
  BY DEF TypeOK, TxOK, Labels
<1>4. tasks[IdOf[c]] = NoTask /\ created < MaxTasks /\ created' = created + 1
  <2>1. seen[c] = [task |-> tasks[IdOf[c]], created |-> created]
    BY <1>2 DEF FreshIsCurrent
  <2>2. seen[c].task = tasks[IdOf[c]] /\ seen[c].created = created
    BY <2>1
  <2>3. tasks[IdOf[c]] = NoTask /\ ~ (created >= MaxTasks)
    BY <1>2, <2>2 DEF Refuses
  <2> QED  BY <1>2, <1>3, <2>2, <2>3, MaxTasksAssumption
<1>5. Stored' = Stored \cup {IdOf[c]} /\ IdOf[c] \notin Stored
  BY <1>2, <1>3, <1>4 DEF Stored
<1>6. TypeOK'
  BY <1>1, <1>2, <1>3, <1>4 DEF TypeOK, TxInv, Labels
<1>7. CounterMatches'
  <2>1. Cardinality(Stored') = Cardinality(Stored) + 1
    BY <1>5, StoredFinite, FS_AddElement
  <2> QED  BY <2>1, <1>3, <1>4 DEF CounterMatches
<1>8. FreshIsCurrent'
  BY <1>2 DEF FreshIsCurrent
<1>9. SeenIsBefore'
  <2> SUFFICES ASSUME NEW b \in Clients, pc'[b] = "deciding"
               PROVE  /\ seen'[b].created <= created'
                      /\ seen'[b].task # NoTask => tasks'[IdOf[b]] = seen'[b].task
    BY DEF SeenIsBefore
  <2>1. b # c /\ pc[b] = "deciding" /\ seen'[b] = seen[b] /\ seen[b] \in Documents
    BY <1>2, <1>3 DEF TxInv
  <2>2. seen[b].created <= created'
    BY <2>1, <1>3, <1>4 DEF SeenIsBefore, Documents
  <2>3. seen[b].task # NoTask => tasks'[IdOf[b]] = seen[b].task
    BY <2>1, <1>2, <1>3, <1>4 DEF SeenIsBefore
  <2> QED  BY <2>1, <2>2, <2>3
<1>10. CreatedOnce'
  <2>1. ASSUME NEW b \in Clients, pc'[b] = "created"
        PROVE  tasks'[IdOf[b]] = b
    BY <2>1, <1>2, <1>3, <1>4 DEF CreatedOnce
  <2>2. ASSUME NEW b \in Clients, pc'[b] = "refused"
        PROVE  tasks'[IdOf[b]] \notin {NoTask, b} \/ created' = MaxTasks
    BY <2>2, <1>2, <1>3, <1>4 DEF CreatedOnce
  <2>3. ASSUME NEW id \in Stored'
        PROVE  IdOf[tasks'[id]] = id /\ pc'[tasks'[id]] \in {"created", "unsure"}
    BY <2>3, <1>2, <1>3, <1>5 DEF CreatedOnce, Stored
  <2> QED  BY <2>1, <2>2, <2>3 DEF CreatedOnce
<1> QED  BY <1>1, <1>6, <1>7, <1>8, <1>9, <1>10

LEMMA StillKeeps ==
  ASSUME CreationInv, UNCHANGED vars
  PROVE  CreationInv'
<1> USE DEF CreationInv
<1>1. UNCHANGED <<pc, seen, attempts, fresh, tasks, created>>
  BY DEF vars, txVars
<1>2. TxInv(Labels, Documents)'
  BY <1>1, TxStutters DEF txVars
<1>3. TypeOK'
  BY <1>1, <1>2 DEF TypeOK, TxInv, Labels
<1> QED  BY <1>1, <1>2, <1>3 DEF FreshIsCurrent, SeenIsBefore, CounterMatches, CreatedOnce,
            Stored

LEMMA StepKeeps ==
  ASSUME CreationInv, [Next]_vars
  PROVE  CreationInv'
<1>1. ASSUME NEW c \in Clients, Commit(c) \/ LoseAck(c)
      PROVE  CreationInv'
  BY <1>1, WriteKeeps DEF Commit, LoseAck
<1> QED  BY <1>1, CreateKeeps, ReadKeeps, RefuseKeeps, AbortKeepsCreation, StillKeeps DEF Next

LEMMA Inductive == Spec => []CreationInv
BY InitOK, StepKeeps, PTL DEF Spec

-----------------------------------------------------------------------------
\* Documents, counter and transactions keep their shape in every state.
THEOREM CreationTypeCorrect == Spec => []TypeOK
<1>1. CreationInv => TypeOK
  BY DEF CreationInv
<1> QED  BY Inductive, <1>1, PTL

\* The counter document counts the task documents, and bounds them (create_task).
THEOREM CounterIsExact == Spec => []CounterMatches
<1>1. CreationInv => CounterMatches
  BY DEF CreationInv
<1> QED  BY Inductive, <1>1, PTL

\* An answered creation is stored for good, a refused one had a reason, and none
\* has left half of what it writes (create_task).
THEOREM CreationsAreWhole == Spec => []CreatedOnce
<1>1. CreationInv => CreatedOnce
  BY DEF CreationInv
<1> QED  BY Inductive, <1>1, PTL
=============================================================================
