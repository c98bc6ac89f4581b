------------------------- MODULE ActorRegistryProofs -------------------------
(***************************************************************************)
(* The registry's guarantees for any actors, roles and clients.  All rest  *)
(* on one relation: what a client has seen is Before what is stored, that  *)
(* is, every actor it has seen keeps the role it was seen with, and the    *)
(* version of either counts its actors.  Two registries in that relation   *)
(* with the same version are the same.                                     *)
(***************************************************************************)
EXTENDS ActorRegistry, TransactionsProofs, FiniteSetTheorems

USE ActorsAssumption, KindAssumption, WishAssumption, MaxActorsAssumption

Labels == {"refused", "done", "gated"}

Counted(r) == r \in Registries /\ r.version = Cardinality(Registered(r))
Grown(r, s) == \A a \in Actors : r.roles[a] # NoRole => s.roles[a] = r.roles[a]
Before(r, s) == Counted(r) /\ Counted(s) /\ Grown(r, s)

FreshIsCurrent == \A c \in fresh : seen[c] = registry
Bounded == Cardinality(Registered(registry)) <= MaxActors
KnownIsBefore == \A c \in Clients : Before(known[c], registry)
SeenIsBetween ==
  \A c \in Clients : pc[c] = "deciding" =>
    Before(known[c], seen[c]) /\ Before(seen[c], registry)

KindsApart ==
  \A c \in Clients :
    /\ pc[c] = "gated" => Kind[c] = "cycle"
    /\ pc[c] \in {"reading", "deciding"} => Kind[c] # "cycle"

RegistryInv ==
  /\ TypeOK /\ TxInv(Labels, Registries)
  /\ FreshIsCurrent /\ Counted(registry) /\ Bounded /\ KnownIsBefore /\ SeenIsBetween
  /\ KindsApart /\ RolesStand /\ RefusalsAreReal

-----------------------------------------------------------------------------
(* Registries *)

LEMMA RegisteredFinite ==
  \A r : IsFiniteSet(Registered(r)) /\ Cardinality(Registered(r)) \in Nat
BY FS_Subset, FS_CardinalityType DEF Registered

LEMMA BeforeGrows ==
  ASSUME NEW r, NEW s, Before(r, s)
  PROVE  /\ Registered(r) \subseteq Registered(s)
         /\ r.version <= s.version
         /\ r.version = s.version => r.roles = s.roles
<1>1. Registered(r) \subseteq Registered(s)
  BY DEF Before, Grown, Registered
<1>2. Cardinality(Registered(r)) <= Cardinality(Registered(s))
  BY <1>1, RegisteredFinite, FS_Subset
<1>3. ASSUME r.version = s.version
      PROVE  r.roles = s.roles
  <2>1. Registered(r) = Registered(s)
    BY <1>1, <1>3, RegisteredFinite, FS_Subset DEF Before, Counted
  <2>2. \A a \in Actors : r.roles[a] = s.roles[a]
    BY <2>1 DEF Before, Grown, Registered
  <2> QED  BY <2>2 DEF Before, Counted, Registries
<1> QED  BY <1>1, <1>2, <1>3 DEF Before, Counted

LEMMA BeforeIsTransitive ==
  ASSUME NEW r, NEW s, NEW t, Before(r, s), Before(s, t)
  PROVE  Before(r, t)
BY DEF Before, Grown

LEMMA BeforeIsReflexive ==
  ASSUME NEW r, Counted(r)
  PROVE  Before(r, r)
BY DEF Before, Grown

LEMMA NoActorsCounted == Counted(NoActors) /\ Registered(NoActors) = {}
<1>1. Registered(NoActors) = {}
  BY DEF Registered, NoActors
<1> QED  BY <1>1, FS_EmptySet DEF Counted, NoActors, Registries

\* What a start or a registration that does not clash makes of a registry.
LEMMA WithGrows ==
  ASSUME NEW r, Counted(r), NEW c \in Clients, ~ Clashes(r, c)
  PROVE  /\ Before(r, With(r, c))
         /\ \A a \in Wanted(c) : With(r, c).roles[a] = Wish[c][a]
<1> DEFINE s == With(r, c)
<1>1. /\ s.roles \in [Actors -> Roles \cup {NoRole}]
      /\ \A a \in Actors : s.roles[a] = IF r.roles[a] = NoRole THEN Wish[c][a] ELSE r.roles[a]
  BY DEF With, Counted, Registries
<1>2. Registered(s) = Registered(r) \cup (Wanted(c) \ Registered(r))
  BY <1>1 DEF Registered, Wanted
<1>3. IsFiniteSet(Wanted(c) \ Registered(r))
  BY FS_Subset DEF Wanted
<1>4. Registered(r) \cap (Wanted(c) \ Registered(r)) = {}
  OBVIOUS
<1>5. /\ Cardinality(Wanted(c) \ Registered(r)) \in Nat
      /\ Cardinality(Registered(s)) =
           Cardinality(Registered(r)) + Cardinality(Wanted(c) \ Registered(r))
  <2>1. Cardinality(Wanted(c) \ Registered(r)) \in Nat
    BY <1>3, FS_CardinalityType
  <2>2. Cardinality(Registered(s)) =
          Cardinality(Registered(r)) + Cardinality(Wanted(c) \ Registered(r))
          - Cardinality({})
    BY <1>2, <1>3, <1>4, RegisteredFinite, FS_Union
  <2> QED  BY <2>1, <2>2, RegisteredFinite, FS_EmptySet
<1>6. Counted(s)
  BY <1>1, <1>5, RegisteredFinite DEF Counted, With, Registries
<1>7. Grown(r, s)
  BY <1>1 DEF Grown
<1>8. \A a \in Wanted(c) : s.roles[a] = Wish[c][a]
  BY <1>1 DEF Clashes, Wanted
<1> QED  BY <1>6, <1>7, <1>8 DEF Before

\* Whatever a client wants, the registry with it has no more than both.
LEMMA WithIsWithin ==
  ASSUME NEW r, NEW c \in Clients
  PROVE  Registered(With(r, c)) \subseteq Registered(r) \cup Wanted(c)
BY DEF Registered, With, Wanted

-----------------------------------------------------------------------------
(* Steps *)

LEMMA InitOK == Init => RegistryInv
<1> SUFFICES ASSUME Init PROVE RegistryInv
  OBVIOUS
<1>1. TxInv(Labels, Registries)
  BY TxInitOK DEF Init
<1>2. Counted(registry) /\ Before(registry, registry)
  BY NoActorsCounted, BeforeIsReflexive DEF Init
<1>3. TypeOK
  BY <1>1, <1>2 DEF Init, TypeOK, TxInv, Labels, Counted
<1>4. Bounded
  BY NoActorsCounted, FS_EmptySet DEF Init, Bounded
<1>5. FreshIsCurrent /\ KnownIsBefore /\ SeenIsBetween /\ RolesStand /\ RefusalsAreReal
  BY <1>2 DEF Init, TxInit, FreshIsCurrent, KnownIsBefore, SeenIsBetween, RolesStand,
              RefusalsAreReal
<1>6. KindsApart
  BY DEF Init, TxInit, KindsApart
<1> QED  BY <1>1, <1>2, <1>3, <1>4, <1>5, <1>6 DEF RegistryInv

\* A step that leaves the registry alone: one client moves on.
LEMMA QuietKeeps ==
  ASSUME RegistryInv, NEW c \in Clients, NEW l \in AllLabels(Labels),
         registry' = registry, TxInv(Labels, Registries)',
         pc' = [pc EXCEPT ![c] = l], fresh' \subseteq fresh,
         \A b \in Clients : b \in fresh' \/ pc'[b] = "deciding" => seen'[b] = seen[b],
         known' = known \/ known' = [known EXCEPT ![c] = registry],
         Kind[c] # "cycle" => l \notin {"done", "gated"},
         Kind[c] = "cycle" => l # "reading",
         Kind[c] = "cycle" /\ l \in {"done", "gated"} =>
           \A a \in Wanted(c) : registry.roles[a] = known'[c].roles[a]
                                /\ registry.roles[a] # NoRole,
         Kind[c] # "cycle" /\ l = "refused" =>
           \/ \E a \in Wanted(c) : registry.roles[a] \notin {NoRole, Wish[c][a]}
           \/ Kind[c] = "register" /\ registry.version > known'[c].version
           \/ Cardinality(Registered(registry) \cup Wanted(c)) > MaxActors
  PROVE  RegistryInv'
<1> USE DEF RegistryInv
<1>1. /\ pc \in [Clients -> {"idle", "reading", "deciding", "unsure"} \cup Labels]
      /\ known \in [Clients -> Registries] /\ registry \in Registries /\ fresh \subseteq Clients
      /\ l # "deciding"
  BY DEF TypeOK, TxOK, Labels, AllLabels
<1>2. TypeOK'
  BY <1>1 DEF TypeOK, TxInv, Labels
<1>3. FreshIsCurrent' /\ Counted(registry)' /\ Bounded'
  BY <1>1 DEF FreshIsCurrent, Bounded, Counted, Registered
<1>4. KnownIsBefore'
  BY <1>1, BeforeIsReflexive DEF KnownIsBefore
<1>5. SeenIsBetween'
  BY <1>1 DEF SeenIsBetween
<1>6. RolesStand'
  BY <1>1 DEF RolesStand, Wanted
<1>7. RefusalsAreReal'
  <2> SUFFICES ASSUME NEW b \in Clients, pc'[b] = "refused", Kind[b] # "cycle"
               PROVE  \/ \E a \in Wanted(b) : registry.roles[a] # NoRole
                                              /\ registry.roles[a] # Wish[b][a]
                      \/ Kind[b] = "register" /\ registry.version > known'[b].version
                      \/ Cardinality(Registered(registry) \cup Wanted(b)) > MaxActors
    BY DEF RefusalsAreReal, Registered, Wanted
  <2>1. CASE b = c
    BY <2>1, <1>1
  <2>2. CASE b # c
    BY <2>2, <1>1 DEF RefusalsAreReal
  <2> QED  BY <2>1, <2>2
<1>8. KindsApart'
  BY <1>1 DEF KindsApart
<1> QED  BY <1>2, <1>3, <1>4, <1>5, <1>6, <1>7, <1>8

LEMMA BeginKeeps ==
  ASSUME RegistryInv, NEW c \in Clients, Start(c) \/ LookUpVersion(c) \/ Gate(c) \/ Admit(c)
  PROVE  RegistryInv'
<1>1. PICK l \in {"reading", "gated", "refused", "done"} :
        /\ Goto(c, l) /\ registry' = registry /\ pc[c] \in {"idle", "gated"}
        /\ known' = known \/ known' = [known EXCEPT ![c] = registry]
        /\ Kind[c] # "cycle" <=> l = "reading"
        /\ Kind[c] = "cycle" /\ l \in {"done", "gated"} =>
             \A a \in Wanted(c) : registry.roles[a] = known'[c].roles[a]
                                  /\ registry.roles[a] # NoRole
  <2>0. known \in [Clients -> Registries]
    BY DEF RegistryInv, TypeOK
  <2>1. CASE Start(c)
    BY <2>1 DEF Start
  <2>2. CASE LookUpVersion(c)
    BY <2>2 DEF LookUpVersion
  <2>3. CASE Gate(c)
    BY <2>0, <2>3 DEF Gate, Registered, Wanted
  <2>4. CASE Admit(c)
    <3>1. Kind[c] = "cycle"
      BY <2>4 DEF Admit, RegistryInv, KindsApart
    <3>2. \A a \in Wanted(c) : registry.roles[a] = known[c].roles[a]
                               /\ registry.roles[a] # NoRole
      BY <2>4, <3>1 DEF Admit, RegistryInv, RolesStand, Wanted
    <3>3. Goto(c, "done")
      BY <2>4, <3>2 DEF Admit
    <3> QED  BY <2>4, <3>1, <3>2, <3>3 DEF Admit
  <2> QED  BY <2>1, <2>2, <2>3, <2>4
<1>2. TxInv(Labels, Registries)'
  BY <1>1, GotoKeeps DEF RegistryInv, Labels, AllLabels
<1>3. l \in AllLabels(Labels)
  BY DEF AllLabels, Labels
<1> QED  BY <1>1, <1>2, <1>3, QuietKeeps DEF Goto

\* A read sees the registry as it is.
LEMMA ReadKeeps ==
  ASSUME RegistryInv, NEW c \in Clients, Read(c)
  PROVE  RegistryInv'
<1> USE DEF RegistryInv
<1>1. /\ UNCHANGED <<registry, known>> /\ pc[c] = "reading"
      /\ pc' = [pc EXCEPT ![c] = "deciding"] /\ seen' = [seen EXCEPT ![c] = registry]
      /\ fresh' = fresh \cup {c}
      /\ pc \in [Clients -> {"idle", "reading", "deciding", "unsure"} \cup Labels]
      /\ seen \in [Clients -> Registries \cup {Unread}] /\ fresh \subseteq Clients
      /\ registry \in Registries
  BY DEF Read, ReadIn, TypeOK, TxOK, Labels
<1>2. TxInv(Labels, Registries)'
  BY <1>1, ReadInKeeps DEF Read, Labels
<1>3. TypeOK'
  BY <1>1, <1>2 DEF TypeOK, TxInv, Labels
<1>4. FreshIsCurrent' /\ Counted(registry)' /\ Bounded' /\ KnownIsBefore' /\ KindsApart'
  BY <1>1 DEF FreshIsCurrent, Bounded, Counted, Registered, KnownIsBefore, KindsApart
<1>5. SeenIsBetween'
  <2> SUFFICES ASSUME NEW b \in Clients, pc'[b] = "deciding"
               PROVE  Before(known[b], seen'[b]) /\ Before(seen'[b], registry)
    BY <1>1 DEF SeenIsBetween
  <2>1. CASE b = c
    BY <2>1, <1>1, BeforeIsReflexive DEF KnownIsBefore
  <2>2. CASE b # c
    BY <2>2, <1>1 DEF SeenIsBetween
  <2> QED  BY <2>1, <2>2
<1>6. RolesStand'
  BY <1>1 DEF RolesStand, Wanted
<1>7. RefusalsAreReal'
  BY <1>1 DEF RefusalsAreReal, Wanted, Registered
<1> QED  BY <1>2, <1>3, <1>4, <1>5, <1>6, <1>7

\* A refusal on what was read is one on what is stored, outdated or not.
LEMMA RefuseKeeps ==
  ASSUME RegistryInv, NEW c \in Clients, Refuse(c)
  PROVE  RegistryInv'
<1>1. TxInv(Labels, Registries)'
  BY EndWithKeeps DEF RegistryInv, Refuse, Labels, AllLabels
<1>2. /\ UNCHANGED <<registry, known>> /\ pc[c] = "deciding"
      /\ pc' = [pc EXCEPT ![c] = "refused"] /\ seen' = [seen EXCEPT ![c] = Unread]
      /\ fresh' = fresh \ {c} /\ Refuses(c)
  BY DEF Refuse, EndWith, Leave
<1>3. /\ Kind[c] # "cycle" /\ Before(known[c], seen[c]) /\ Before(seen[c], registry)
      /\ seen \in [Clients -> Registries \cup {Unread}]
      /\ pc \in [Clients -> {"idle", "reading", "deciding", "unsure"} \cup Labels]
  BY <1>2 DEF RegistryInv, KindsApart, SeenIsBetween, TypeOK, TxOK, Labels
<1>4. \/ \E a \in Wanted(c) : registry.roles[a] \notin {NoRole, Wish[c][a]}
      \/ Kind[c] = "register" /\ registry.version > known[c].version
      \/ Cardinality(Registered(registry) \cup Wanted(c)) > MaxActors
  <2>1. CASE Outdated(c)
    <3>1. known[c].version <= seen[c].version /\ seen[c].version <= registry.version
      BY <1>3, BeforeGrows
    <3>2. known[c].version \in Nat /\ seen[c].version \in Nat /\ registry.version \in Nat
      BY <1>3 DEF Before, Counted, Registries
    <3>3. Kind[c] = "register" /\ seen[c].version # known[c].version
      BY <2>1 DEF Outdated
    <3>4. \A x, y, z \in Nat : x <= y /\ y <= z /\ y # x => z > x
      OBVIOUS
    <3>5. registry.version > known[c].version
      BY <3>1, <3>2, <3>3, <3>4, Zenon
    <3> QED  BY <3>3, <3>5
  <2>2. CASE Clashes(seen[c], c)
    BY <2>2, <1>3 DEF Clashes, Before, Grown, Wanted
  <2>3. CASE Cardinality(Registered(With(seen[c], c))) > MaxActors
    <3>1. Registered(With(seen[c], c)) \subseteq Registered(registry) \cup Wanted(c)
      BY <1>3, WithIsWithin, BeforeGrows
    <3>2. IsFiniteSet(Registered(registry) \cup Wanted(c))
      BY FS_Subset DEF Registered, Wanted
    <3>3. Cardinality(Registered(With(seen[c], c)))
            <= Cardinality(Registered(registry) \cup Wanted(c))
      BY <3>1, <3>2, FS_Subset
    <3>4. Cardinality(Registered(registry) \cup Wanted(c)) \in Nat
      BY <3>2, FS_CardinalityType
    <3> QED  BY <2>3, <3>3, <3>4, RegisteredFinite
  <2> QED  BY <1>2, <2>1, <2>2, <2>3 DEF Refuses
<1> QED  BY <1>1, <1>2, <1>3, <1>4, QuietKeeps DEF AllLabels, Labels

LEMMA AbortKeepsRegistry ==
  ASSUME RegistryInv, NEW c \in Clients, Abort(c)
  PROVE  RegistryInv'
<1>1. TxInv(Labels, Registries)'
  BY AbortKeeps DEF RegistryInv, Abort
<1>2. /\ UNCHANGED <<registry, known>> /\ pc[c] \in {"reading", "deciding"}
      /\ Kind[c] # "cycle" /\ seen \in [Clients -> Registries \cup {Unread}]
      /\ pc \in [Clients -> {"idle", "reading", "deciding", "unsure"} \cup Labels]
  BY DEF Abort, Aborted, Broken, RegistryInv, KindsApart, TypeOK, TxOK, Labels
<1>3. CASE pc' = [pc EXCEPT ![c] = "reading"] /\ UNCHANGED <<seen, fresh>>
  BY <1>1, <1>2, <1>3, QuietKeeps DEF AllLabels
<1>4. CASE /\ pc' = [pc EXCEPT ![c] = "unsure"] /\ seen' = [seen EXCEPT ![c] = Unread]
           /\ fresh' = fresh \ {c}
  BY <1>1, <1>2, <1>4, QuietKeeps DEF AllLabels
<1> QED  BY <1>3, <1>4 DEF Abort, Aborted, Broken, Goto, Leave

\* What a write changes: the registry as it is grows by what its client wants.
LEMMA WriteGrows ==
  ASSUME RegistryInv, NEW c \in Clients, NEW l \in {"done", "unsure"}, Write(c, l)
  PROVE  /\ pc[c] = "deciding" /\ ~ Refuses(c) /\ seen[c] = registry
         /\ registry' = With(registry, c) /\ Before(registry, registry')
         /\ \A a \in Wanted(c) : registry'.roles[a] = Wish[c][a]
         /\ Cardinality(Registered(registry')) <= MaxActors
         /\ known' = known /\ fresh' = {}
         /\ pc' = [pc EXCEPT ![c] = l] /\ seen' = [seen EXCEPT ![c] = Unread]
<1>1. /\ pc[c] = "deciding" /\ ~ Refuses(c) /\ c \in fresh /\ registry' = With(seen[c], c)
      /\ known' = known /\ fresh' = {}
      /\ pc' = [pc EXCEPT ![c] = l] /\ seen' = [seen EXCEPT ![c] = Unread]
  BY DEF Write, CommitTo, MayCommit, Leave
<1>2. seen[c] = registry /\ Counted(registry)
  BY <1>1 DEF RegistryInv, FreshIsCurrent
<1>3. Before(registry, registry') /\ \A a \in Wanted(c) : registry'.roles[a] = Wish[c][a]
  BY <1>1, <1>2, WithGrows DEF Refuses
<1>4. Cardinality(Registered(registry')) <= MaxActors
  BY <1>1, <1>2, RegisteredFinite DEF Refuses
<1> QED  BY <1>1, <1>2, <1>3, <1>4

LEMMA WriteKeeps ==
  ASSUME RegistryInv, NEW c \in Clients, NEW l \in {"done", "unsure"}, Write(c, l)
  PROVE  RegistryInv'
<1> USE DEF RegistryInv
<1>1. TxInv(Labels, Registries)'
  BY CommitToKeeps DEF Write, Labels, AllLabels
<1>2. /\ Before(registry, registry') /\ known' = known /\ fresh' = {}
      /\ pc' = [pc EXCEPT ![c] = l] /\ seen' = [seen EXCEPT ![c] = Unread]
      /\ \A a \in Wanted(c) : registry'.roles[a] = Wish[c][a]
      /\ Kind[c] # "cycle"
      /\ pc \in [Clients -> {"idle", "reading", "deciding", "unsure"} \cup Labels]
      /\ seen \in [Clients -> Registries \cup {Unread}]
  BY WriteGrows DEF KindsApart, TypeOK, TxOK, Labels
<1>3. TypeOK'
  BY <1>1, <1>2 DEF TypeOK, TxInv, Labels, Before, Counted
<1>4. FreshIsCurrent' /\ KindsApart'
  BY <1>2 DEF FreshIsCurrent, KindsApart
<1>5. Counted(registry)' /\ Bounded'
  BY <1>2, WriteGrows DEF Before, Counted, Bounded, Registered
<1>6. KnownIsBefore'
  BY <1>2, BeforeIsTransitive DEF KnownIsBefore
<1>7. SeenIsBetween'
  BY <1>2, BeforeIsTransitive DEF SeenIsBetween
<1>8. RolesStand'
  BY <1>2 DEF RolesStand, Before, Grown, Wanted
<1>9. RefusalsAreReal'
  <2> SUFFICES ASSUME NEW b \in Clients, pc'[b] = "refused", Kind[b] # "cycle"
               PROVE  \/ \E a \in Wanted(b) : registry'.roles[a] # NoRole
                                              /\ registry'.roles[a] # Wish[b][a]
                      \/ Kind[b] = "register" /\ registry'.version > known'[b].version
                      \/ Cardinality(Registered(registry') \cup Wanted(b)) > MaxActors
    BY DEF RefusalsAreReal, Registered, Wanted
  <2>1. pc[b] = "refused"
    BY <1>2
  <2>2. CASE \E a \in Wanted(b) : registry.roles[a] # NoRole /\ registry.roles[a] # Wish[b][a]
    BY <2>2, <1>2 DEF Before, Grown, Wanted
  <2>3. CASE Kind[b] = "register" /\ registry.version > known[b].version
    <3>1. /\ registry.version <= registry'.version /\ registry.version \in Nat
          /\ registry'.version \in Nat /\ known[b].version \in Nat
      BY <1>2, BeforeGrows DEF Before, Counted, Registries, KnownIsBefore
    <3> QED  BY <2>3, <3>1, <1>2
  <2>4. CASE Cardinality(Registered(registry) \cup Wanted(b)) > MaxActors
    <3>1. Registered(registry) \cup Wanted(b) \subseteq Registered(registry') \cup Wanted(b)
      BY <1>2, BeforeGrows
    <3>2. IsFiniteSet(Registered(registry') \cup Wanted(b))
      BY FS_Subset DEF Registered, Wanted
    <3>3. /\ Cardinality(Registered(registry) \cup Wanted(b))
               <= Cardinality(Registered(registry') \cup Wanted(b))
          /\ IsFiniteSet(Registered(registry) \cup Wanted(b))
      BY <3>1, <3>2, FS_Subset
    <3> QED  BY <2>4, <3>2, <3>3, FS_CardinalityType
  <2> QED  BY <2>1, <2>2, <2>3, <2>4 DEF RefusalsAreReal
<1> QED  BY <1>1, <1>3, <1>4, <1>5, <1>6, <1>7, <1>8, <1>9

LEMMA StillKeeps ==
  ASSUME RegistryInv, UNCHANGED vars
  PROVE  RegistryInv'
<1> USE DEF RegistryInv
<1>1. UNCHANGED <<pc, seen, attempts, fresh, registry, known>>
  BY DEF vars, txVars
<1>2. TxInv(Labels, Registries)'
  BY <1>1, TxStutters DEF txVars
<1>3. TypeOK'
  BY <1>1, <1>2 DEF TypeOK, TxInv, Labels
<1> QED  BY <1>1, <1>2, <1>3 DEF FreshIsCurrent, Counted, Bounded, Registered, KnownIsBefore,
            SeenIsBetween, KindsApart, RolesStand, RefusalsAreReal, Wanted

LEMMA StepKeeps ==
  ASSUME RegistryInv, [Next]_vars
  PROVE  RegistryInv'
<1>1. ASSUME NEW c \in Clients, Commit(c) \/ LoseAck(c)
      PROVE  RegistryInv'
  BY <1>1, WriteKeeps DEF Commit, LoseAck
<1> QED  BY <1>1, BeginKeeps, ReadKeeps, RefuseKeeps, AbortKeepsRegistry, StillKeeps DEF Next

LEMMA Inductive == Spec => []RegistryInv
BY InitOK, StepKeeps, PTL DEF Spec

-----------------------------------------------------------------------------
\* Registry, clients and transactions keep their shape in every state.
THEOREM RegistryTypeCorrect == Spec => []TypeOK
<1>1. RegistryInv => TypeOK
  BY DEF RegistryInv
<1> QED  BY Inductive, <1>1, PTL

\* The version counts the actors and the registry keeps its bound
\* (register_actor, initialize_actors, _registry_document).
THEOREM VersionIsCount == Spec => []VersionCountsActors
<1>1. RegistryInv => VersionCountsActors
  BY DEF RegistryInv, Counted, Bounded, VersionCountsActors
<1> QED  BY Inductive, <1>1, PTL

\* A role that a start, a registration or a policy gate relied on stays as it was.
THEOREM RolesAreKept == Spec => []RolesStand
<1>1. RegistryInv => RolesStand
  BY DEF RegistryInv
<1> QED  BY Inductive, <1>1, PTL

\* No start and no registration is refused without a lasting reason.
THEOREM RefusalsHaveReasons == Spec => []RefusalsAreReal
<1>1. RegistryInv => RefusalsAreReal
  BY DEF RegistryInv
<1> QED  BY Inductive, <1>1, PTL

\* Only a client's own commit ends its deciding and changes the registry.
LEMMA OwnCommit ==
  ASSUME RegistryInv, [Next]_vars, NEW c \in Clients,
         pc[c] = "deciding", pc'[c] # pc[c], registry' # registry
  PROVE  \E l \in {"done", "unsure"} : Write(c, l)
<1>1. PICK b \in Clients, l \in {"done", "unsure"} : Write(b, l)
  BY DEF Next, vars, Start, LookUpVersion, Read, Refuse, Commit, LoseAck, Abort, Gate, Admit
<1>2. b = c
  BY <1>1, WriteGrows DEF RegistryInv, TypeOK, TxOK
<1> QED  BY <1>1, <1>2

\* A registration changes the registry that its caller knew, and no later one.
THEOREM RegistrationsSee == Spec => NoBlindRegistration
<1>1. ASSUME RegistryInv, [Next]_vars
      PROVE  [\A c \in Clients :
               Kind[c] = "register" /\ pc[c] = "deciding" /\ pc'[c] # pc[c]
               /\ registry' # registry
               => registry.roles = known[c].roles]_vars
  <2> SUFFICES ASSUME NEW c \in Clients, Kind[c] = "register", pc[c] = "deciding",
                      pc'[c] # pc[c], registry' # registry
               PROVE  registry.roles = known[c].roles
    OBVIOUS
  <2>1. PICK l \in {"done", "unsure"} : Write(c, l)
    BY <1>1, OwnCommit
  <2>2. registry.version = known[c].version
    BY <1>1, <2>1, WriteGrows DEF Refuses, Outdated
  <2>3. Before(known[c], registry)
    BY <1>1 DEF RegistryInv, KnownIsBefore
  <2> QED  BY <2>2, <2>3, BeforeGrows
<1> QED  BY Inductive, <1>1, PTL DEF Spec, NoBlindRegistration
=============================================================================
