---------------------------- MODULE ActorRegistry ----------------------------
(***************************************************************************)
(* The registry of actors: one document with a role per actor and a        *)
(* version.  Every process initializes it when it starts; actors are       *)
(* registered one by one against the version the caller knows; a cycle     *)
(* reads the role of its actor for the policy gate, and again when the     *)
(* store admits the action.  A client is one of these.  The memory store   *)
(* is the case in which no transaction aborts; it has no MaxActors.        *)
(***************************************************************************)
EXTENDS Transactions

CONSTANTS
  Actors, Roles,
  NoRole,      \* the role of an actor that is not registered
  Kind,        \* per client: "start", "register" or "cycle"
  Wish,        \* per client: the role it has for each actor, if any
  MaxActors    \* MAX_FIRESTORE_ACTORS (64)

ASSUME ActorsAssumption == IsFiniteSet(Actors) /\ NoRole \notin Roles
ASSUME KindAssumption == Kind \in [Clients -> {"start", "register", "cycle"}]
ASSUME WishAssumption ==
  /\ Wish \in [Clients -> [Actors -> Roles \cup {NoRole}]]
  /\ \A c \in Clients : Kind[c] # "start" =>
       \E a \in Actors : \A b \in Actors : Wish[c][b] # NoRole <=> b = a
ASSUME MaxActorsAssumption == MaxActors \in Nat

VARIABLES
  registry,   \* the document: roles and version
  known       \* per client: the registry as it saw it before its transaction, or
              \* the roles it has passed the policy gate with

vars == <<txVars, registry, known>>

Registries == [roles : [Actors -> Roles \cup {NoRole}], version : Nat]
NoActors == [roles |-> [a \in Actors |-> NoRole], version |-> 0]
Registered(r) == {a \in Actors : r.roles[a] # NoRole}
Wanted(c) == {a \in Actors : Wish[c][a] # NoRole}

-----------------------------------------------------------------------------
Init ==
  /\ TxInit
  /\ registry = NoActors
  /\ known = [c \in Clients |-> NoActors]

\* initialize_actors, called by the service's constructor.
Start(c) ==
  /\ pc[c] = "idle" /\ Kind[c] = "start"
  /\ Goto(c, "reading")
  /\ UNCHANGED <<registry, known>>

\* get_registry_version, before register_actor.
LookUpVersion(c) ==
  /\ pc[c] = "idle" /\ Kind[c] = "register"
  /\ known' = [known EXCEPT ![c] = registry]
  /\ Goto(c, "reading")
  /\ UNCHANGED registry

Read(c) == ReadIn(c, registry) /\ UNCHANGED <<registry, known>>

\* Mutant: an actor that is registered clashes whatever its role.
ClashesAlways(r, c) == Wanted(c) \cap Registered(r) # {}

\* A role is immutable.
Clashes(r, c) == \E a \in Wanted(c) : r.roles[a] \notin {NoRole, Wish[c][a]}

\* Mutant: a start counts as one change of the registry.
WithOneChange(r, c) ==
  [roles   |-> [a \in Actors |-> IF r.roles[a] = NoRole THEN Wish[c][a] ELSE r.roles[a]],
   version |-> r.version + 1]

\* An actor that is there stays as it is; each new one is a version.
With(r, c) ==
  [roles   |-> [a \in Actors |-> IF r.roles[a] = NoRole THEN Wish[c][a] ELSE r.roles[a]],
   version |-> r.version + Cardinality(Wanted(c) \ Registered(r))]

\* Mutant: a registration does not compare the version its caller knew.
OutdatedNever(c) == FALSE

Outdated(c) == Kind[c] = "register" /\ seen[c].version # known[c].version

Refuses(c) ==
  \/ Outdated(c)
  \/ Clashes(seen[c], c)
  \/ Cardinality(Registered(With(seen[c], c))) > MaxActors

Refuse(c) ==
  /\ EndWith(c, "refused")
  /\ Refuses(c)
  /\ UNCHANGED <<registry, known>>

\* The document is written even if nothing was new.
Write(c, l) ==
  /\ CommitTo(c, l)
  /\ ~ Refuses(c)
  /\ registry' = With(seen[c], c)
  /\ UNCHANGED known

Commit(c) == Write(c, "done")

\* The acknowledgement is lost: a start fails, a caller does not know.
LoseAck(c) == Write(c, "unsure")

Abort(c) == (Aborted(c) \/ Broken(c)) /\ UNCHANGED <<registry, known>>

\* propose_authorized_intent: the actor is unknown, or its role goes to the gate.
Gate(c) ==
  /\ pc[c] = "idle" /\ Kind[c] = "cycle"
  /\ known' = [known EXCEPT ![c] = registry]
  /\ Goto(c, IF Wanted(c) \subseteq Registered(registry) THEN "gated" ELSE "refused")
  /\ UNCHANGED registry

\* apply_cycle reads the role again.
Admit(c) ==
  /\ pc[c] = "gated"
  /\ Goto(c, IF \A a \in Wanted(c) : registry.roles[a] = known[c].roles[a]
             THEN "done" ELSE "refused")
  /\ UNCHANGED <<registry, known>>

Next ==
  \E c \in Clients :
    \/ Start(c) \/ LookUpVersion(c) \/ Read(c) \/ Refuse(c)
    \/ Commit(c) \/ LoseAck(c) \/ Abort(c) \/ Gate(c) \/ Admit(c)

Spec == Init /\ [][Next]_vars

-----------------------------------------------------------------------------
(* Properties *)

TypeOK ==
  /\ TxOK({"refused", "done", "gated"}, Registries)
  /\ registry \in Registries
  /\ known \in [Clients -> Registries]

\* The version counts the actors, however starts and registrations interleave, and
\* the registry never outgrows its bound.
VersionCountsActors ==
  /\ registry.version = Cardinality(Registered(registry))
  /\ Cardinality(Registered(registry)) <= MaxActors

\* What a client was told of a role stays true: a process that has started, and a
\* caller that has registered an actor, find their roles, and a cycle that has
\* passed the policy gate is not refused for its role at admission.
RolesStand ==
  \A c \in Clients, a \in Actors : a \in Wanted(c) =>
    /\ pc[c] = "done" /\ Kind[c] # "cycle" => registry.roles[a] = Wish[c][a]
    /\ pc[c] \in {"gated", "done"} /\ Kind[c] = "cycle" =>
         registry.roles[a] = known[c].roles[a] /\ registry.roles[a] # NoRole

\* A registration changes the very registry its caller knew, whatever was aborted
\* and run again in between.
NoBlindRegistration ==
  [][\A c \in Clients :
       Kind[c] = "register" /\ pc[c] = "deciding" /\ pc'[c] # pc[c] /\ registry' # registry
       => registry.roles = known[c].roles]_vars

\* A refusal has a reason that lasts: another role is registered, the caller's
\* version is outdated, or the registry has no room.  In particular a process that
\* is started again, or beside others, is not refused for what they have registered.
RefusalsAreReal ==
  \A c \in Clients :
    pc[c] = "refused" /\ Kind[c] # "cycle" =>
      \/ \E a \in Wanted(c) : registry.roles[a] # NoRole /\ registry.roles[a] # Wish[c][a]
      \/ Kind[c] = "register" /\ registry.version > known[c].version
      \/ Cardinality(Registered(registry) \cup Wanted(c)) > MaxActors
=============================================================================
