---------------------------- MODULE Transactions ----------------------------
(***************************************************************************)
(* One transaction of a client on documents that many clients share, as    *)
(* firestore.transactional runs a callback of the store: the callback      *)
(* reads, and answers, raises, or writes; a write is committed if nothing  *)
(* that was read has been written since; an aborted transaction runs the   *)
(* callback again, a bounded number of times.  The modules that extend     *)
(* this one say what is read and written.                                  *)
(***************************************************************************)
EXTENDS Naturals, FiniteSets

CONSTANTS
  Clients,      \* who runs transactions, in any process, each of them once
  Unread,       \* what a client has read when it has not
  MaxAttempts   \* runs of one transaction before the library gives up (5)

ASSUME ClientsAssumption == IsFiniteSet(Clients)
ASSUME AttemptsAssumption == MaxAttempts \in Nat \ {0}

VARIABLES
  pc,         \* where each client is
  seen,       \* what its transaction has read
  attempts,   \* how often the transaction was run
  fresh       \* the clients whose read no commit has outdated

txVars == <<pc, seen, attempts, fresh>>

TxInit ==
  /\ pc = [c \in Clients |-> "idle"]
  /\ seen = [c \in Clients |-> Unread]
  /\ attempts = [c \in Clients |-> 0]
  /\ fresh = {}

Goto(c, l) == pc' = [pc EXCEPT ![c] = l] /\ UNCHANGED <<seen, attempts, fresh>>

\* What the transaction has read is forgotten with it.
Leave(c, l) ==
  /\ pc' = [pc EXCEPT ![c] = l]
  /\ seen' = [seen EXCEPT ![c] = Unread]
  /\ attempts' = [attempts EXCEPT ![c] = 0]

ReadIn(c, documents) ==
  /\ pc[c] = "reading"
  /\ pc' = [pc EXCEPT ![c] = "deciding"]
  /\ seen' = [seen EXCEPT ![c] = documents]
  /\ attempts' = [attempts EXCEPT ![c] = attempts[c] + 1]
  /\ fresh' = fresh \cup {c}

\* The callback answers or raises, and writes nothing.
EndWith(c, l) ==
  /\ pc[c] = "deciding"
  /\ Leave(c, l)
  /\ fresh' = fresh \ {c}

\* Mutant: the commit does not ask what was written since.
MayCommitStale(c) == pc[c] = "deciding"

MayCommit(c) == pc[c] = "deciding" /\ c \in fresh

\* A commit outdates what every other transaction has read.
CommitTo(c, l) ==
  /\ MayCommit(c)
  /\ Leave(c, l)
  /\ fresh' = {}

\* Mutant: the library never gives up.
AbortedForEver(c) == pc[c] = "deciding" /\ Goto(c, "reading")

\* An abort, for a stale read or for contention: run again, or an exception.
Aborted(c) ==
  /\ pc[c] = "deciding"
  /\ IF attempts[c] < MaxAttempts
     THEN Goto(c, "reading")
     ELSE Leave(c, "unsure") /\ fresh' = fresh \ {c}

\* The database is not reached, or the process dies.
Broken(c) ==
  /\ pc[c] \in {"reading", "deciding"}
  /\ Leave(c, "unsure")
  /\ fresh' = fresh \ {c}

TxOK(labels, documents) ==
  /\ pc \in [Clients -> {"idle", "reading", "deciding", "unsure"} \cup labels]
  /\ seen \in [Clients -> documents \cup {Unread}]
  /\ attempts \in [Clients -> 0 .. MaxAttempts]
  /\ fresh \subseteq Clients
=============================================================================
