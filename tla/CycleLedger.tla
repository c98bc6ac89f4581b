----------------------------- MODULE CycleLedger -----------------------------
(***************************************************************************)
(* What a store promises about the cycles of one task, with no claims, no  *)
(* leases and no callers: a ledger with at most one entry per cycle key.   *)
(* An entry is written once, in one step with the effect it records, and   *)
(* never changes.  The direct writers (append_evidence, set_baton) change  *)
(* the book between entries.                                               *)
(***************************************************************************)
EXTENDS TaskRules

VARIABLES
  book,    \* the task, its evidence and its baton
  ledger   \* per cycle key: the recorded intent and result, or NoEntry

ledgerVars == <<book, ledger>>

NoEntry == [intent |-> NoIntent, result |-> NoResult]

LedgerInit ==
  /\ book = [task |-> NewTask, evidence |-> {}, baton |-> NoKey]
  /\ ledger = [k \in Keys |-> NoEntry]

\* An entry is written under key k, the first one there, and no other changes.
Enter(k) ==
  /\ ledger[k] = NoEntry
  /\ ledger'[k] # NoEntry
  /\ ledger' = [ledger EXCEPT ![k] = ledger'[k]]

\* The entry: one action by actor a, for the very book it changes.
Record(k, a, action, o) ==
  LET i == [actor_id |-> a, action |-> action, expected_version |-> book.task.version]
  IN  /\ Admits(book.task, i)
      /\ ledger'[k] = [intent |-> i, result |-> AppliedResult(book, i, o)]
      /\ book' = Applied(book, i, o)

\* The entry: no action, and the task parked.
Refuse(k) ==
  /\ book.task.state \notin Terminal
  /\ ledger'[k] = [intent |-> NoIntent, result |-> DeniedResult(book)]
  /\ book' = Denied(book)

AppendEvidence(e) ==
  /\ UNCHANGED ledger
  /\ book.task.state \notin Terminal
  /\ e.id \notin IdsOf(book.evidence)
  /\ book' = Appended(book, e)

SetBaton(k) ==
  /\ UNCHANGED ledger
  /\ book.task.state \notin Terminal
  /\ book' = BatonSet(book, k)

Write ==
  \E k \in Keys :
    /\ Enter(k)
    /\ \/ Refuse(k)
       \/ \E a \in Actors, action \in Actions, o \in Outcomes : Record(k, a, action, o)

WriteDirectly ==
  \/ \E e \in Evidence : AppendEvidence(e)
  \/ \E k \in Keys \cup {NoKey} : SetBaton(k)

LedgerNext == Write \/ WriteDirectly

LedgerSpec == LedgerInit /\ [][LedgerNext]_ledgerVars
=============================================================================
