-------------------------- MODULE TransactionsProofs --------------------------
(* What every step of a transaction keeps, whatever is read and written. *)
EXTENDS Transactions, TLAPS

\* Only a transaction that decides has read something, and a transaction that is
\* to run once more has not used up its attempts.
TxInv(labels, documents) ==
  /\ TxOK(labels, documents)
  /\ \A c \in Clients :
       /\ pc[c] = "deciding" => seen[c] \in documents
       /\ pc[c] = "reading" => attempts[c] < MaxAttempts
       /\ pc[c] \notin {"reading", "deciding"} => attempts[c] = 0

AllLabels(labels) == labels \cup {"idle", "reading", "unsure"}

\* A client outside its transaction moves on.
LEMMA GotoKeeps ==
  ASSUME NEW labels, NEW documents, NEW c \in Clients, NEW l \in AllLabels(labels),
         TxInv(labels, documents), Goto(c, l), l # "deciding",
         pc[c] \notin {"reading", "deciding"}
  PROVE  TxInv(labels, documents)'
BY AttemptsAssumption DEF TxInv, TxOK, Goto, AllLabels

\* A client reads.
LEMMA ReadInKeeps ==
  ASSUME NEW labels, NEW documents, NEW c \in Clients, NEW d \in documents,
         "deciding" \notin labels, "reading" \notin labels,
         TxInv(labels, documents), ReadIn(c, d)
  PROVE  TxInv(labels, documents)'
BY AttemptsAssumption DEF TxInv, TxOK, ReadIn

\* A transaction ends, with a write or without.
LEMMA LeaveKeeps ==
  ASSUME NEW labels, NEW documents, NEW c \in Clients, NEW l \in AllLabels(labels),
         TxInv(labels, documents), Leave(c, l), l \notin {"reading", "deciding"},
         fresh' \subseteq fresh
  PROVE  TxInv(labels, documents)'
BY AttemptsAssumption DEF TxInv, TxOK, Leave, AllLabels

LEMMA EndWithKeeps ==
  ASSUME NEW labels, NEW documents, NEW c \in Clients, NEW l \in AllLabels(labels),
         TxInv(labels, documents), EndWith(c, l), l \notin {"reading", "deciding"}
  PROVE  TxInv(labels, documents)'
BY LeaveKeeps DEF EndWith

LEMMA CommitToKeeps ==
  ASSUME NEW labels, NEW documents, NEW c \in Clients, NEW l \in AllLabels(labels),
         TxInv(labels, documents), CommitTo(c, l), l \notin {"reading", "deciding"}
  PROVE  TxInv(labels, documents)'
BY LeaveKeeps DEF CommitTo

\* A transaction is aborted, or never ends.
LEMMA AbortKeeps ==
  ASSUME NEW labels, NEW documents, NEW c \in Clients,
         TxInv(labels, documents), Aborted(c) \/ Broken(c)
  PROVE  TxInv(labels, documents)'
<1>1. CASE Aborted(c) /\ attempts[c] < MaxAttempts
  BY <1>1, AttemptsAssumption DEF Aborted, Goto, TxInv, TxOK
<1>2. CASE Aborted(c) /\ ~ (attempts[c] < MaxAttempts)
  BY <1>2, LeaveKeeps DEF Aborted, AllLabels
<1>3. CASE Broken(c)
  BY <1>3, LeaveKeeps DEF Broken, AllLabels
<1> QED  BY <1>1, <1>2, <1>3

LEMMA TxInitOK ==
  ASSUME NEW labels, NEW documents
  PROVE  TxInit => TxInv(labels, documents)
BY AttemptsAssumption DEF TxInit, TxInv, TxOK

LEMMA TxStutters ==
  ASSUME NEW labels, NEW documents, TxInv(labels, documents), UNCHANGED txVars
  PROVE  TxInv(labels, documents)'
BY DEF TxInv, TxOK, txVars
=============================================================================
