-------------------------- MODULE ModelBudgetProofs --------------------------
(***************************************************************************)
(* The budget's guarantees for any number of proposals, processes, limits  *)
(* and days.  The count of a document is neither more nor less than what   *)
(* was charged since it turned to its day (Accounts); that this survives a *)
(* commit needs that a commit's read is current (FreshIsCurrent), and for  *)
(* refusals on an outdated read that charges are only ever added           *)
(* (SeenIsCharged).                                                        *)
(***************************************************************************)
EXTENDS ModelBudget, TransactionsProofs, FiniteSetTheorems

USE ClientsAssumption, LimitAssumption, ClockAssumption

Charged(d) == Cardinality(ChargedTo(d))

FreshIsCurrent == \A c \in fresh : seen[c] = budget

PaidSoFar ==
  \A c \in Clients :
    /\ charges[c] <= 1
    /\ pc[c] \in {"idle", "reading", "deciding", "refused"} => charges[c] = 0
    /\ pc[c] \in {"admitted", "asked", "chosen", "denied"} => charges[c] = 1

Accounts ==
  \A d \in Days :
    /\ Charged(d) <= MaxLimit * turns[d]
    /\ budget.day = d =>
         /\ Charged(d) + MaxLimit <= MaxLimit * turns[d] + budget.used
         /\ budget.used <= Charged(d)

SeenIsCharged ==
  \A c \in Clients : \A d \in Days :
    pc[c] = "deciding" /\ seen[c].day = d => seen[c].used <= Charged(d)

RefusedIsSpent ==
  \A c \in Clients : \A d \in Days :
    pc[c] = "refused" /\ day[c] = d => Charged(d) >= Limit[c]

BudgetInv ==
  /\ TypeOK /\ TxInv(Labels, Budgets)
  /\ FreshIsCurrent /\ PaidSoFar /\ Accounts /\ SeenIsCharged /\ RefusedIsSpent

LEMMA ChargedType ==
  \A d : IsFiniteSet(ChargedTo(d)) /\ Charged(d) \in Nat
BY FS_Subset, FS_CardinalityType DEF ChargedTo, Charged

LEMMA ChargedInitially ==
  ASSUME Init
  PROVE  \A d : Charged(d) = 0
<1>1. \A d : ChargedTo(d) = {}
  BY DEF Init, ChargedTo
<1> QED  BY <1>1, FS_EmptySet DEF Charged

\* One more day's worth of calls.
LEMMA OneMoreTurn ==
  ASSUME NEW t \in Nat
  PROVE  MaxLimit * (t + 1) = MaxLimit * t + MaxLimit
OBVIOUS

LEMMA InitOK == Init => BudgetInv
<1> SUFFICES ASSUME Init PROVE BudgetInv
  OBVIOUS
<1>1. TxInv(Labels, Budgets)
  BY TxInitOK DEF Init
<1>2. TypeOK
  BY <1>1 DEF Init, TypeOK, TxInv, Budgets, NoBudget, NoDay, Days
<1>3. FreshIsCurrent /\ PaidSoFar
  BY DEF Init, TxInit, FreshIsCurrent, PaidSoFar
<1>4. Accounts
  BY ChargedInitially DEF Init, Accounts, NoBudget, NoDay, Days
<1>5. SeenIsCharged /\ RefusedIsSpent
  BY DEF Init, TxInit, SeenIsCharged, RefusedIsSpent
<1> QED  BY <1>1, <1>2, <1>3, <1>4, <1>5 DEF BudgetInv

\* A step that charges nothing and keeps the document keeps the accounts; what is
\* left are its own client's labels.
LEMMA NothingCharged ==
  ASSUME BudgetInv, NEW c \in Clients, UNCHANGED <<budget, turns, charges>>,
         \A d : ChargedTo(d)' = ChargedTo(d)
  PROVE  Accounts' /\ \A d : Charged(d)' = Charged(d)
BY DEF BudgetInv, Accounts, Charged

\* A charge adds its client to the day it took, and to no other.
LEMMA OneCharged ==
  ASSUME BudgetInv, NEW c \in Clients, NEW l, Charge(c, l)
  PROVE  /\ \A d : d = day[c] => Charged(d)' = Charged(d) + 1
         /\ \A d : d # day[c] => Charged(d)' = Charged(d)
         /\ \A d : Charged(d) <= Charged(d)'
<1>1. charges[c] = 0
  <2>1. pc[c] = "deciding"
    BY DEF Charge, CommitTo, MayCommit
  <2> QED  BY <2>1 DEF BudgetInv, PaidSoFar
<1>2. /\ day' = day /\ charges \in [Clients -> Nat]
      /\ charges' = [charges EXCEPT ![c] = charges[c] + 1]
  BY DEF BudgetInv, TypeOK, Charge
<1>3. \A d : d = day[c] => ChargedTo(d)' = ChargedTo(d) \cup {c} /\ c \notin ChargedTo(d)
  BY <1>1, <1>2 DEF ChargedTo
<1>4. \A d : d # day[c] => ChargedTo(d)' = ChargedTo(d)
  BY <1>1, <1>2 DEF ChargedTo
<1>5. ASSUME NEW d, d = day[c]
      PROVE  Charged(d)' = Charged(d) + 1
  <2>1. ChargedTo(d)' = ChargedTo(d) \cup {c} /\ c \notin ChargedTo(d) /\ IsFiniteSet(ChargedTo(d))
    BY <1>3, <1>5, ChargedType
  <2> QED  BY <2>1, FS_AddElement DEF Charged
<1>6. \A d : d # day[c] => Charged(d)' = Charged(d)
  BY <1>4 DEF Charged
<1>7. ASSUME NEW d
      PROVE  Charged(d) <= Charged(d)'
  BY <1>5, <1>6, ChargedType
<1> QED  BY <1>5, <1>6, <1>7

LEMMA ChargeKeeps ==
  ASSUME BudgetInv, NEW c \in Clients, NEW l \in {"admitted", "unsure"}, Charge(c, l)
  PROVE  BudgetInv'
<1> USE DEF BudgetInv
<1>1. TxInv(Labels, Budgets)'
  BY CommitToKeeps DEF Charge, Labels, AllLabels
<1>2. /\ pc[c] = "deciding" /\ c \in fresh /\ seen[c] = budget /\ budget \in Budgets
      /\ day[c] \in Days /\ Limit[c] \in 1 .. MaxLimit
      /\ Used(budget, day[c]) \in Nat /\ Used(budget, day[c]) < Limit[c]
  BY DEF Charge, CommitTo, MayCommit, FreshIsCurrent, TypeOK, TxOK, Refuses, Used, Budgets
<1>3. /\ budget' = [day |-> day[c], used |-> Used(budget, day[c]) + 1]
      /\ budget' \in Budgets
  BY <1>2 DEF Charge, Budgets
<1>4. /\ turns \in [Days -> Nat] /\ turns' \in [Days -> Nat]
      /\ \A d \in Days : d # day[c] => turns'[d] = turns[d]
      /\ turns'[day[c]] = turns[day[c]] + (IF budget.day = day[c] THEN 0 ELSE 1)
  BY <1>2 DEF Charge, TypeOK
<1>5. TypeOK'
  BY <1>1, <1>2, <1>3, <1>4 DEF TypeOK, TxInv, Charge
<1>6. FreshIsCurrent'
  BY DEF Charge, CommitTo, FreshIsCurrent
<1>7. /\ pc' = [pc EXCEPT ![c] = l] /\ charges' = [charges EXCEPT ![c] = charges[c] + 1]
      /\ pc \in [Clients -> {"idle", "reading", "deciding", "unsure"} \cup Labels]
      /\ charges \in [Clients -> Nat]
      /\ \A b \in Clients : b # c => pc'[b] = pc[b] /\ seen'[b] = seen[b] /\ day' = day
  BY DEF Charge, CommitTo, Leave, TypeOK, TxOK
<1>8. PaidSoFar'
  BY <1>2, <1>7 DEF PaidSoFar
<1>9. Accounts'
  <2> SUFFICES ASSUME NEW d \in Days
               PROVE  /\ Charged(d)' <= MaxLimit * turns'[d]
                      /\ budget'.day = d =>
                           /\ Charged(d)' + MaxLimit <= MaxLimit * turns'[d] + budget'.used
                           /\ budget'.used <= Charged(d)'
    BY DEF Accounts
  <2>1. CASE d # day[c]
    BY <2>1, <1>3, <1>4, OneCharged DEF Accounts
  <2>2. CASE d = day[c] /\ budget.day = d
    <3>1. Charged(d)' = Charged(d) + 1 /\ turns'[d] = turns[d] /\ budget'.used = budget.used + 1
      BY <2>2, <1>2, <1>3, <1>4, OneCharged DEF Used
    <3>2. /\ Charged(d) + MaxLimit <= MaxLimit * turns[d] + budget.used
          /\ budget.used <= Charged(d) /\ budget.used + 1 <= MaxLimit
      BY <2>2, <1>2 DEF Accounts, Used
    <3>3. MaxLimit * turns[d] \in Nat /\ budget.used \in Nat
      BY <1>2, <1>4 DEF Budgets
    <3> QED  BY <3>1, <3>2, <3>3, ChargedType
  <2>3. CASE d = day[c] /\ budget.day # d
    <3>1. Charged(d)' = Charged(d) + 1 /\ turns'[d] = turns[d] + 1 /\ budget'.used = 1
      BY <2>3, <1>2, <1>3, <1>4, OneCharged DEF Used
    <3>2. Charged(d) <= MaxLimit * turns[d]
      BY DEF Accounts
    <3>3. MaxLimit * turns'[d] = MaxLimit * turns[d] + MaxLimit /\ MaxLimit * turns[d] \in Nat
      BY <3>1, <1>4, OneMoreTurn
    <3>4. MaxLimit >= 1
      BY <1>2
    <3> QED  BY <3>1, <3>2, <3>3, <3>4, ChargedType
  <2> QED  BY <2>1, <2>2, <2>3
<1>10. SeenIsCharged'
  <2> SUFFICES ASSUME NEW b \in Clients, NEW d \in Days, pc'[b] = "deciding", seen'[b].day = d
               PROVE  seen'[b].used <= Charged(d)'
    BY DEF SeenIsCharged
  <2>1. b # c /\ seen'[b] = seen[b] /\ pc[b] = "deciding" /\ seen[b] \in Budgets
    BY <1>7 DEF TxInv
  <2>2. seen[b].used <= Charged(d) /\ seen[b].used \in Nat
    BY <2>1 DEF SeenIsCharged, Budgets
  <2> QED  BY <2>1, <2>2, OneCharged, ChargedType
<1>11. RefusedIsSpent'
  <2> SUFFICES ASSUME NEW b \in Clients, NEW d \in Days, pc'[b] = "refused", day'[b] = d
               PROVE  Charged(d)' >= Limit[b]
    BY DEF RefusedIsSpent
  <2>1. pc[b] = "refused" /\ day[b] = d
    BY <1>7, <1>2 DEF Charge
  <2>2. Charged(d) >= Limit[b]
    BY <2>1 DEF RefusedIsSpent
  <2> QED  BY <2>1, <2>2, OneCharged, ChargedType
<1> QED  BY <1>1, <1>5, <1>6, <1>8, <1>9, <1>10, <1>11

-----------------------------------------------------------------------------
(* The steps that charge nothing *)

LEMMA StartKeeps ==
  ASSUME BudgetInv, NEW c \in Clients, Start(c)
  PROVE  BudgetInv'
<1> USE DEF BudgetInv
<1>1. TxInv(Labels, Budgets)'
  BY GotoKeeps DEF Start, Labels, AllLabels
<1>2. /\ charges[c] = 0 /\ charges' = charges /\ budget' = budget /\ turns' = turns
      /\ seen' = seen /\ fresh' = fresh /\ day' = [day EXCEPT ![c] = clock]
      /\ pc' = [pc EXCEPT ![c] = "reading"] /\ day \in [Clients -> Days]
  BY DEF Start, Goto, PaidSoFar, TypeOK, history
<1>3. \A d : ChargedTo(d)' = ChargedTo(d)
  BY <1>2 DEF ChargedTo
<1>4. Accounts' /\ \A d : Charged(d)' = Charged(d)
  BY <1>2, <1>3, NothingCharged
<1>5. TypeOK'
  BY <1>1, <1>2 DEF TypeOK, TxInv, Start
<1>6. FreshIsCurrent' /\ PaidSoFar'
  BY <1>2 DEF FreshIsCurrent, PaidSoFar, TypeOK, TxOK
<1>7. SeenIsCharged' /\ RefusedIsSpent'
  BY <1>2, <1>4 DEF SeenIsCharged, RefusedIsSpent, TypeOK, TxOK
<1> QED  BY <1>1, <1>4, <1>5, <1>6, <1>7

LEMMA ReadKeeps ==
  ASSUME BudgetInv, NEW c \in Clients, Read(c)
  PROVE  BudgetInv'
<1> USE DEF BudgetInv
<1>1. budget \in Budgets
  BY DEF TypeOK
<1>2. TxInv(Labels, Budgets)'
  BY <1>1, ReadInKeeps DEF Read, Labels
<1>3. /\ UNCHANGED <<budget, clock, day, charges, turns>>
      /\ pc[c] = "reading" /\ pc' = [pc EXCEPT ![c] = "deciding"]
      /\ seen' = [seen EXCEPT ![c] = budget] /\ fresh' = fresh \cup {c}
      /\ seen \in [Clients -> Budgets \cup {Unread}] /\ fresh \subseteq Clients
      /\ pc \in [Clients -> {"idle", "reading", "deciding", "unsure"} \cup Labels]
  BY DEF Read, ReadIn, TypeOK, TxOK, history
<1>4. \A d : ChargedTo(d)' = ChargedTo(d)
  BY <1>3 DEF ChargedTo
<1>5. Accounts' /\ \A d : Charged(d)' = Charged(d)
  BY <1>3, <1>4, NothingCharged
<1>6. TypeOK'
  BY <1>2, <1>3 DEF TypeOK, TxInv
<1>7. FreshIsCurrent' /\ PaidSoFar' /\ RefusedIsSpent'
  BY <1>3, <1>5 DEF FreshIsCurrent, PaidSoFar, RefusedIsSpent
<1>8. SeenIsCharged'
  BY <1>3, <1>5 DEF SeenIsCharged, Accounts
<1> QED  BY <1>2, <1>5, <1>6, <1>7, <1>8

\* A step after which nothing was read, charged or written.
LEMMA QuietKeeps ==
  ASSUME BudgetInv, NEW c \in Clients, NEW l \in AllLabels(Labels),
         UNCHANGED <<budget, clock, day, charges, turns>>,
         TxInv(Labels, Budgets)',
         pc' = [pc EXCEPT ![c] = l], fresh' \subseteq fresh,
         \A b \in Clients : b \in fresh' \/ pc'[b] = "deciding" => seen'[b] = seen[b],
         l \in {"idle", "reading", "refused"} => charges[c] = 0,
         l \in {"admitted", "asked", "chosen", "denied"} => charges[c] = 1,
         l = "refused" => Charged(day[c]) >= Limit[c]
  PROVE  BudgetInv'
<1> USE DEF BudgetInv
<1>1. \A d : ChargedTo(d)' = ChargedTo(d)
  BY DEF ChargedTo
<1>2. Accounts' /\ \A d : Charged(d)' = Charged(d)
  BY <1>1, NothingCharged
<1>3. TypeOK'
  BY DEF TypeOK, TxInv
<1>4. /\ pc \in [Clients -> {"idle", "reading", "deciding", "unsure"} \cup Labels]
      /\ fresh \subseteq Clients /\ l # "deciding"
  BY DEF TypeOK, TxOK, AllLabels, Labels
<1>5. FreshIsCurrent' /\ PaidSoFar'
  BY <1>4 DEF FreshIsCurrent, PaidSoFar
<1>6. SeenIsCharged'
  BY <1>2, <1>4 DEF SeenIsCharged
<1>7. RefusedIsSpent'
  BY <1>2, <1>4 DEF RefusedIsSpent
<1> QED  BY <1>2, <1>3, <1>5, <1>6, <1>7

LEMMA RefuseKeeps ==
  ASSUME BudgetInv, NEW c \in Clients, Refuse(c)
  PROVE  BudgetInv'
<1>1. TxInv(Labels, Budgets)'
  BY EndWithKeeps DEF BudgetInv, Refuse, Labels, AllLabels
<1>2. /\ UNCHANGED <<budget, clock, day, charges, turns>> /\ pc[c] = "deciding"
      /\ pc' = [pc EXCEPT ![c] = "refused"] /\ seen' = [seen EXCEPT ![c] = Unread]
      /\ fresh' = fresh \ {c}
  BY DEF Refuse, EndWith, Leave, history
<1>3. /\ seen[c] \in Budgets /\ day[c] \in Days /\ Limit[c] \in 1 .. MaxLimit
      /\ seen \in [Clients -> Budgets \cup {Unread}]
      /\ pc \in [Clients -> {"idle", "reading", "deciding", "unsure"} \cup Labels]
      /\ charges[c] = 0
  BY <1>2 DEF BudgetInv, TypeOK, TxInv, TxOK, PaidSoFar
<1>4. Charged(day[c]) >= Limit[c]
  <2>1. seen[c].day = day[c] /\ seen[c].used >= Limit[c] /\ seen[c].used \in Nat
    BY <1>3 DEF Refuse, Refuses, Used, Budgets
  <2>2. seen[c].used <= Charged(day[c])
    BY <1>2, <1>3, <2>1 DEF BudgetInv, SeenIsCharged
  <2> QED  BY <1>3, <2>1, <2>2, ChargedType
<1> QED  BY <1>1, <1>2, <1>3, <1>4, QuietKeeps DEF AllLabels, Labels

LEMMA AbortKeepsBudget ==
  ASSUME BudgetInv, NEW c \in Clients, Abort(c)
  PROVE  BudgetInv'
<1>1. TxInv(Labels, Budgets)'
  BY AbortKeeps DEF BudgetInv, Abort
<1>2. UNCHANGED <<budget, clock, day, charges, turns>> /\ pc[c] \in {"reading", "deciding"}
  BY DEF Abort, history, Aborted, Broken
<1>3. /\ charges[c] = 0 /\ seen \in [Clients -> Budgets \cup {Unread}]
      /\ pc \in [Clients -> {"idle", "reading", "deciding", "unsure"} \cup Labels]
  BY <1>2 DEF BudgetInv, TypeOK, TxOK, PaidSoFar
<1>4. CASE pc' = [pc EXCEPT ![c] = "reading"] /\ UNCHANGED <<seen, fresh>>
  BY <1>1, <1>2, <1>3, <1>4, QuietKeeps DEF AllLabels
<1>5. CASE /\ pc' = [pc EXCEPT ![c] = "unsure"] /\ seen' = [seen EXCEPT ![c] = Unread]
           /\ fresh' = fresh \ {c}
  BY <1>1, <1>2, <1>3, <1>5, QuietKeeps DEF AllLabels
<1> QED  BY <1>4, <1>5 DEF Abort, Aborted, Broken, Goto, Leave

LEMMA ProposeKeeps ==
  ASSUME BudgetInv, NEW c \in Clients, FallBack(c) \/ Ask(c) \/ Answer(c) \/ Crash(c)
  PROVE  BudgetInv'
<1>1. PICK l \in {"fallback", "asked", "chosen", "denied", "dead"} :
        /\ Goto(c, l) /\ UNCHANGED <<budget, clock, day, charges, turns>>
        /\ pc[c] \in {"refused", "unsure", "admitted", "asked"}
        /\ l \in {"asked", "chosen", "denied"} => pc[c] \in {"admitted", "asked"}
  BY DEF FallBack, FallsBack, Ask, Answer, Crash, history
<1>2. TxInv(Labels, Budgets)'
  BY <1>1, GotoKeeps DEF BudgetInv, Labels, AllLabels
<1>3. l \in {"asked", "chosen", "denied"} => charges[c] = 1
  BY <1>1 DEF BudgetInv, PaidSoFar
<1>4. l \in AllLabels(Labels)
  BY DEF AllLabels, Labels
<1> QED  BY <1>1, <1>2, <1>3, <1>4, QuietKeeps DEF Goto

LEMMA StillKeeps ==
  ASSUME BudgetInv, Midnight \/ UNCHANGED vars
  PROVE  BudgetInv'
<1> USE DEF BudgetInv
<1>1. UNCHANGED <<txVars, budget, day, charges, turns>> /\ clock' \in Days
  BY DEF Midnight, vars, history, TypeOK, Days
<1>2. \A d : ChargedTo(d)' = ChargedTo(d)
  BY <1>1 DEF ChargedTo
<1>3. \A d : Charged(d)' = Charged(d)
  BY <1>2 DEF Charged
<1>4. TxInv(Labels, Budgets)'
  BY <1>1, TxStutters
<1>5. TypeOK'
  BY <1>1, <1>4 DEF TypeOK, TxInv
<1>6. Accounts' /\ SeenIsCharged' /\ RefusedIsSpent'
  BY <1>1, <1>3 DEF Accounts, SeenIsCharged, RefusedIsSpent, txVars
<1>7. FreshIsCurrent' /\ PaidSoFar'
  BY <1>1 DEF FreshIsCurrent, PaidSoFar, txVars
<1> QED  BY <1>4, <1>5, <1>6, <1>7

LEMMA StepKeeps ==
  ASSUME BudgetInv, [Next]_vars
  PROVE  BudgetInv'
<1>1. ASSUME NEW c \in Clients, Admit(c) \/ LoseAck(c)
      PROVE  BudgetInv'
  BY <1>1, ChargeKeeps DEF Admit, LoseAck
<1> QED  BY <1>1, StartKeeps, ReadKeeps, RefuseKeeps, AbortKeepsBudget, ProposeKeeps,
            StillKeeps DEF Next

LEMMA Inductive == Spec => []BudgetInv
BY InitOK, StepKeeps, PTL DEF Spec

-----------------------------------------------------------------------------
\* Every variable keeps its shape and the stored count its bound, in every state.
THEOREM BudgetTypeCorrect == Spec => []TypeOK
<1>1. BudgetInv => TypeOK
  BY DEF BudgetInv
<1> QED  BY Inductive, <1>1, PTL

\* A day is charged at most one limit's worth of calls per turn of the document to
\* it (consume_model_call, whatever the interleaving).
THEOREM TurnsBoundCharges == Spec => []BoundPerTurn
<1>1. BudgetInv => BoundPerTurn
  BY DEF BudgetInv, Accounts, BoundPerTurn, Charged
<1> QED  BY Inductive, <1>1, PTL

\* No model call without its charge, and no second charge (GeminiCoordinator.propose).
THEOREM EveryCallIsPaid == Spec => []CallsArePaid
<1>1. BudgetInv => CallsArePaid
  BY DEF BudgetInv, PaidSoFar, CallsArePaid
<1> QED  BY Inductive, <1>1, PTL

\* A refusal means that the limit was charged to the caller's day.
THEOREM RefusalsAreEarned == Spec => []NoEarlyRefusal
<1>1. BudgetInv => NoEarlyRefusal
  BY DEF BudgetInv, RefusedIsSpent, NoEarlyRefusal, Charged, TypeOK
<1> QED  BY Inductive, <1>1, PTL
=============================================================================
