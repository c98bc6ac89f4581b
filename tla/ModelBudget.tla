----------------------------- MODULE ModelBudget -----------------------------
(***************************************************************************)
(* The daily budget of model calls, shared by every process: one document  *)
(* that names one day and how many calls were charged to it.  A client is  *)
(* one proposal of GeminiCoordinator: it takes the UTC day when its cycle  *)
(* starts, charges the budget in a transaction, and only then asks the     *)
(* model.  The memory store is the case in which no transaction aborts.    *)
(* Prompt and answer are left out: an answer parses or it does not.        *)
(***************************************************************************)
EXTENDS Transactions

CONSTANTS
  Limit,      \* model_calls_per_day of the process that makes each proposal
  MaxLimit,   \* MAX_MODEL_CALLS_PER_DAY_BOUND
  LastDay     \* bound of the model: the clock stops here

ASSUME LimitAssumption == MaxLimit \in Nat /\ Limit \in [Clients -> 1 .. MaxLimit]
ASSUME ClockAssumption == LastDay \in Nat

VARIABLES
  budget,    \* the document: the day it is for and the calls charged to it
  clock,     \* the UTC day
  day,       \* per proposal, the day it took
  charges,   \* history: how often each proposal was charged
  turns      \* history: how often the document turned to each day

history == <<charges, turns>>
vars == <<txVars, budget, clock, day, history>>

Days == 0 .. LastDay
NoDay == LastDay + 1
Budgets == [day : Days \cup {NoDay}, used : 0 .. MaxLimit]

\* No document yet.
NoBudget == [day |-> NoDay, used |-> 0]

-----------------------------------------------------------------------------
\* Mutant: what was used on any day counts.
UsedAnyDay(b, d) == b.used

\* _model_budget_used
Used(b, d) == IF b.day = d THEN b.used ELSE 0

Init ==
  /\ TxInit
  /\ budget = NoBudget
  /\ clock = 0
  /\ day = [c \in Clients |-> 0]
  /\ charges = [c \in Clients |-> 0]
  /\ turns = [d \in Days |-> 0]

\* run_cycle takes the time once, before the coordinator is asked.
Start(c) ==
  /\ pc[c] = "idle"
  /\ day' = [day EXCEPT ![c] = clock]
  /\ Goto(c, "reading")
  /\ UNCHANGED <<budget, clock, history>>

Read(c) == ReadIn(c, budget) /\ UNCHANGED <<budget, clock, day, history>>

\* Mutant: one call too many is admitted.
RefusesLate(c) == Used(seen[c], day[c]) > Limit[c]

Refuses(c) == Used(seen[c], day[c]) >= Limit[c]

Refuse(c) ==
  /\ EndWith(c, "refused")
  /\ Refuses(c)
  /\ UNCHANGED <<budget, clock, day, history>>

\* The write of consume_model_call.
Charge(c, l) ==
  /\ CommitTo(c, l)
  /\ ~ Refuses(c)
  /\ budget' = [day |-> day[c], used |-> Used(seen[c], day[c]) + 1]
  /\ charges' = [charges EXCEPT ![c] = charges[c] + 1]
  /\ turns' = IF budget.day = day[c] THEN turns
              ELSE [turns EXCEPT ![day[c]] = turns[day[c]] + 1]
  /\ UNCHANGED <<clock, day>>

Admit(c) == Charge(c, "admitted")

\* The write went through, its acknowledgement did not: an exception.
LoseAck(c) == Charge(c, "unsure")

Abort(c) == (Aborted(c) \/ Broken(c)) /\ UNCHANGED <<budget, clock, day, history>>

-----------------------------------------------------------------------------
(* GeminiCoordinator.propose *)

\* Mutant: a call is made when the budget is not known.
FallsBackWhenRefused(c) == pc[c] = "refused"

FallsBack(c) == pc[c] \in {"refused", "unsure"}

\* The deterministic coordinator proposes instead; the model is not asked.
FallBack(c) ==
  /\ FallsBack(c)
  /\ Goto(c, "fallback")
  /\ UNCHANGED <<budget, clock, day, history>>

Ask(c) ==
  /\ pc[c] \in {"refused", "unsure", "admitted"}
  /\ ~ FallsBack(c)
  /\ Goto(c, "asked")
  /\ UNCHANGED <<budget, clock, day, history>>

\* The answer is a choice, or the cycle is denied: no answer, or not a bounded one.
Answer(c) ==
  /\ pc[c] = "asked"
  /\ \E l \in {"chosen", "denied"} : Goto(c, l)
  /\ UNCHANGED <<budget, clock, day, history>>

\* The process dies with the call admitted or made; its cycle is taken up by
\* another proposal, if at all.
Crash(c) ==
  /\ pc[c] \in {"admitted", "asked"}
  /\ Goto(c, "dead")
  /\ UNCHANGED <<budget, clock, day, history>>

Midnight ==
  /\ clock < LastDay
  /\ clock' = clock + 1
  /\ UNCHANGED <<txVars, budget, day, history>>

Next ==
  \/ \E c \in Clients :
       \/ Start(c) \/ Read(c) \/ Refuse(c) \/ Admit(c) \/ LoseAck(c) \/ Abort(c)
       \/ FallBack(c) \/ Ask(c) \/ Answer(c) \/ Crash(c)
  \/ Midnight

Spec == Init /\ [][Next]_vars

-----------------------------------------------------------------------------
(* Properties *)

Labels == {"refused", "admitted", "fallback", "asked", "chosen", "denied", "dead"}

\* Every variable keeps its shape; the count never passes the largest limit.
TypeOK ==
  /\ TxOK(Labels, Budgets)
  /\ budget \in Budgets
  /\ clock \in Days
  /\ day \in [Clients -> Days]
  /\ charges \in [Clients -> Nat]
  /\ turns \in [Days -> Nat]

ChargedTo(d) == {c \in Clients : charges[c] > 0 /\ day[c] = d}
CalledOn(d) == {c \in ChargedTo(d) : pc[c] \in {"asked", "chosen", "denied"}}

\* What the budget does guarantee: each time the document turns to a day, at most a
\* limit's worth of calls is charged to that day, in whatever order transactions,
\* lost acknowledgements, crashes and the days of late calls come.
BoundPerTurn ==
  \A d \in Days : Cardinality(ChargedTo(d)) <= MaxLimit * turns[d]

\* The model is asked only by a proposal that was charged, and no proposal is
\* charged twice, retries and lost acknowledgements included.
CallsArePaid ==
  \A c \in Clients :
    /\ charges[c] <= 1
    /\ pc[c] \in {"admitted", "asked", "chosen", "denied"} => charges[c] = 1
    /\ pc[c] = "refused" => charges[c] = 0

\* A call is refused only when its process's limit was really charged to its day.
NoEarlyRefusal ==
  \A c \in Clients :
    pc[c] = "refused" => Cardinality(ChargedTo(day[c])) >= Limit[c]

\* What consume_model_call's docstring and the README say: a day has a bound.
DailyBound == \A d \in Days : Cardinality(CalledOn(d)) <= MaxLimit
=============================================================================
