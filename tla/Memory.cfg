SPECIFICATION FairSpec
CONSTANTS
  t1 = t1  t2 = t2  t3 = t3
  k1 = k1  k2 = k2  k3 = k3
  w1 = w1  v1 = v1
  NoThread = NoThread
  NoActor = NoActor
  NoKey = NoKey
  Threads = {t1, t2, t3}
  Actors = {w1, v1}
  Role <- MCRole
  Keys = {k1, k2, k3}
  EvidenceIds = {k1, k2, k3}
  Outcomes <- MCOutcomes
  ToolBudget = 3
  CallsOf <- MCCallsOf
  DirectIntents <- MCIntents
  DirectOutcomes <- MCDirectOutcomes
  DemoActor = w1
  MaxEvents = 2
  DirectEvidence <- MCItems
  DirectBatons = {k2}
  ForeignIds = {k1}
  MaxVersion = 1
INVARIANTS
  TypeOK
  LockFollowsCalls
  AnswersAgree
  EvidenceIsOnce
  StatusIsWhole
  EventsAreLatest
PROPERTIES
  EffectIsAnswered
  KeepsLedger
  EveryCallAnswers
CHECK_DEADLOCK FALSE
