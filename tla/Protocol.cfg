\* Three concurrent service calls, retries and other keys, every fault.
CONSTANTS
  r1 = r1 r2 = r2 r3 = r3 k1 = k1 k2 = k2 k3 = k3 e1 = e1 w1 = w1 w2 = w2 v1 = v1 c1 = c1
  Actors = {w1, v1}
  NoActor = NoActor
  Role <- MCRole
  Keys = {k1, k2}
  NoKey = NoKey
  EvidenceIds = {k1, k2}
  Outcomes <- Service
  ToolBudget = 2
  Requests = {r1, r2, r3}
  NoOwner = NoOwner
  Calls <- ServiceCalls
  DemoActor = w1
  Lease = 1
  Offset <- InStep
  MaxPolls = 0
  MaxCycles = 2
  MaxEvidence = 2
  DirectEvidence = {}
  DirectBatons = {}
  ForeignIds = {}
  MaxVersion = 0
  MaxNow = 1
SPECIFICATION Spec
INVARIANTS ClaimIsActive NoLeakedClaim RepliesAgree LedgerAccounts TelemetryOnce
PROPERTIES FinalizedForever BoundIntentKept
SYMMETRY Symmetry
CHECK_DEADLOCK FALSE
