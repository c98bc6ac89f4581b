SPECIFICATION Spec
\* Four proposals around one midnight, one of them with a smaller limit.
CONSTANTS
  p1 = p1 p2 = p2 p3 = p3 p4 = p4
  Unread = Unread
  Clients = {p1, p2, p3, p4}
  Limit <- TwoLimits
  MaxLimit = 2
  MaxAttempts = 2
  LastDay = 1
SYMMETRY OthersAlike
INVARIANTS
  TypeOK
  BoundPerTurn
  CallsArePaid
  NoEarlyRefusal
CHECK_DEADLOCK FALSE
