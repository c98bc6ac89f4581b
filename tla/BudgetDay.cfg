SPECIFICATION Spec
\* Three proposals around one midnight, one call a day.
CONSTANTS
  p1 = p1 p2 = p2 p3 = p3 p4 = p4
  Unread = Unread
  Clients = {p1, p2, p3}
  Limit <- OneEach
  MaxLimit = 1
  MaxAttempts = 2
  LastDay = 1
INVARIANT DailyBound
CHECK_DEADLOCK FALSE
