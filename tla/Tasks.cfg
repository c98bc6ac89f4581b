SPECIFICATION Spec
CONSTANTS
  c1 = c1 c2 = c2 c3 = c3 c4 = c4
  i1 = i1 i2 = i2 i3 = i3
  Clients = {c1, c2, c3, c4}
  Unread = Unread
  MaxAttempts = 2
  Ids = {i1, i2, i3}
  IdOf <- MCIdOf
  NoTask = NoTask
  MaxTasks = 2
SYMMETRY Alike
INVARIANTS
  TypeOK
  CounterMatches
  CreatedOnce
CHECK_DEADLOCK FALSE
