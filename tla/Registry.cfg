SPECIFICATION Spec
CONSTANTS
  s1 = s1 s2 = s2 g1 = g1 g2 = g2 y1 = y1
  a1 = a1 a2 = a2 a3 = a3 
  Clients = {s1, s2, g1, g2, y1}
  Unread = Unread
  MaxAttempts = 2
  Actors = {a1, a2, a3}
  Roles = {"worker", "verifier"}
  NoRole = NoRole
  Kind <- MCKind
  Wish <- MCWish
  MaxActors = 2
INVARIANTS
  TypeOK
  VersionCountsActors
  RolesStand
  RefusalsAreReal
PROPERTIES
  NoBlindRegistration
CHECK_DEADLOCK FALSE
