CONSTANTS
  admin = admin  other = other  guest = guest
  c1 = c1  c2 = c2
  Users = {admin, other, guest}
  Welcome = {admin, other}
  Calls = {c1}
  MaxSessions = 3
  MaxLoads = 1
  MaxFaults = 1
SPECIFICATION FairSpec
INVARIANTS IdentityMatchesCookie CacheOfUser
PROPERTIES PageResolves DeadSessionNoticed
CHECK_DEADLOCK FALSE
