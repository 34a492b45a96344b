SPECIFICATION FairSpec
CONSTANTS
  r1 = r1
  r2 = r2
  g1 = g1
  g2 = g2
  None = None
  Requests <- MCRequests
  Gateways <- MCGateways
  Home <- MCHome
  Attempts <- MCAttempts
  MaxFailed = 2
INVARIANTS NoResurrection Indexed RegistryMatches
PROPERTY Vanishes
CHECK_DEADLOCK FALSE
