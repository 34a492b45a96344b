CONSTANTS
  c1 = c1  c2 = c2  c3 = c3
  gw1 = gw1  gw2 = gw2
  v1 = v1  v2 = v2  v3 = v3
  Calls = {c1, c2, c3}
  Wants <- MCWants
  Instances = {gw1, gw2}
  Versions = {v1, v2, v3}
  Silent = {v3}
  BatchMax = 2
  MaxFaults = 1
  None = None
SPECIFICATION FairSpec
INVARIANTS OneOwner OutboxComplete CatalogueServed
PROPERTIES TasksEnd
CHECK_DEADLOCK FALSE
