CONSTANTS
  e1 = e1
  e2 = e2
  gw1 = gw1
  gw2 = gw2
  Edits = {e1, e2}
  Gateways = {gw1, gw2}
  Stories <- MCStories
  MaxFaults = 1
SPECIFICATION FairSpec
INVARIANTS TypeOK SyncedWhenQuiet AppliedAtHome
PROPERTIES Converges
CHECK_DEADLOCK FALSE
