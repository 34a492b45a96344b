CONSTANTS
  e1 = e1
  e2 = e2
  gw1 = gw1
  gw2 = gw2
  Edits = {e1, e2}
  Gateways = {gw1}
  Stories <- MCGroupStories
  MaxFaults = 0
SPECIFICATION Spec
INVARIANTS SyncedWhenQuiet
CHECK_DEADLOCK FALSE
