CONSTANTS
  r1 = r1  r2 = r2
  EndpointCount = 2
  Requests = {r1, r2}
  Tracked = {r1}
  Threshold = 2
  Weight <- MCEqualWeight
  Probed = {1}
  MaxFailures = 3
  MaxCooldowns = 1
  MaxSwitches = 1
  MaxRetries = 1
  MaxFaults = 1
SPECIFICATION LifeFairSpec
INVARIANTS SettledAsRecorded OneRecord NoLeakedFlow NoOrphanedHold
PROPERTIES OneTrial ProbedRecover RetriesEnd
