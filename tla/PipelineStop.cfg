CONSTANTS
  a = a  b = b
  gw1 = gw1  gw2 = gw2
  w1 = w1
  Records = {a, b}
  Workers = {w1}
  Gateways = {gw1}
  GatewayOf <- MCGatewayOf
  ShardOf <- MCShardAll
  ChannelCap = 1
  BatchMax = 2
  ReadCount = 2
  Poison = {}
  MaxUnclear = 0
  MaxCrashes = 0
  MaxStops = 1
SPECIFICATION Spec
INVARIANTS OrderlyStopKeepsRecords
CHECK_DEADLOCK FALSE
