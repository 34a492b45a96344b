CONSTANTS
  a = a  b = b
  gw1 = gw1  gw2 = gw2
  w1 = w1
  Records = {a, b}
  Workers = {w1}
  Gateways = {gw1, gw2}
  GatewayOf <- MCGatewayOf
  ShardOf <- MCShardAll
  ChannelCap = 1
  BatchMax = 2
  ReadCount = 3
  Poison = {a}
  MaxUnclear = 1
  MaxCrashes = 1
  MaxStops = 1
SPECIFICATION FairSpec
INVARIANTS ChargedOnce
PROPERTIES DeliveryHolds EventuallyBilled
CHECK_DEADLOCK FALSE
