CONSTANTS
  r1 = r1  r2 = r2
  user = user  team = team
  g1 = g1  g2 = g2
  k1 = k1  k2 = k2
  gw1 = gw1  gw2 = gw2
  Requests = {r1, r2}
  Accounts = {team}
  Teams = {team}
  Grants = {g1}
  RechargeKeys = {k1}
  Gateways = {gw1}
  AccountOf <- MCAccountOf
  OwnerOf <- MCOwnerOf
  TotalUnits <- MCTotalUnits
  Policy <- MCPolicy
  Rank <- MCRank
  MaxUnits = 1
  WalletAmount <- MCWalletAmount
  UsageCosts = {1}
  InitialBalance <- MCLowBalance
  Frozen <- MCFrozen
  KeyAmount <- MCKeyAmount
  KeyAccounts <- MCKeyAccounts
  CreditAmount = 1
  MaxCredited = 1
SPECIFICATION FairSpec
PROPERTIES HoldsEventuallyReturn DebtEventuallyCollected
CHECK_DEADLOCK FALSE
