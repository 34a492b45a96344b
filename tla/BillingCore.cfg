CONSTANTS
  r1 = r1  r2 = r2
  user = user  team = team
  g1 = g1  g2 = g2
  k1 = k1  k2 = k2
  gw1 = gw1  gw2 = gw2
  Requests = {r1, r2}
  Accounts = {user}
  Teams = {}
  Grants = {g1, g2}
  RechargeKeys = {}
  Gateways = {gw1, gw2}
  AccountOf <- MCAccountOf
  OwnerOf <- MCOwnerOf
  TotalUnits <- MCTotalUnits
  Policy <- MCPolicy
  Rank <- MCRank
  MaxUnits = 2
  WalletAmount <- MCWalletAmount
  UsageCosts = {1}
  InitialBalance <- MCInitialBalance
  Frozen <- MCFrozen
  KeyAmount <- MCKeyAmount
  KeyAccounts <- MCKeyAccounts
  CreditAmount = 1
  MaxCredited = 0
SPECIFICATION Spec
INVARIANTS TypeOK GrantCapacity HoldsBacked Solvent PaymentsAddUp TablesAgree LedgerBalanced
PROPERTIES EscrowHolds
SYMMETRY MCSymmetry
CHECK_DEADLOCK FALSE
