--------------------------- MODULE MCTokenBilling ---------------------------
(***************************************************************************)
(* Instances of TokenBilling for TLC: one or two requests on one wallet,    *)
(* up to two grants, one unit of money per unit of usage.                  *)
(***************************************************************************)
EXTENDS TokenBilling, TLC

CONSTANTS r1, r2, user, team, g1, g2, k1, k2, gw1, gw2

MCAccountOf == [r \in Requests |-> IF user \in Accounts THEN user ELSE team]
MCOwnerOf == [g \in Grants |-> IF user \in Accounts THEN user ELSE team]
MCTotalUnits == [g \in Grants |-> IF g = g1 THEN 1 ELSE 2]
MCPolicy == [g \in Grants |-> IF g = g2 THEN "package_only" ELSE "package_then_wallet"]
MCRank == [g \in Grants |-> IF g = g1 THEN 1 ELSE 2]
MCWalletAmount == [u \in Units |-> [p \in Units |-> NonNeg(u - p)]]
MCInitialBalance == [a \in Accounts |-> 2]
MCLowBalance == [a \in Accounts |-> 1]
MCFrozen == [a \in Accounts |-> 0]
MCKeyAccounts == [k \in RechargeKeys |-> Accounts]
MCKeyAmount == [k \in RechargeKeys |-> 1]

\* Requests on one wallet are interchangeable, and so are the instances.
MCSymmetry == Permutations(Requests) \cup Permutations(Gateways)
=============================================================================
