--------------------------- MODULE MCFlowRegistry ---------------------------
(* FlowRegistry for TLC: a request that may retry once and one served from the *)
(* response cache, on two gateways. *)
EXTENDS FlowRegistry, TLC

CONSTANTS r1, r2, g1, g2

MCRequests == {r1, r2}
MCGateways == {g1, g2}
MCAttempts == (r1 :> 2) @@ (r2 :> 0)
MCHome == (r1 :> g1) @@ (r2 :> g2)
=============================================================================
