--------------------------- MODULE MCUsagePipeline ---------------------------
(***************************************************************************)
(* Instances of UsagePipeline for TLC: all records are made by one worker  *)
(* of the first instance; a second instance only drains the stream.        *)
(***************************************************************************)
EXTENDS UsagePipeline

CONSTANTS a, b, gw1, gw2, w1

MCGatewayOf == [w \in Workers |-> gw1]
MCShardAll == [r \in Records |-> w1]
=============================================================================
