------------------------- MODULE MCRequestLifecycle -------------------------
(***************************************************************************)
(* Instances of RequestLifecycle for TLC: two endpoints, one of which the  *)
(* probe never calls, one request seen from end to end and another that    *)
(* overlaps it at the breakers.                                            *)
(***************************************************************************)
EXTENDS RequestLifecycle

CONSTANTS r1, r2

MCEqualWeight == [e \in Endpoints |-> 1]
=============================================================================
