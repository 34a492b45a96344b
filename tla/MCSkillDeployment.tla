------------------------- MODULE MCSkillDeployment -------------------------
(***************************************************************************)
(* SkillDeployment for TLC: two instances, three calls, and three versions *)
(* of which one has no endpoints.                                          *)
(***************************************************************************)
EXTENDS SkillDeployment, TLC

CONSTANTS c1, c2, c3, gw1, gw2, v1, v2, v3

MCWants == c1 :> {"published"} @@ c2 :> {"draft", v2} @@ c3 :> {"published", "approved", v2}
=============================================================================
