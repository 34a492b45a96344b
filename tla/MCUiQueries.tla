----------------------------- MODULE MCUiQueries -----------------------------
(***************************************************************************)
(* Instances of UiQueries for TLC: every query of the catalogue with every  *)
(* change that touches it, and a second change to the same data.           *)
(***************************************************************************)
EXTENDS UiQueries

CONSTANTS e1, e2

\* One change of each kind of data.
MCSecond ==
  {"useUpdateUser", "useUpdateApiKey", "useUpdateTimezone", "useAdminSetTeamMemberRole",
   "useSetTeamMemberRole", "useCreateTeamApiKey", "useCreateTeamRule", "redeemForMyTeam",
   "redeemForTeam", "useRedeemKey", "useRevokeKey", "createPlan", "revokeGrant", "toggleGroup",
   "useUpdateChannel", "usePublishModel", "useUpdateRule", "useCreateMyRule",
   "useUpdateFilterRule", "useUpdateAnnouncement", "useSetSkillStatus",
   "useUploadSkillArtifact", "traffic", "probe"}

MCActs == [e \in Edits |-> IF e = e1 THEN Changes ELSE MCSecond]
=============================================================================
