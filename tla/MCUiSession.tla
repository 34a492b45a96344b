----------------------------- MODULE MCUiSession -----------------------------
(***************************************************************************)
(* Instances of UiSession for TLC: two users the application lets in and one *)
(* it turns away, and one request of a page at a time next to those of the *)
(* session.                                                                *)
(***************************************************************************)
EXTENDS UiSession

CONSTANTS admin, other, guest, c1, c2
=============================================================================
