---------------------------- MODULE MCAdminSession ----------------------------
(* Instance of AdminSession for TLC. *)
EXTENDS AdminSession
=============================================================================
