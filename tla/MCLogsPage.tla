------------------------------ MODULE MCLogsPage ------------------------------
(* Instance of LogsPage for TLC: the page alone. *)
EXTENDS LogsPage
=============================================================================
