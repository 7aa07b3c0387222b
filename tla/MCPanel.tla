------------------------------- MODULE MCPanel -------------------------------
(* Instance of Panel for TLC. *)
EXTENDS Panel

Levels == [debug |-> "DEBUG", error |-> "ERROR", critical |-> "CRITICAL"]
LevelNames == DOMAIN Levels
PageCounts == [any |-> 3, one |-> 1]
FilterNames == DOMAIN PageCounts
=============================================================================
