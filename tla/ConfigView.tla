----------------------------- MODULE ConfigView -----------------------------
(* What a hot-reloaded worker promises about the configuration: it serves   *)
(* some published version, never an invented one, and until it restarts it  *)
(* only moves to newer versions.                                            *)
EXTENDS Integers

CONSTANT Workers

VARIABLES
    published,  \* number of configuration changes committed so far
    view        \* the version each worker serves, -1 before it has one

Init == published = 0 /\ view = [w \in Workers |-> -1]

Publish == published' = published + 1 /\ UNCHANGED view

Refresh(w) ==
    /\ \E v \in view[w] .. published : view' = [view EXCEPT ![w] = v]
    /\ UNCHANGED published

Restart(w) == view' = [view EXCEPT ![w] = -1] /\ UNCHANGED published

Next == Publish \/ \E w \in Workers : Refresh(w) \/ Restart(w)

Spec == Init /\ [][Next]_<<published, view>>
=============================================================================
