--------------------------- MODULE MCLogConsumer ---------------------------
(* Instances of LogConsumer for TLC: what may fail in a behaviour.          *)
EXTENDS LogConsumer

OrderlyOrAny == {{"stop"}, FaultKinds}
Crashes == {{"crash"}}
=============================================================================
