--------------------------- MODULE MCLogTransport ---------------------------
(* Model checking of LogTransport: the parameters are numbers and sets of  *)
(* strings, given in the configurations.                                   *)
EXTENDS LogTransport

=============================================================================
