------------------------- MODULE MCFibpPortForward -------------------------
(* FibpPortForward for TLC: two keys of one agent or of two, and a short   *)
(* key; more ports than services.                                          *)
EXTENDS FibpPortForward
MCKeyAgent == <<"a", "b", "a">>
=============================================================================
