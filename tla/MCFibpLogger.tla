---------------------------- MODULE MCFibpLogger ----------------------------
(* FibpLogger for TLC; the configurations choose the ring and the ids.     *)
EXTENDS FibpLogger
=============================================================================
