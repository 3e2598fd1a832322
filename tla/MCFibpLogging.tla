---------------------------- MODULE MCFibpLogging ----------------------------
(* FibpLogging for TLC; the configuration chooses the ring, the ids and     *)
(* the times.                                                               *)
EXTENDS FibpLogging
==============================================================================
