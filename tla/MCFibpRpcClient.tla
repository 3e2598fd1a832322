--------------------------- MODULE MCFibpRpcClient ---------------------------
(* FibpRpcClient for TLC; the configurations give the sizes.               *)
EXTENDS FibpRpcClient
=============================================================================
