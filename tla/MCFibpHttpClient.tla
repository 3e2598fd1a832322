-------------------------- MODULE MCFibpHttpClient --------------------------
(* FibpHttpClient for TLC; the configurations give the number of calls and *)
(* of reads per response.                                                  *)
EXTENDS FibpHttpClient
=============================================================================
