--------------------------- MODULE MCForwardThread ---------------------------
(* ForwardThread for TLC; the configurations give the sizes.               *)
EXTENDS ForwardThread
==============================================================================
