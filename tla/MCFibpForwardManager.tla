------------------------ MODULE MCFibpForwardManager ------------------------
(* FibpForwardManager for TLC.                                             *)
EXTENDS FibpForwardManager, TLC

Http == [type |-> "http", local |-> "no", cache |-> "no"]
HttpCached == [type |-> "http", local |-> "no", cache |-> "yes"]
Local == [type |-> "other", local |-> "yes", cache |-> "no"]

CachedAndLocal == {HttpCached, Local}
PlainOnly == {Http}
CachedOnly == {HttpCached}
=============================================================================
