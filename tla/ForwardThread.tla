---------------------------- MODULE ForwardThread ----------------------------
(***************************************************************************)
(* What a thread of FiberPoolMgr has of its own: the pool of fibers that   *)
(* runs requests and their calls (FiberPool), the clients that the calls   *)
(* borrow (FibpClientMgr), and each HTTP client with its connection        *)
(* (FibpHttpClient).  FibpHttpClient takes one call after the other, which *)
(* is what Exclusive says of the pool of clients.  The three share no      *)
(* state, so a behaviour is followed for one part.                         *)
(***************************************************************************)
EXTENDS FiberPool, FibpClientMgr, FibpHttpClient

VARIABLE part    \* fibers, clients or http

threadVars == <<part, vars, mgrVars, httpVars>>

ThreadInit == part \in {"fibers", "clients", "http"} /\ Init /\ MgrInit /\ HttpInit

In(p) == part = p /\ UNCHANGED part
OutsideFibers == UNCHANGED <<mgrVars, httpVars>>
OutsideClients == UNCHANGED <<vars, httpVars>>
OutsideHttp == UNCHANGED <<vars, mgrVars>>

ThreadNext ==
  \/ In("fibers") /\ Next /\ OutsideFibers
  \/ In("clients") /\ MgrNext /\ OutsideClients
  \/ In("http") /\ HttpNext /\ OutsideHttp

ThreadSpec == ThreadInit /\ [][ThreadNext]_threadVars

\* The fairness of FiberPool; timers expire, the io_service runs its handlers and the
\* scheduler its ready fibers.  Peer and system owe nothing.
FairThreadSpec ==
  /\ ThreadSpec
  /\ SF_threadVars(In("fibers") /\ RunFiber /\ OutsideFibers)
  /\ WF_threadVars(In("fibers") /\ CheckTask /\ OutsideFibers)
  /\ \A r \in Requests : SF_threadVars(In("fibers") /\ RequestStep(r) /\ OutsideFibers)
  /\ WF_threadVars(In("http") /\ TimerExpires /\ OutsideHttp)
  /\ WF_threadVars(In("http") /\ RunHandler /\ OutsideHttp)
  /\ WF_threadVars(In("http") /\ AfterConnect /\ OutsideHttp)
  /\ WF_threadVars(In("http") /\ AfterWrite /\ OutsideHttp)
  /\ WF_threadVars(In("http") /\ AfterRead /\ OutsideHttp)
==============================================================================
