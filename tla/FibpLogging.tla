----------------------------- MODULE FibpLogging -----------------------------
(***************************************************************************)
(* The logger: the ring of logs (FibpLogger), and the statistics that its  *)
(* sender makes of the logs it collects (ServiceStats).  What is counted   *)
(* depends on nothing but the times in the logs, so a behaviour follows    *)
(* one part.                                                               *)
(***************************************************************************)
EXTENDS FibpLogger, ServiceStats

VARIABLE part    \* "ring" or "stats"

loggingVars == <<part, vars, statsVars>>

LoggingInit == part \in {"ring", "stats"} /\ Init /\ StatsInit

LoggingNext ==
  \/ part = "ring" /\ Next /\ UNCHANGED <<part, statsVars>>
  \/ part = "stats" /\ StatsNext /\ UNCHANGED <<part, vars>>

\* The fairness of FibpLogger: the sender's thread runs and its HTTP call ends; every
\* request ends.
LoggingSpec ==
  /\ LoggingInit /\ [][LoggingNext]_loggingVars
  /\ WF_loggingVars(part = "ring" /\ SenderStep /\ UNCHANGED <<part, statsVars>>)
  /\ \A r \in Requests :
       WF_loggingVars(part = "ring" /\ (EndServiceCall(r) \/ Reject(r)) /\ UNCHANGED <<part, statsVars>>)
==============================================================================
