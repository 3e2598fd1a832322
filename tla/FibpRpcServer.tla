---------------------------- MODULE FibpRpcServer ----------------------------
(***************************************************************************)
(* The RPC server: msgpack-rpc gives each request to dispatch on one of    *)
(* its threads, and sends what is answered with the request's number.      *)
(*                                                                         *)
(* Kinds: "alive" (test), "unknown" (no such method), "throws" (arguments  *)
(* that cannot be read), "bad" (arguments that are no service calls),      *)
(* "call" (call_services_async, call_single_service_async), "nonsense" (a  *)
(* single call whose service answers with what is no message).             *)
(***************************************************************************)
EXTENDS ServerRequests

Replies(i, c) ==
  /\ out' = IF client = "gone" THEN out ELSE Append(out, <<i, c>>)
  /\ code' = [code EXCEPT ![i] = c]

\* The log of a call is opened before its arguments are read.
dispatch(i) ==
  /\ Arrived(i)
  /\ taken' = taken \cup {i}
  /\ \/ Kind(i) = "alive" /\ Replies(i, "ok") /\ UNCHANGED <<task, log>>
     \/ Kind(i) \in {"unknown", "throws"} /\ Replies(i, "error") /\ UNCHANGED <<task, log>>
     \/ /\ Kind(i) = "bad" /\ Replies(i, "error")
        /\ log' = [log EXCEPT ![i] = "open"] /\ UNCHANGED task
     \/ /\ Kind(i) \in {"call", "nonsense"}
        /\ task' = [task EXCEPT ![i] = "calling"] /\ log' = [log EXCEPT ![i] = "open"]
        /\ UNCHANGED <<out, code>>
  /\ UNCHANGED <<given, peer, reader, writer, mixed, shut, parser>>

\* rpc_callback and rpc_single_service_callback, whose unpack may throw.
rpc_callback(i) ==
  /\ task[i] = "calling"
  /\ \/ Kind(i) = "call" /\ Replies(i, "ok") /\ Ends(i, TRUE)
     \/ Kind(i) = "nonsense" /\ Ends(i, FALSE) /\ UNCHANGED <<out, code>>
  /\ UNCHANGED <<given, peer, taken, reader, writer, mixed, shut, parser>>

RpcSteps == \E i \in Indices : dispatch(i) \/ rpc_callback(i)
=============================================================================
