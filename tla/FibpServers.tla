---------------------------- MODULE FibpServers ----------------------------
(***************************************************************************)
(* The serving side of the proxy: the process with its servers, the        *)
(* connections of clients, the bytes of HTTP messages on a connection, and *)
(* the forwarded connections.  They meet in runConnection, which starts a  *)
(* fiber for a connection, and in the parser's handler, which passes on a  *)
(* request; apart from that a connection shares nothing with the process   *)
(* or with other connections, so a behaviour follows one part.             *)
(***************************************************************************)
EXTENDS FibpProcess, HttpConnection, FiberDriverConnection, FibpRpcServer, PortForwardConnection,
        HttpStream

VARIABLE part      \* process, requests, stream or relay

vars == <<processVars, requests, relay, streamVars, part>>

Init ==
  /\ part \in {"process", "requests", "stream", "relay"}
  /\ ProcessInit /\ RequestsInit /\ RelayInit /\ StreamInit
  /\ part # "requests" => server = "rpc" /\ patient /\ script = CHOOSE s \in Scripts["rpc"] : TRUE
  /\ part # "relay" => named = "none" /\ hosts = {}
  /\ part # "stream" => type = "HTTP_REQUEST" /\ msgs = CHOOSE l \in RequestLists : TRUE

\* The steps of the server for its client.
ServerTakes ==
  \/ server = "http" /\ HttpSteps
  \/ server = "driver" /\ DriverSteps
  \/ server = "rpc" /\ RpcSteps
  \/ \E i \in Indices : Called(i)

In(p) == part = p /\ UNCHANGED part
OutsideProcess == UNCHANGED <<requests, relay, streamVars>>
OutsideRequests == UNCHANGED <<processVars, relay, streamVars>>
OutsideRelay == UNCHANGED <<processVars, requests, streamVars>>
OutsideStream == UNCHANGED <<processVars, requests, relay>>

Next ==
  \/ In("process") /\ ProcessNext /\ OutsideProcess
  \/ In("requests") /\ (Sends \/ Leaves \/ ServerTakes) /\ OutsideRequests
  \/ In("relay") /\ (PeerSteps \/ RelaySteps) /\ OutsideRelay
  \/ In("stream") /\ StreamNext /\ OutsideStream

Spec == Init /\ [][Next]_vars

\* Threads and fibers that can go on do so: services are called within their time, and the
\* round robin leaves no ready fiber behind.  A client reads its answers as long as it is
\* there, so a write to it ends; the peers of a relay need not read, nor need clients,
\* signals and errors come.
FairSpec ==
  /\ Spec
  /\ WF_vars(In("process") /\ MainSteps /\ OutsideProcess)
  /\ WF_vars(In("process") /\ SignalSteps /\ OutsideProcess)
  /\ \A s \in Servers :
       /\ WF_vars(In("process") /\ ServerSteps(s) /\ OutsideProcess)
       /\ \A i \in 1..Services : WF_vars(In("process") /\ RunsConnection(s, i) /\ OutsideProcess)
  /\ WF_vars(In("requests") /\ ServerTakes /\ OutsideRequests)
  /\ WF_vars(In("relay") /\ RelaySteps /\ OutsideRelay)
-----------------------------------------------------------------------------
(* Requests and answers.                                                   *)

\* After a request that closes the connection (one that is not to be kept, an error of
\* the HTTP server, a break in the driver's stream) no other is taken up.
NothingAfterTheLast ==
  \A i, j \in taken : i < j =>
    \/ server = "rpc"
    \/ server = "http" /\ Keep(i) /\ Kind(i) \notin {"garbage", "empty", "unknown", "throws"}
    \/ server = "driver" /\ Kind(i) \notin {"zero", "oversize", "half"}

\* A request is answered at most once, with its own number, and answers leave in the
\* order of the requests, never two at a time, for a client that waits for each answer
\* and for one whose requests call no services; nothing follows the last request.
AnswersInOrder ==
  /\ \A k, l \in 1..Len(out) : k # l => out[k][1] # out[l][1]
  /\ \A k \in 1..Len(out) : out[k][1] \in taken \cup {0}
  /\ (server # "rpc" /\ (patient \/ \A i \in 1..Len(script) : Kind(i) # "call")) =>
       /\ ~mixed
       /\ \A k, l \in 1..Len(out) : k < l => out[k][1] < out[l][1] \/ out[l][1] = 0
  /\ NothingAfterTheLast

Silent == {"garbage", "zero", "nonsense"}

\* The log of a request's service calls is ended once, after the answer has left, and is
\* ended for every request that called services and was answered.
LogsEnd ==
  /\ [][\A i \in Indices :
          log[i] # log'[i] /\ log'[i] = "ended" =>
            log[i] = "open" /\ (Answered(i)' \/ client = "gone")]_vars
  /\ \A i \in Indices :
       (i \in taken /\ Kind(i) = "call" /\ part = "requests")
         ~> (log[i] = "ended" \/ client = "gone")

=============================================================================
