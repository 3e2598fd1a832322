------------------------ MODULE PortForwardConnection ------------------------
(***************************************************************************)
(* A connection to a forwarded port.  start finds a host of the port's     *)
(* service and connects; then one fiber carries what the client sends to   *)
(* the service, and another, handle_forward_rsp, the answers back, until   *)
(* one of them meets the end of its stream or an error and shuts down the  *)
(* receiving sides of both sockets.                                        *)
(*                                                                         *)
(* Data is counted in the pieces that one read returns.                    *)
(***************************************************************************)
EXTENDS Naturals

CONSTANT MaxPieces      \* bound on the pieces that each side sends

VARIABLES
  named,       \* the port has a service; its type: none, custom, other
  hosts,       \* whether there are hosts: of its own type, of type HTTP
  tries,       \* retry
  start,       \* the fiber of start: lookup, connect, read, write, over
  back,        \* the fiber of handle_forward_rsp: none, read, write, over
  ends,        \* client and service: open, closed
  pieces,      \* pieces that each has sent
  carried,     \* those that have reached the other
  recv         \* sockets whose receiving side is open: client, service

relay == <<named, hosts, tries, start, back, ends, pieces, carried, recv>>
Sides == {"client", "service"}

RelayInit ==
  /\ named \in {"none", "custom", "other"} /\ hosts \in SUBSET {"own", "http"}
  /\ tries = 3 /\ start = "lookup" /\ back = "none"
  /\ ends = [s \in Sides |-> "open"]
  /\ pieces = [s \in Sides |-> 0] /\ carried = [s \in Sides |-> 0]
  /\ recv = Sides

\* The peers.  The service is there when it has been reached.
PeerSends(s) ==
  /\ ends[s] = "open" /\ pieces[s] < MaxPieces /\ (s = "service" => back # "none")
  /\ pieces' = [pieces EXCEPT ![s] = @ + 1]
  /\ UNCHANGED <<named, hosts, tries, start, back, ends, carried, recv>>

PeerCloses(s) ==
  /\ ends[s] = "open" /\ (s = "service" => back # "none")
  /\ ends' = [ends EXCEPT ![s] = "closed"]
  /\ UNCHANGED <<named, hosts, tries, start, back, pieces, carried, recv>>
-----------------------------------------------------------------------------
(* create_forward_connection                                               *)

\* Of its own type, or for a custom service of type HTTP.
get_service_address == "own" \in hosts \/ (named = "custom" /\ "http" \in hosts)

GivesUp ==
  /\ start' = "over" /\ recv' = recv \ {"client"}
  /\ UNCHANGED <<named, hosts, ends, pieces, carried, back>>

\* No service, no host, or no try left: the client's connection is shut down.
NoForward ==
  /\ start = "lookup"
  /\ named = "none" \/ tries = 1 \/ ~get_service_address
  /\ GivesUp /\ UNCHANGED tries

NextHost ==
  /\ start = "lookup"
  /\ named # "none" /\ tries > 1 /\ get_service_address
  /\ tries' = tries - 1
  /\ start' = "connect"
  /\ UNCHANGED <<named, hosts, back, ends, pieces, carried, recv>>

\* The address of the host is looked up again for each try: it may be gone.
ConnectFails ==
  /\ start = "connect"
  /\ start' = "lookup"
  /\ hosts' \in SUBSET hosts
  /\ UNCHANGED <<named, tries, back, ends, pieces, carried, recv>>

Connects ==
  /\ start = "connect"
  /\ start' = "read" /\ back' = "read"
  /\ UNCHANGED <<named, hosts, tries, ends, pieces, carried, recv>>
-----------------------------------------------------------------------------
(* The two fibers: s is the side that is read, the other one is written.   *)

Other(s) == IF s = "client" THEN "service" ELSE "client"
Fiber(s) == IF s = "client" THEN start ELSE back
Becomes(s, st) ==
  IF s = "client" THEN start' = st /\ UNCHANGED back ELSE back' = st /\ UNCHANGED start

forward_data(s) ==
  /\ Fiber(s) = "read" /\ pieces[s] > carried[s]
  /\ Becomes(s, "write")
  /\ UNCHANGED <<named, hosts, tries, ends, pieces, carried, recv>>

Forwarded(s) ==
  /\ Fiber(s) = "write"
  /\ carried' = [carried EXCEPT ![s] = @ + 1]
  /\ Becomes(s, "read")
  /\ UNCHANGED <<named, hosts, tries, ends, pieces, recv>>

\* Mutant of ShutBoth: the fiber shuts down its own source only.
ShutBoth_own(s) == recv' = recv \ {s}

\* forward_client->shutdown(false) and shutdown, or the same from the other side.
ShutBoth(s) == recv' = recv \ Sides

\* The end of the stream, a socket that was shut down, or a write that fails because
\* the other side has closed.
FiberEnds(s) ==
  /\ \/ Fiber(s) = "read" /\ (s \notin recv \/ (ends[s] = "closed" /\ pieces[s] = carried[s]))
     \/ Fiber(s) = "write" /\ ends[Other(s)] = "closed"
  /\ Becomes(s, "over")
  /\ ShutBoth(s)
  /\ UNCHANGED <<named, hosts, tries, ends, pieces, carried>>
-----------------------------------------------------------------------------
\* What ends by itself: all but a write, which has no deadline.
RelaySteps ==
  \/ NoForward \/ NextHost \/ ConnectFails \/ Connects
  \/ \E s \in Sides : forward_data(s) \/ FiberEnds(s)

PeerSteps == \E s \in Sides : PeerSends(s) \/ PeerCloses(s) \/ Forwarded(s)

\* When one peer has closed, or nothing could be reached, both fibers end: neither is
\* left reading a socket on which nothing will come.  Only a peer that stays and does not
\* read can prevent it, by a write that never ends.
RelayEnds ==
  \/ <>[](\E s \in Sides : Fiber(s) = "write")
  \/ (ends["client"] = "closed" \/ ends["service"] = "closed" \/ start = "over")
       ~> (start = "over" /\ back \in {"none", "over"})
=============================================================================
