------------------------ MODULE FiberDriverConnection ------------------------
(***************************************************************************)
(* A connection of the driver server.  A request is a header, with its     *)
(* sequence number and the size of the payload, and the payload; the       *)
(* answer bears the same number, here the index of the request.  A failed  *)
(* write is logged and otherwise passed over.                              *)
(*                                                                         *)
(* Further kinds: "zero" (sequence or size 0), "oversize", "half" (the     *)
(* client leaves within the payload), "malformed" (no JSON object).        *)
(***************************************************************************)
EXTENDS ServerRequests

\* Reading goes on after the answer, if the stream is still in step.
InStep(i) == i # 0 /\ Kind(i) \notin {"oversize", "half"}

\* start, handleRequest and handleRequestFunc, by the kind of request; a client that
\* is gone has no address, which throws.
Handle(i) ==
  \/ Kind(i) \in {"oversize", "malformed", "unknown", "throws"} /\ Writes(i, "error")
  \/ Kind(i) \in {"alive", "bad", "call"} /\ client = "gone" /\ Writes(i, "error")
  \/ Kind(i) = "half" /\ client # "open" /\ Writes(i, "error")
  \/ Kind(i) = "alive" /\ Writes(i, "ok")
  \/ Kind(i) \in {"bad", "call"} /\ ~Parses(i) /\ Refused(i)

DriverReads ==
  LET i == Next_i
  IN /\ reader = "read" /\ Arrived(i)
     /\ taken' = taken \cup {i}
     /\ \/ Handle(i) /\ reader' = "write"
        \/ Kind(i) \in {"bad", "call"} /\ Parses(i) /\ CallServices(i) /\ UNCHANGED reader
     /\ UNCHANGED <<given, peer, out, shut, parser>>

\* "header size 0 indicates eof"
DriverZero ==
  LET i == Next_i
  IN /\ reader = "read" /\ Arrived(i) /\ Kind(i) = "zero"
     /\ taken' = taken \cup {i}
     /\ reader' = "over" /\ shut' = TRUE
     /\ UNCHANGED <<given, peer, task, answers, out, parser, log>>

\* No header can be read: an error with sequence 0.
DriverReadEnds ==
  /\ reader = "read" /\ ~Arrived(Next_i) /\ client # "open"
  /\ reader' = "write"
  /\ Writes(0, "error")
  /\ UNCHANGED <<given, peer, taken, out, shut, parser>>

DriverWritten(i) ==
  /\ writer[i] # "none"
  /\ Delivered(i)
  /\ IF writer[i] = "reader"
     THEN /\ reader' = IF InStep(i) THEN "read" ELSE "over"
          /\ shut' = ~InStep(i)
          /\ UNCHANGED <<task, log>>
     ELSE Ends(i, TRUE) /\ UNCHANGED <<reader, shut>>
  /\ UNCHANGED <<given, peer, taken, parser>>

DriverSteps ==
  \/ DriverReads \/ DriverZero \/ DriverReadEnds
  \/ \E i \in Indices \cup {0} : DriverWritten(i)
=============================================================================
