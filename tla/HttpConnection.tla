--------------------------- MODULE HttpConnection ---------------------------
(***************************************************************************)
(* A connection of the HTTP server.  do_parse reads requests; each is      *)
(* handled by request_cb before the next one is read, except that service  *)
(* calls answer from another fiber.  Writes throw when the client is gone: *)
(* the exception ends the fiber, and then nobody resets req_parser_, whose *)
(* handlers keep the connection.                                           *)
(*                                                                         *)
(* Further kinds: "garbage" (not HTTP), "empty" (an empty path).           *)
(***************************************************************************)
EXTENDS ServerRequests

\* Mutant of Continues: the answer alone decides.
Continues_always(i) == TRUE

\* request_cb: handleRequest(c) && c->req_.keep_alive_
Continues(i) == Keep(i)

After(i) == IF Continues(i) THEN "read" ELSE "over"

\* HttpConnection::shutdown
shutdown == shut' = TRUE /\ parser' = FALSE
Stays == UNCHANGED <<shut, parser>>

\* handleRequest and handleRequestFunc, by the kind of request.
handleRequestFunc(i) ==
  \/ Kind(i) = "empty" /\ Writes(i, "400") /\ reader' = "write"
  \/ Kind(i) = "unknown" /\ Writes(i, "404") /\ reader' = "write"
  \/ Kind(i) = "throws" /\ Writes(i, "500") /\ reader' = "write"
  \/ Kind(i) = "alive" /\ Writes(i, "ok") /\ reader' = "write"
  \/ Kind(i) \in {"bad", "call"} /\ ~Parses(i) /\ Refused(i) /\ reader' = "write"
  \/ Kind(i) \in {"bad", "call"} /\ Parses(i) /\ CallServices(i) /\ reader' = After(i)

HttpReads ==
  LET i == Next_i
  IN /\ reader = "read" /\ Arrived(i) /\ Kind(i) # "garbage"
     /\ taken' = taken \cup {i}
     /\ handleRequestFunc(i)
     /\ Stays
     /\ UNCHANGED <<given, peer, out>>

\* What is not HTTP closes the connection, without an answer.
HttpGarbage ==
  LET i == Next_i
  IN /\ reader = "read" /\ Arrived(i) /\ Kind(i) = "garbage"
     /\ taken' = taken \cup {i}
     /\ reader' = "over" /\ shutdown
     /\ UNCHANGED <<given, peer, task, answers, out, log>>

\* The end of the stream: shutdown.  Another error: an answer 500 is tried, which
\* ends with shutdown or, more likely, with an exception.
HttpReadEnds ==
  /\ reader = "read" /\ ~Arrived(Next_i) /\ client # "open"
  /\ reader' = "over"
  /\ \/ shutdown
     \/ client = "gone" /\ Stays
  /\ UNCHANGED <<given, peer, taken, task, answers, out, log>>

\* write_rsp and after_write, write_error_rsp: what follows when the answer has left.
HttpWritten(i) ==
  /\ writer[i] # "none"
  /\ Delivered(i)
  /\ IF code[i] = "ok" /\ Keep(i) THEN Stays ELSE shutdown
  /\ IF writer[i] = "reader"
     THEN /\ reader' = IF code[i] = "ok" THEN After(i) ELSE "over"
          /\ UNCHANGED <<task, log>>
     ELSE Ends(i, TRUE) /\ UNCHANGED reader
  /\ UNCHANGED <<given, peer, taken>>

\* The write throws; so does that of the 500 which follows.  The log stays open.
HttpWriteThrows(i) ==
  /\ writer[i] # "none" /\ client = "gone"
  /\ writer' = [writer EXCEPT ![i] = "none"]
  /\ IF writer[i] = "reader"
     THEN reader' = "over" /\ UNCHANGED <<task, log>>
     ELSE Ends(i, FALSE) /\ UNCHANGED reader
  /\ Stays
  /\ UNCHANGED <<given, peer, taken, code, mixed, out>>

HttpSteps ==
  \/ HttpReads \/ HttpGarbage \/ HttpReadEnds
  \/ \E i \in Indices : HttpWritten(i) \/ HttpWriteThrows(i)
=============================================================================
