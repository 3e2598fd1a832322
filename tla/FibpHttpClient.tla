--------------------------- MODULE FibpHttpClient ---------------------------
(***************************************************************************)
(* One FibpHttpClient and its ClientSession, used for one call after the   *)
(* other (the pool of FibpClientMgr hands it to one fiber at a time).  The *)
(* session has a single timer, deadline_, for its connects and its reads.  *)
(*                                                                         *)
(* Completions go through the io_service's queue of handlers, first in     *)
(* first out.  A handler that completes an operation only makes the fiber  *)
(* ready.  run_service then yields, and fm_yield puts it in front of that  *)
(* fiber: one more handler may run before the fiber does.                  *)
(***************************************************************************)
EXTENDS Naturals, Sequences

CONSTANTS MaxHttpCalls,   \* bound on the number of calls
          Chunks,     \* reads that a response takes (1024 bytes each)
          UntilClose  \* TRUE: a response may end with the close of the connection

ASSUME HttpCallsAssumption == MaxHttpCalls \in Nat
ASSUME ChunksAssumption == Chunks \in Nat \ {0}
ASSUME UntilCloseAssumption == UntilClose \in BOOLEAN

VARIABLES
  pc,        \* where the call is: idle, connect, write or read
  call,      \* number of the last call
  sock,      \* socket_: closed, opening or open
  peer,      \* the other end of the connection: up or gone
  op,        \* the fiber's operation: none, or pending in the system
  hq,        \* handlers waiting in the io_service: check_deadline, aborted or expired, and
             \* the ends of operations
  woken,     \* what the operation of a ready fiber ended with, else none
  skipped,   \* handlers run since the fiber became ready
  expiry,    \* deadline_: infin, future (a wait is pending) or past
  elapsed,   \* history: yes when the time of the present operation has run out
  stream,    \* response chunks on the connection, sent or to be sent
  buf,       \* buf_: what a read has put there, a sequence of at most one chunk
  parser,    \* rsp_parser_: the call whose response it is inside, 0 at a start
  cut,       \* history: yes while the parser may be inside a response that the
             \* deadline has ended between two reads
  out,       \* how the last call ended
  from       \* history: the call whose response it returned, 0 for a mixture

httpVars == <<pc, call, sock, peer, op, hq, woken, skipped, expiry, elapsed, stream,
             buf, parser, cut, out, from>>
session == <<sock, peer, stream>>

\* How an operation ends: ok, or with the next chunk of the stream; eof; another
\* error; operation_aborted.
Ends == {"ok", "eof", "err", "abort"}

HttpInit ==
  /\ pc = "idle" /\ call = 0
  /\ sock = "closed" /\ peer = "up" /\ stream = <<>>
  /\ op = "none" /\ hq = <<>> /\ woken = "none" /\ skipped = 0
  /\ expiry = "infin" /\ elapsed = "no"
  /\ buf = <<>> /\ parser = 0 /\ cut = "no" /\ out = "pending" /\ from = 0
-----------------------------------------------------------------------------
(* The timer.  Setting a new expiry cancels the pending wait, whose handler *)
(* is then queued with operation_aborted.                                   *)

Cancelled == IF expiry = "future" THEN <<"aborted">> ELSE <<>>

\* prepare_timeout, on a queue of handlers q.
PrepareTimeout(q) == hq' = q \o Cancelled /\ expiry' = "future"

\* clear_timeout.
ClearTimeout(q) == hq' = q \o Cancelled /\ expiry' = "infin"

\* The pending wait ends because its time has come.
TimerExpires ==
  /\ expiry = "future"
  /\ expiry' = "past"
  /\ elapsed' = "yes"
  /\ hq' = Append(hq, "expired")
  /\ UNCHANGED <<pc, call, op, woken, skipped, buf, parser, cut, out, from, session>>
-----------------------------------------------------------------------------
(* The socket.                                                             *)

Close == sock' = "closed" /\ peer' = "up" /\ stream' = <<>>

\* async_write of the request: an operation on a closed socket fails, through
\* the queue as any other.
StartWrite(q, s) ==
  IF s = "closed" THEN op' = "none" /\ hq' = Append(q, "err")
                  ELSE op' = "pending" /\ hq' = q

\* The system ends the operation: a connect or a write with or without error, a
\* read with the next chunk, or an error when the peer is gone.
OpEnds ==
  /\ op = "pending"
  /\ op' = "none"
  /\ \/ /\ pc = "connect"
        /\ \/ hq' = Append(hq, "ok") /\ sock' = "open"
           \/ hq' = Append(hq, "err") /\ UNCHANGED sock
        /\ UNCHANGED <<stream, buf>>
     \/ /\ pc = "write"
        /\ \/ /\ hq' = Append(hq, "ok")
              /\ stream' = IF peer = "gone" THEN stream
                           ELSE stream \o [i \in 1..Chunks |-> [call |-> call, n |-> i]]
           \/ /\ peer = "gone"
              /\ hq' = Append(hq, "err")
              /\ UNCHANGED stream
        /\ UNCHANGED <<sock, buf>>
     \/ /\ pc = "read"
        /\ \/ /\ stream # <<>>
              /\ hq' = Append(hq, "ok")
              /\ buf' = <<Head(stream)>>
              /\ stream' = Tail(stream)
           \/ /\ peer = "gone" /\ stream = <<>>
              /\ \E e \in {"eof", "err"} : hq' = Append(hq, e)
              /\ UNCHANGED <<stream, buf>>
        /\ UNCHANGED sock
  /\ UNCHANGED <<pc, call, peer, woken, skipped, expiry, elapsed, parser, cut, out,
                 from>>

\* The peer closes the connection; what it has not sent is lost.
PeerCloses ==
  /\ sock = "open" /\ peer = "up"
  /\ peer' = "gone"
  /\ \E k \in 0..Len(stream) : stream' = SubSeq(stream, 1, k)
  /\ UNCHANGED <<pc, call, sock, op, hq, woken, skipped, expiry, elapsed, buf,
                 parser, cut, out, from>>
-----------------------------------------------------------------------------
(* The io_service runs the handler at the head of its queue.               *)

\* Mutant of CheckDeadline: expires_at() is not compared with now().
CheckDeadlineStale ==
  /\ op' = "none"
  /\ hq' = IF op = "pending" THEN Append(Tail(hq), "abort") ELSE Tail(hq)
  /\ expiry' = "infin"
  /\ Close

\* check_deadline without error: it closes the socket if the time is up, which
\* aborts the operation on it.  The timer may have been set anew, or cleared,
\* since this handler was queued.
CheckDeadline ==
  IF expiry = "past"
  THEN /\ op' = "none"
       /\ hq' = IF op = "pending" THEN Append(Tail(hq), "abort") ELSE Tail(hq)
       /\ expiry' = "infin"
       /\ Close
  ELSE /\ hq' = Tail(hq)
       /\ UNCHANGED <<op, expiry, session>>

\* run_service yields after each handler.
Turn ==
  /\ woken = "none" \/ skipped = 0
  /\ skipped' = IF woken = "none" THEN 0 ELSE 1

RunHandler ==
  /\ hq # <<>>
  /\ Turn
  /\ \/ /\ Head(hq) = "aborted"
        /\ ClearTimeout(Tail(hq))
        /\ UNCHANGED <<op, woken, session>>
     \/ /\ Head(hq) = "expired"
        /\ CheckDeadline
        /\ UNCHANGED woken
     \/ /\ Head(hq) \in Ends
        /\ woken' = Head(hq)
        /\ hq' = Tail(hq)
        /\ UNCHANGED <<op, expiry, session>>
  /\ UNCHANGED <<pc, call, elapsed, buf, parser, cut, out, from>>
-----------------------------------------------------------------------------
(* The fiber: send_request, then get_response.                             *)

\* send_request up to its first yield.  A name that does not resolve ends in a
\* write to the closed socket.
SendRequest ==
  /\ pc = "idle"
  /\ call < MaxHttpCalls
  /\ call' = call + 1
  /\ out' = "pending"
  /\ from' = 0
  /\ elapsed' = "no"
  /\ cut' = IF parser = 0 THEN "no" ELSE cut
  /\ \/ /\ sock = "closed"
        /\ PrepareTimeout(hq)
        /\ pc' = "connect"
        /\ sock' = "opening"
        /\ op' = "pending"
     \/ /\ pc' = "write"
        /\ StartWrite(hq, sock)
        /\ UNCHANGED <<sock, expiry>>
  /\ UNCHANGED <<peer, woken, skipped, stream, buf, parser>>

Resume(p) == pc = p /\ woken # "none" /\ woken' = "none" /\ skipped' = 0

\* The end of async_connect: the write follows unless it failed.
AfterConnect ==
  /\ Resume("connect")
  /\ expiry' = "infin"
  /\ IF woken = "ok"
     THEN /\ pc' = "write"
          /\ elapsed' = "no"
          /\ StartWrite(hq \o Cancelled, sock)
          /\ UNCHANGED <<out, session>>
     ELSE /\ pc' = "idle"
          /\ out' = "retry"
          /\ hq' = hq \o Cancelled
          /\ Close
          /\ UNCHANGED <<op, elapsed>>
  /\ UNCHANGED <<call, buf, parser, cut, from>>

\* Mutant of ReadTimeout: get_response does not call prepare_timeout.
ReadTimeoutNone == UNCHANGED <<hq, expiry>>

\* get_response: session_->prepare_timeout(session_->read_to_)
ReadTimeout == PrepareTimeout(hq)

\* The end of async_write; get_response up to the first read.
AfterWrite ==
  /\ Resume("write")
  /\ IF woken = "ok"
     THEN /\ pc' = "read"
          /\ elapsed' = "no"
          /\ ReadTimeout
          /\ op' = "pending"
          /\ UNCHANGED <<out, session>>
     ELSE /\ pc' = "idle"
          /\ out' = "retry"
          /\ ClearTimeout(hq)
          /\ Close
          /\ UNCHANGED <<op, elapsed>>
  /\ UNCHANGED <<call, buf, parser, cut, from>>

\* The rest of get_response, once parse_response has returned: close the session
\* unless a whole response was read and it says keep-alive.
Respond(keep, o, f) ==
  /\ pc' = "idle"
  /\ out' = o
  /\ from' = IF o = "ok" THEN f ELSE 0
  /\ ClearTimeout(hq)
  /\ IF keep THEN UNCHANGED session ELSE Close
  /\ UNCHANGED op

\* The loop of parser_impl::parse goes on as long as the socket is open.  When it
\* is not, the parser stays where it is, inside a response.
ReadMore ==
  IF sock = "open"
  THEN /\ op' = "pending"
       /\ UNCHANGED <<pc, cut, out, from, hq, expiry, session>>
  ELSE cut' = "yes" /\ Respond(FALSE, "retry", 0)

\* Mutant of Complete: the parser is not put back to the start of a message.
CompleteStuck(f) ==
  /\ parser' = f /\ UNCHANGED cut
  /\ \E keep \in BOOLEAN, o \in {"ok", "retry", "noretry"} : Respond(keep, o, f)

\* A message completes: 200, another status, or 400 and 404.
Complete(f) ==
  /\ parser' = 0 /\ UNCHANGED cut
  /\ \E keep \in BOOLEAN, o \in {"ok", "retry", "noretry"} : Respond(keep, o, f)

\* parse ends with an error or a close: the parser is initialised again.
ParseError == parser' = 0 /\ UNCHANGED cut /\ Respond(FALSE, "retry", 0)

\* A chunk for a parser that is at the start of a message, or inside the same
\* response.
InStep(c) == parser = c.call \/ (parser = 0 /\ c.n = 1)

ParseChunk(c) ==
  \/ /\ InStep(c)
     /\ \/ c.n = Chunks /\ Complete(c.call)
        \/ (c.n # Chunks \/ UntilClose) /\ parser' = c.call /\ ReadMore
  \* The parser takes the chunk for the rest of another response: that may end
  \* within it, or go on, or the bytes make no sense there.
  \/ /\ ~InStep(c)
     /\ \/ parser # 0 /\ Complete(0)
        \/ parser # 0 /\ UNCHANGED parser /\ ReadMore
        \/ ParseError

\* The read ended with eof, which completes a response that has no length.
CompleteAtEof ==
  /\ UntilClose /\ parser # 0
  /\ parser' = 0 /\ UNCHANGED cut
  /\ \E o \in {"ok", "retry", "noretry"} : Respond(FALSE, o, parser)

\* A read of parse_response has ended.
AfterRead ==
  /\ Resume("read")
  /\ buf' = <<>>
  /\ \/ woken = "ok" /\ ParseChunk(buf[1])
     \/ woken # "ok" /\ ParseError
     \/ woken = "eof" /\ CompleteAtEof
  /\ UNCHANGED <<call, elapsed>>
-----------------------------------------------------------------------------
HttpNext ==
  \/ TimerExpires \/ OpEnds \/ PeerCloses \/ RunHandler
  \/ SendRequest \/ AfterConnect \/ AfterWrite \/ AfterRead

HttpSpec == HttpInit /\ [][HttpNext]_httpVars
-----------------------------------------------------------------------------
\* An operation is aborted only when its own time has run out: the expiry of an
\* earlier operation's deadline, still queued, does not touch a later one.
NoEarlyAbort == woken = "abort" => elapsed = "yes"

\* A response is only ever returned to the call it answers.
OwnResponse == out = "ok" => from = call

\* OwnResponse holds as long as no deadline has ended a response between two
\* reads: errors, closes, other statuses and deadlines at any other moment leave
\* the parser at a start, so that the pooled client can be used again.
OwnUnlessCut == cut = "no" => OwnResponse

\* A call that waits for its response gets one, or an error.
ReadsEnd == pc = "read" ~> pc = "idle"
=============================================================================
