----------------------------- MODULE HttpStream -----------------------------
(***************************************************************************)
(* A connection on which messages are read with http_parser: the loop of    *)
(* request::parser_impl::do_parse in the server, and that of                *)
(* response::parser_impl::parse in the client.  The peer's bytes arrive in  *)
(* reads of any size, and the stream may end or fail anywhere.              *)
(*                                                                         *)
(* Messages are rendered by fiberproxy's own operator<< or by another HTTP  *)
(* implementation.                                                          *)
(***************************************************************************)
EXTENDS HttpParser, FiniteSets

CONSTANTS
  RequestLists,   \* sequences of requests that a client may send
  ResponseLists,  \* sequences of responses that a server may send
  ReadSizes       \* what a read may return; it may also return all there is

VARIABLES
  type,     \* the kind of parser: HTTP_REQUEST or HTTP_RESPONSE
  msgs,     \* the messages of the peer
  pos,      \* bytes read so far
  parser_,   \* parser_
  handler,  \* the other fields of parser_impl, with the messages passed on
  loop,     \* reading, returned (a response is complete, the parser is kept), or
            \* left: eof, failed (a read error), ended (all other ways)
  asserts   \* no assertion of the code has failed

streamVars == <<type, msgs, pos, parser_, handler, loop, asserts>>
-----------------------------------------------------------------------------
(* Rendering.  A header is a record of its name, its value as the parser is *)
(* to see it, and the text of its value as it is sent.                      *)

NumText(n) == IF n < 10 THEN CharAt(Digits, n + 1)
              ELSE CharAt(Digits, (n \div 10) + 1) \o CharAt(Digits, (n % 10) + 1)
CodeText(n) == CharAt(Digits, (n \div 100) + 1) \o CharAt(Digits, ((n \div 10) % 10) + 1)
                 \o CharAt(Digits, (n % 10) + 1)

Header(n, v) == [name |-> n, value |-> v, text |-> v]

HeaderText(hs, eol) ==
  Loop(LAMBDA t, i : t \o hs[i].name \o ": " \o hs[i].text \o eol, "", Len(hs))

iequals(a, b) ==
  /\ Len(a) = Len(b)
  /\ \A i \in 1..Len(a) : LOWER(CharAt(a, i)) = LOWER(CharAt(b, i))

\* operator<<(std::ostringstream, request_t)
OwnRequestHeaders(m) ==
  m.headers \o <<Header("Content-Length", NumText(Len(m.body))),
                 Header("Connection", IF m.conn = "close" THEN "close" ELSE "Keep-Alive")>>

\* operator<<(std::ostream, response_t), without a status message, as the server
\* leaves it: the status line then ends with a blank.
OwnResponseHeaders(m) ==
  LET found(n) == \E i \in 1..Len(m.headers) : iequals(m.headers[i].name, n)
      more(n, v) == IF found(n) THEN <<>> ELSE <<Header(n, v)>>
  IN m.headers \o more("Server", "F") \o more("Content-Length", NumText(Len(m.body)))

\* What another implementation may send to frame a body.
PeerHeaders(m) ==
  m.headers
    \o (IF m.conn = "" THEN <<>> ELSE <<Header("connection", m.conn)>>)
    \o (CASE m.how = "length" -> <<Header("Content-Length", NumText(Len(m.body)))>>
          [] m.how = "chunked" -> <<Header("transfer-encoding", "Chunked")>>
          [] OTHER -> <<>>)

HeadersOf(m) == IF m.how # "own" THEN PeerHeaders(m)
                ELSE IF m.code = 0 THEN OwnRequestHeaders(m) ELSE OwnResponseHeaders(m)

Trailer == "T: t\r\n\r\n"
\* Two chunks and a trailer.
ChunkedText(b) ==
  LET k == Len(b) - 1
  IN NumText(k) \o "\r\n" \o SubSeq(b, 1, k) \o "\r\n" \o "1;e\r\n" \o CharAt(b, k + 1) \o "\r\n"
       \o "0\r\n" \o Trailer

StartLine(m) ==
  IF m.code = 0 THEN m.method \o " " \o m.target.text \o " HTTP/1." \o NumText(m.minor)
  ELSE "HTTP/1." \o NumText(m.minor) \o " " \o CodeText(m.code) \o "  "

HeadText(m) == StartLine(m) \o m.eol \o HeaderText(HeadersOf(m), m.eol) \o m.eol
BodyText(m) == IF m.how = "chunked" THEN ChunkedText(m.body) ELSE m.body
TextOf(m) == HeadText(m) \o BodyText(m)

\* Of messages 1 to k.
Bytes_(k) == Loop(LAMBDA t, i : t \o TextOf(msgs[i]), "", k)
End(k) == Len(Bytes_(k))
stream == Bytes_(Len(msgs))
-----------------------------------------------------------------------------
StreamInit ==
  /\ type \in {"HTTP_REQUEST", "HTTP_RESPONSE"}
  /\ msgs \in IF type = "HTTP_REQUEST" THEN RequestLists ELSE ResponseLists
  /\ pos = 0
  /\ parser_ = http_parser_init(type)
  /\ handler = NewHandler(type)
  /\ loop = "reading"
  /\ asserts = TRUE

\* The peer sends a response only once it has the next request.
Sent == IF type = "HTTP_REQUEST" THEN Len(stream) ELSE End(Len(handler.out) + 1)

\* The rest of the loop after n > 0 bytes: go on, or leave it because a message
\* says so or because the parser did not take all bytes.
AfterExecute(r, n) ==
  /\ handler' = r.h
  /\ asserts' = (asserts /\ r.asserts)
  /\ \/ /\ r.h.cont /\ r.nparsed = n
        /\ parser_' = r.p
        /\ UNCHANGED loop
     \/ /\ ~r.h.cont /\ type = "HTTP_RESPONSE" /\ r.h.msg.keep_alive
        /\ parser_' = r.p
        /\ loop' = "returned"
     \/ /\ IF r.h.cont THEN r.nparsed # n
                       ELSE ~(type = "HTTP_RESPONSE" /\ r.h.msg.keep_alive)
        /\ parser_' = http_parser_init(type)
        /\ loop' = "ended"

Read ==
  /\ loop = "reading"
  /\ pos < Sent
  /\ \E n \in ReadSizes \cup {Sent - pos} :
       /\ pos + n <= Sent
       /\ pos' = pos + n
       /\ AfterExecute(http_parser_execute(parser_, handler, SubSeq(stream, pos + 1, pos + n)), n)
  /\ UNCHANGED <<type, msgs>>

\* bytes_transferred is 0: the peer has closed the connection.
ReadEof ==
  /\ loop = "reading"
  /\ LET r == http_parser_execute(parser_, handler, "")
     IN handler' = r.h /\ asserts' = (asserts /\ r.asserts)
  /\ parser_' = http_parser_init(type)
  /\ loop' = "eof"
  /\ UNCHANGED <<type, msgs, pos>>

ReadError ==
  /\ loop = "reading"
  /\ parser_' = http_parser_init(type)
  /\ loop' = "failed"
  /\ UNCHANGED <<type, msgs, pos, handler, asserts>>

\* The client reads the next response of a connection that is kept alive.
ParseAgain ==
  /\ loop = "returned"
  /\ Len(handler.out) < Len(msgs)
  /\ loop' = "reading"
  /\ handler' = [handler EXCEPT !.cont = TRUE, !.state = "none"]
  /\ UNCHANGED <<type, msgs, pos, parser_, asserts>>

StreamNext == Read \/ ReadEof \/ ReadError \/ ParseAgain
-----------------------------------------------------------------------------
(* What the peer has said.                                                 *)

EofEnds(m) == m.code \notin {0, 204, 304} /\ m.how = "none"

KeepAlive(m) ==
  /\ IF m.minor = 1 THEN m.conn # "close" ELSE m.conn = "keep-alive"
  /\ ~EofEnds(m)

\* More is read after m.
GoesOn(m) == KeepAlive(m) /\ (m.code = 0 => m.target.path # "")

Seen(hs) == [i \in 1..Len(hs) |-> [name |-> hs[i].name, value |-> hs[i].value]]

\* The message that the handler is to pass on.
Expected(m) ==
  LET hs == Seen(HeadersOf(m) \o (IF m.how = "chunked" THEN <<Header("T", "t")>> ELSE <<>>))
  IN IF m.code = 0
     THEN [http_major |-> 1, http_minor |-> m.minor, method |-> m.method, host |-> m.target.host,
           port |-> m.target.port, path |-> m.target.path, query |-> m.target.query, headers |-> hs,
           keep_alive |-> KeepAlive(m), body |-> m.body]
     ELSE [http_major |-> 1, http_minor |-> m.minor, code |-> m.code, status_message |-> " ",
           headers |-> hs, keep_alive |-> KeepAlive(m), body |-> m.body]

\* The bytes that count towards HTTP_MAX_HEADER_SIZE when message i is read: its
\* head, and the trailer before it.
HeaderSize(i) ==
  Len(HeadText(msgs[i])) + (IF i > 1 /\ msgs[i-1].how = "chunked" THEN Len(Trailer) ELSE 0)

\* The value of a length, in digits, at most three here.
Value(t) == Loop(LAMBDA v, i : 10 * v + DigitOf[CharAt(t, i)], 0, Len(t))

Readable(i) ==
  /\ HeaderSize(i) <= HTTP_MAX_HEADER_SIZE
  /\ \A k \in 1..Len(msgs[i].headers) :
       LET f == msgs[i].headers[k]
       IN iequals(f.name, "Content-Length") => Value(f.value) < ULLONG_MAX

\* What has come of the body of message i, which the end of the stream ends.
BodySoFar(i) == SubSeq(msgs[i].body, 1, pos - End(i - 1) - Len(HeadText(msgs[i])))

\* Message i has been read to its end, and none before it stopped the loop.
Complete(i) ==
  /\ IF EofEnds(msgs[i]) THEN loop = "eof" /\ pos >= End(i - 1) + Len(HeadText(msgs[i]))
                         ELSE pos >= End(i)
  /\ \A j \in 1..i : Readable(j)
  /\ \A j \in 1..(i - 1) : GoesOn(msgs[j])
-----------------------------------------------------------------------------
\* Wherever the reads cut the stream, in a name, a number, a URL, between CR and
\* LF or in a chunk's size, the parser and the message it puts together are what
\* one read of the same bytes would have made of them.
SplitIndependent ==
  loop = "reading" =>
    LET r == http_parser_execute(http_parser_init(type), NewHandler(type), SubSeq(stream, 1, pos))
    IN pos > 0 => r.p = parser_ /\ r.h.msg = handler.msg /\ r.h.out = handler.out

\* Each message that has been read to its end is passed on as it was sent (method
\* or code, URL parts, headers, body, keep-alive), in order, and nothing else is:
\* no part of a message, no byte of one in another, none after one that closes.
\* The connection is given up only after such a message or for a head too large.
\* The assertions in http_parser_execute (at most one mark at the end of a read, a
\* length left when a body is read, a name being matched only in its states) hold.
Framing ==
  /\ Len(handler.out) = Cardinality({i \in 1..Len(msgs) : Complete(i)})
  /\ \A i \in 1..Len(handler.out) :
       handler.out[i] = [Expected(msgs[i]) EXCEPT !.body =
                           IF EofEnds(msgs[i]) THEN BodySoFar(i) ELSE @]
  /\ loop = "ended" => LET n == Len(handler.out)
                       IN \/ n > 0 /\ ~GoesOn(msgs[n])
                          \/ n < Len(msgs) /\ ~Readable(n + 1)
  /\ asserts
=============================================================================
