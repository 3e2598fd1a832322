----------------------------- MODULE HttpHandler -----------------------------
(***************************************************************************)
(* What the callbacks of request::parser_impl and response::parser_impl in  *)
(* HttpProtocolHandler.cpp do with the pieces http_parser hands them, and   *)
(* the two questions about a message that http_parser answers for them.     *)
(*                                                                         *)
(* p is the struct http_parser.  h is the handler: its state_, the url_,    *)
(* the message being put together, should_continue_, and out, the messages  *)
(* passed on so far.                                                        *)
(***************************************************************************)
EXTENDS HttpParserUrl

CONSTANT ULLONG_MAX   \* "no Content-Length"; every length is smaller

http_message_needs_eof(p) ==
  /\ p.type # "HTTP_REQUEST"
  /\ p.status_code \div 100 # 1
  /\ p.status_code \notin {204, 304}
  /\ "F_SKIPBODY" \notin p.flags
  /\ "F_CHUNKED" \notin p.flags
  /\ p.content_length = ULLONG_MAX

http_should_keep_alive(p) ==
  /\ IF p.http_major > 0 /\ p.http_minor > 0
     THEN "F_CONNECTION_CLOSE" \notin p.flags
     ELSE "F_CONNECTION_KEEP_ALIVE" \in p.flags
  /\ ~http_message_needs_eof(p)
-----------------------------------------------------------------------------
NewRequest ==
  [http_major |-> 1, http_minor |-> 1, method |-> "POST", host |-> "", port |-> 0,
   path |-> "", query |-> "", headers |-> <<>>, keep_alive |-> FALSE, body |-> ""]

ClearedRequest ==
  [NewRequest EXCEPT !.http_major = 0, !.http_minor = 0, !.method = "GET"]

\* The constructor and clear() leave a response_t alike.
NewResponse ==
  [http_major |-> 1, http_minor |-> 1, code |-> 504, status_message |-> "",
   headers |-> <<>>, keep_alive |-> FALSE, body |-> ""]

\* start of do_parse and of parse
NewHandler(type) ==
  [state |-> "none", url |-> "", cont |-> TRUE, out |-> <<>>,
   msg |-> IF type = "HTTP_REQUEST" THEN NewRequest ELSE NewResponse]

\* Mutant of on_msg_begin: the message is not cleared.
on_msg_begin_keep(p, h) == [h EXCEPT !.state = "start", !.url = ""]

on_msg_begin(p, h) ==
  [h EXCEPT !.state = "start", !.url = "",
            !.msg = IF p.type = "HTTP_REQUEST" THEN ClearedRequest ELSE NewResponse]

on_url(h, text) ==
  [h EXCEPT !.state = "url", !.url = IF h.state = "url" THEN @ \o text ELSE text]

on_status_complete(p, h, text) ==
  IF p.type = "HTTP_REQUEST" THEN h
  ELSE [h EXCEPT !.state = "status",
                 !.msg.status_message = IF h.state = "status" THEN @ \o text ELSE text]

on_header_field(h, text) ==
  LET n == Len(h.msg.headers)
  IN [h EXCEPT !.state = "field",
               !.msg.headers = IF h.state = "field" THEN [@ EXCEPT ![n].name = @ \o text]
                               ELSE Append(@, [name |-> text, value |-> ""])]

\* Mutant of on_header_value: every piece replaces what came before it.
on_header_value_last(h, text) ==
  [h EXCEPT !.state = "value", !.msg.headers[Len(h.msg.headers)].value = text]

on_header_value(h, text) ==
  [h EXCEPT !.state = "value",
            !.msg.headers[Len(h.msg.headers)].value =
              IF h.state = "value" THEN @ \o text ELSE text]

on_body(h, text) == [h EXCEPT !.state = "body", !.msg.body = @ \o text]

\* HttpConnection::request_cb: with a fiber pool handleRequest fails only on an
\* empty path.  createContext leaves a new request_t in the session.
request_cb(h, req) ==
  [h EXCEPT !.out = Append(@, req), !.msg = NewRequest,
            !.cont = req.path # "" /\ req.keep_alive]

\* The request whose URL has the fields u.
RequestWith(p, h, u) ==
  LET text(f) == IF f \in u.set THEN FieldText(h.url, u, f) ELSE ""
  IN [h.msg EXCEPT !.method = p.method, !.http_major = p.http_major,
                   !.http_minor = p.http_minor, !.host = text("HOST"), !.port = u.port,
                   !.path = text("PATH"), !.query = text("QUERY"),
                   !.keep_alive = http_should_keep_alive(p)]

RequestOf(p, h) == RequestWith(p, h, http_parser_parse_url(h.url))

ResponseOf(p, h) ==
  [h.msg EXCEPT !.http_major = p.http_major, !.http_minor = p.http_minor,
                !.code = p.status_code, !.keep_alive = http_should_keep_alive(p)]

on_msg_complete(p, h) ==
  LET end == [h EXCEPT !.state = "end"]
  IN IF p.type = "HTTP_REQUEST" THEN request_cb(end, RequestOf(p, h))
     ELSE [end EXCEPT !.msg = ResponseOf(p, h), !.out = Append(@, ResponseOf(p, h)),
                      !.cont = FALSE]

\* Only on_msg_complete of a request may return non-zero.
Refuses(p, h) == p.type = "HTTP_REQUEST" /\ ~h.cont
=============================================================================
