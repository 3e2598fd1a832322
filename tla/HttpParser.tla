----------------------------- MODULE HttpParser -----------------------------
(***************************************************************************)
(* http_parser_execute of http_parser.cpp, in strict mode, for the parser   *)
(* types that fiberproxy uses (HTTP_REQUEST and HTTP_RESPONSE).             *)
(*                                                                         *)
(* x is the state of one call: the parser p, the handler h, the buffer data *)
(* and the position at in it (p - data + 1), the marks (0: unset), redo     *)
(* (goto reexecute_byte), done and ret once the call returns, and asserts,  *)
(* FALSE once an assertion of the code has failed.                          *)
(***************************************************************************)
EXTENDS HttpHandler, TLC

CONSTANT HTTP_MAX_HEADER_SIZE

Pieces == {"url", "status", "header_field", "header_value", "body"}

http_parser_init(t) ==
  [type |-> t, flags |-> {}, state |-> IF t = "HTTP_REQUEST" THEN "s_start_req" ELSE "s_start_res",
   header_state |-> "h_general", index |-> 0, nread |-> 0, content_length |-> 0,
   http_major |-> 0, http_minor |-> 0, status_code |-> 0, method |-> "DELETE",
   http_errno |-> "OK", upgrade |-> FALSE]

Goto(x, s) == [x EXCEPT !.p.state = s]
Again(x) == [x EXCEPT !.redo = TRUE]
Assert_(x, a) == [x EXCEPT !.asserts = @ /\ a]
Return(x, n) == [x EXCEPT !.done = TRUE, !.ret = n]
\* SET_ERRNO(e); goto error
Error(x, e) == Return([x EXCEPT !.p.http_errno = e], x.at - 1)

start_state(p) == IF p.type = "HTTP_REQUEST" THEN "s_start_req" ELSE "s_start_res"
NEW_MESSAGE(p) == IF http_should_keep_alive(p) THEN start_state(p) ELSE "s_dead"

\* STRICT_CHECK(ch != c), then on to state s.
Expect(x, ch, c, s) == IF ch = c THEN Goto(x, s) ELSE Error(x, "STRICT")

MARK(x, f) == [x EXCEPT !.mark[f] = IF @ = 0 THEN x.at ELSE @]

OnData(p, h, f, text) ==
  CASE f = "url" -> on_url(h, text)
    [] f = "status" -> on_status_complete(p, h, text)
    [] f = "header_field" -> on_header_field(h, text)
    [] f = "header_value" -> on_header_value(h, text)
    [] f = "body" -> on_body(h, text)

\* CALLBACK_DATA: the bytes from the mark up to the one before end.
CallbackData(x, f, end) ==
  IF x.mark[f] = 0 THEN x
  ELSE [x EXCEPT !.h = OnData(x.p, x.h, f, SubSeq(x.data, x.mark[f], end - 1)), !.mark[f] = 0]

MessageBegin(x) == [x EXCEPT !.h = on_msg_begin(x.p, x.h)]

\* CALLBACK_NOTIFY(message_complete), which comes with NEW_MESSAGE except at eof.
Notified(x) ==
  IF Refuses(x.p, x.h) THEN Return([x EXCEPT !.p.http_errno = "CB_message_complete"], x.at) ELSE x

MessageComplete(x) == Notified([x EXCEPT !.h = on_msg_complete(x.p, x.h)])

EndMessage(x) == MessageComplete(Goto(x, NEW_MESSAGE(x.p)))
-----------------------------------------------------------------------------
(* The start of a message.                                                 *)

Dead(x, ch) == IF ch \in {CR, LF} THEN x ELSE Error(x, "CLOSED_CONNECTION")

NewMessage(x) == [x EXCEPT !.p.flags = {}, !.p.content_length = ULLONG_MAX]

StartRes(x, ch) ==
  CASE ch = "H" -> MessageBegin(Goto(NewMessage(x), "s_res_H"))
    [] ch \in {CR, LF} -> MessageBegin(NewMessage(x))
    [] OTHER -> Error(NewMessage(x), "INVALID_CONSTANT")

\* "HTTP/" in a status line or a request line.
HttpConstant(x, ch, prefix, next) ==
  CASE x.p.state = prefix \o "H" -> Expect(x, ch, "T", prefix \o "HT")
    [] x.p.state = prefix \o "HT" -> Expect(x, ch, "T", prefix \o "HTT")
    [] x.p.state = prefix \o "HTT" -> Expect(x, ch, "P", prefix \o "HTTP")
    [] x.p.state = prefix \o "HTTP" -> Expect(x, ch, "/", next)

\* One more digit of a number that may not exceed 999.
MoreDigits(n, ch) == 10 * n + DigitOf[ch]

ResVersion(x, ch) ==
  LET s == x.p.state
      major == MoreDigits(x.p.http_major, ch)
      minor == MoreDigits(x.p.http_minor, ch)
  IN CASE s = "s_res_http_major" /\ ch = "." -> Goto(x, "s_res_first_http_minor")
       [] s = "s_res_http_minor" /\ ch = " " -> Goto(x, "s_res_first_status_code")
       [] ~IsNum(ch) -> Error(x, "INVALID_VERSION")
       [] s = "s_res_first_http_major" ->
            Goto([x EXCEPT !.p.http_major = DigitOf[ch]], "s_res_http_major")
       [] s = "s_res_first_http_minor" ->
            Goto([x EXCEPT !.p.http_minor = DigitOf[ch]], "s_res_http_minor")
       [] s = "s_res_http_major" -> IF major > 999 THEN Error(x, "INVALID_VERSION")
                                    ELSE [x EXCEPT !.p.http_major = major]
       [] s = "s_res_http_minor" -> IF minor > 999 THEN Error(x, "INVALID_VERSION")
                                    ELSE [x EXCEPT !.p.http_minor = minor]

\* The end of a line whose carriage return may be missing.
LineEnd(x, ch, almost) == IF ch = CR THEN Goto(x, almost) ELSE Goto(x, "s_header_field_start")

ResStatusCode(x, ch) ==
  LET code == MoreDigits(x.p.status_code, ch)
      first == x.p.state = "s_res_first_status_code"
  IN CASE IsNum(ch) /\ first ->
            Goto([x EXCEPT !.p.status_code = DigitOf[ch]], "s_res_status_code")
       [] IsNum(ch) /\ ~first -> IF code > 999 THEN Error(x, "INVALID_STATUS")
                                 ELSE [x EXCEPT !.p.status_code = code]
       [] ch = " " -> IF first THEN x ELSE Goto(x, "s_res_status_start")
       [] ch \in {CR, LF} /\ ~first -> LineEnd(x, ch, "s_res_line_almost_done")
       [] OTHER -> Error(x, "INVALID_STATUS")

ResStatus(x, ch) ==
  CASE x.p.state = "s_res_line_almost_done" -> Expect(x, ch, LF, "s_header_field_start")
    [] x.p.state = "s_res_status_start" /\ ch \notin {CR, LF} ->
         Goto([MARK(x, "status") EXCEPT !.p.index = 0], "s_res_status")
    [] ch \in {CR, LF} -> CallbackData(LineEnd(x, ch, "s_res_line_almost_done"), "status", x.at)
    [] OTHER -> x

FirstMethod ==
  [C |-> "CONNECT", D |-> "DELETE", G |-> "GET", H |-> "HEAD", L |-> "LOCK", M |-> "MKCOL",
   N |-> "NOTIFY", O |-> "OPTIONS", P |-> "POST", R |-> "REPORT", S |-> "SUBSCRIBE",
   T |-> "TRACE", U |-> "UNLOCK"]

\* Where the method guessed from what has been read turns into another one.
MethodTurns ==
  {<<"CONNECT", 1, "H", "CHECKOUT">>, <<"CONNECT", 2, "P", "COPY">>,
   <<"MKCOL", 1, "O", "MOVE">>, <<"MKCOL", 1, "E", "MERGE">>, <<"MKCOL", 1, "-", "M-SEARCH">>,
   <<"MKCOL", 2, "A", "MKACTIVITY">>, <<"MKCOL", 3, "A", "MKCALENDAR">>,
   <<"SUBSCRIBE", 1, "E", "SEARCH">>,
   <<"POST", 1, "R", "PROPFIND">>, <<"POST", 1, "U", "PUT">>, <<"POST", 1, "A", "PATCH">>,
   <<"PUT", 2, "R", "PURGE">>, <<"UNLOCK", 2, "S", "UNSUBSCRIBE">>,
   <<"PROPFIND", 4, "P", "PROPPATCH">>}

StartReq(x, ch) ==
  CASE ch \in {CR, LF} -> x
    [] ch \in DOMAIN FirstMethod ->
         MessageBegin(Goto([NewMessage(x) EXCEPT !.p.method = FirstMethod[ch], !.p.index = 1],
                           "s_req_method"))
    [] OTHER -> Error(NewMessage(x), "INVALID_METHOD")

ReqMethod(x, ch) ==
  LET m == x.p.method
      i == x.p.index
      turns == {t \in MethodTurns : <<t[1], t[2], t[3]>> = <<m, i, ch>>}
      next == [x EXCEPT !.p.index = @ + 1]
  IN CASE ch = " " /\ i = Len(m) -> Goto(next, "s_req_spaces_before_url")
       [] i < Len(m) /\ ch = CharAt(m, i + 1) -> next
       [] turns # {} -> [next EXCEPT !.p.method = (CHOOSE t \in turns : TRUE)[4]]
       [] OTHER -> Error(x, "INVALID_METHOD")

\* The URL's states before a server or a path has begun, and after.
UrlBegins == {"s_req_schema", "s_req_schema_slash", "s_req_schema_slash_slash", "s_req_server_start"}
UrlGoesOn == {"s_req_server", "s_req_server_with_at", "s_req_path", "s_req_query_string_start",
              "s_req_query_string", "s_req_fragment_start", "s_req_fragment"}

UrlChar(x, s, ch) ==
  LET t == parse_url_char(s, ch) IN IF t = "s_dead" THEN Error(Goto(x, t), "INVALID_URL") ELSE Goto(x, t)

ReqUrl(x, ch) ==
  LET s == x.p.state
  IN CASE s = "s_req_spaces_before_url" /\ ch = " " -> x
       [] s = "s_req_spaces_before_url" /\ ch # " " ->
            UrlChar(MARK(x, "url"), IF x.p.method = "CONNECT" THEN "s_req_server_start" ELSE s, ch)
       [] s \in UrlBegins /\ ch \in {" ", CR, LF} -> Error(x, "INVALID_URL")
       [] s \in UrlGoesOn /\ ch = " " -> CallbackData(Goto(x, "s_req_http_start"), "url", x.at)
       [] s \in UrlGoesOn /\ ch \in {CR, LF} ->
            CallbackData(LineEnd([x EXCEPT !.p.http_major = 0, !.p.http_minor = 9], ch,
                                 "s_req_line_almost_done"), "url", x.at)
       [] OTHER -> UrlChar(x, s, ch)

ReqHttpStart(x, ch) ==
  CASE ch = "H" -> Goto(x, "s_req_http_H")
    [] ch = " " -> x
    [] OTHER -> Error(x, "INVALID_CONSTANT")

ReqVersion(x, ch) ==
  LET s == x.p.state
      major == MoreDigits(x.p.http_major, ch)
      minor == MoreDigits(x.p.http_minor, ch)
  IN CASE s = "s_req_line_almost_done" ->
            IF ch = LF THEN Goto(x, "s_header_field_start") ELSE Error(x, "LF_EXPECTED")
       [] s = "s_req_http_major" /\ ch = "." -> Goto(x, "s_req_first_http_minor")
       [] s = "s_req_http_minor" /\ ch \in {CR, LF} -> LineEnd(x, ch, "s_req_line_almost_done")
       [] ~IsNum(ch) \/ (s = "s_req_first_http_major" /\ ch = "0") -> Error(x, "INVALID_VERSION")
       [] s = "s_req_first_http_major" ->
            Goto([x EXCEPT !.p.http_major = DigitOf[ch]], "s_req_http_major")
       [] s = "s_req_first_http_minor" ->
            Goto([x EXCEPT !.p.http_minor = DigitOf[ch]], "s_req_http_minor")
       [] s = "s_req_http_major" -> IF major > 999 THEN Error(x, "INVALID_VERSION")
                                    ELSE [x EXCEPT !.p.http_major = major]
       [] s = "s_req_http_minor" -> IF minor > 999 THEN Error(x, "INVALID_VERSION")
                                    ELSE [x EXCEPT !.p.http_minor = minor]
-----------------------------------------------------------------------------
(* Header lines.                                                           *)

\* The names and values the parser looks for, and the header_state that each
\* leads to when it has been read.
Keyword ==
  [h_matching_connection |-> "connection",
   h_matching_proxy_connection |-> "proxy-connection",
   h_matching_content_length |-> "content-length",
   h_matching_transfer_encoding |-> "transfer-encoding",
   h_matching_upgrade |-> "upgrade",
   h_matching_transfer_encoding_chunked |-> "chunked",
   h_matching_connection_keep_alive |-> "keep-alive",
   h_matching_connection_close |-> "close"]

Matched ==
  [h_matching_connection |-> "h_connection",
   h_matching_proxy_connection |-> "h_connection",
   h_matching_content_length |-> "h_content_length",
   h_matching_transfer_encoding |-> "h_transfer_encoding",
   h_matching_upgrade |-> "h_upgrade",
   h_matching_transfer_encoding_chunked |-> "h_transfer_encoding_chunked",
   h_matching_connection_keep_alive |-> "h_connection_keep_alive",
   h_matching_connection_close |-> "h_connection_close"]

MatchKeyword(x, c) ==
  LET k == Keyword[x.p.header_state]
      i == x.p.index + 1
  IN [x EXCEPT !.p.index = i,
               !.p.header_state = CASE i >= Len(k) -> "h_general"
                                    [] i < Len(k) /\ CharAt(k, i + 1) # c -> "h_general"
                                    [] i = Len(k) - 1 /\ CharAt(k, i + 1) = c -> Matched[@]
                                    [] OTHER -> @]

HeaderState(x, hs) == [x EXCEPT !.p.header_state = hs]

HeaderFieldStart(x, ch) ==
  LET c == TOKEN(ch)
  IN CASE ch = CR -> Goto(x, "s_headers_almost_done")
       [] ch = LF -> Again(Goto(x, "s_headers_almost_done"))
       [] c = "" -> Error(x, "INVALID_HEADER_TOKEN")
       [] OTHER -> HeaderState(Goto([MARK(x, "header_field") EXCEPT !.p.index = 0], "s_header_field"),
                     CASE c = "c" -> "h_C"
                       [] c = "p" -> "h_matching_proxy_connection"
                       [] c = "t" -> "h_matching_transfer_encoding"
                       [] c = "u" -> "h_matching_upgrade"
                       [] OTHER -> "h_general")

\* A character of a header's name.
HeaderName(x, c) ==
  LET hs == x.p.header_state
      next == [x EXCEPT !.p.index = @ + 1]
  IN CASE hs = "h_general" -> x
       [] hs = "h_C" -> HeaderState(next, IF c = "o" THEN "h_CO" ELSE "h_general")
       [] hs = "h_CO" -> HeaderState(next, IF c = "n" THEN "h_CON" ELSE "h_general")
       [] hs = "h_CON" -> HeaderState(next, IF c = "n" THEN "h_matching_connection"
                                            ELSE IF c = "t" THEN "h_matching_content_length"
                                            ELSE "h_general")
       [] hs \in DOMAIN Keyword -> MatchKeyword(x, c)
       [] hs \in {"h_connection", "h_content_length", "h_transfer_encoding", "h_upgrade"} ->
            HeaderState(x, "h_general")
       [] OTHER -> Assert_(x, FALSE)

HeaderField(x, ch) ==
  CASE TOKEN(ch) # "" -> HeaderName(x, TOKEN(ch))
    [] ch = ":" -> CallbackData(Goto(x, "s_header_value_discard_ws"), "header_field", x.at)
    [] ch \in {CR, LF} -> CallbackData(LineEnd(x, ch, "s_header_almost_done"), "header_field", x.at)
    [] OTHER -> Error(x, "INVALID_HEADER_TOKEN")

HeaderValueStart(x, ch) ==
  LET c == LOWER(ch)
      hs == x.p.header_state
      y == Goto([MARK(x, "header_value") EXCEPT !.p.index = 0], "s_header_value")
  IN CASE hs = "h_upgrade" -> HeaderState([y EXCEPT !.p.flags = @ \cup {"F_UPGRADE"}], "h_general")
       [] hs = "h_transfer_encoding" ->
            HeaderState(y, IF c = "c" THEN "h_matching_transfer_encoding_chunked" ELSE "h_general")
       [] hs = "h_content_length" -> IF IsNum(ch) THEN [y EXCEPT !.p.content_length = DigitOf[ch]]
                                     ELSE Error(y, "INVALID_CONTENT_LENGTH")
       [] hs = "h_connection" ->
            HeaderState(y, IF c = "k" THEN "h_matching_connection_keep_alive"
                           ELSE IF c = "c" THEN "h_matching_connection_close" ELSE "h_general")
       [] OTHER -> HeaderState(y, "h_general")

\* s_header_value_discard_ws falls through to s_header_value_start.
HeaderValueDiscardWs(x, ch) ==
  CASE ch \in {" ", "\t"} -> x
    [] ch = CR -> Goto(x, "s_header_value_discard_ws_almost_done")
    [] ch = LF -> Goto(x, "s_header_value_discard_lws")
    [] OTHER -> HeaderValueStart(x, ch)

\* One more digit of Content-Length: the test is made on the value before it, so
\* that the product fits.
ContentLength(x, ch) ==
  CASE ch = " " -> x
    [] ~IsNum(ch) -> Error(x, "INVALID_CONTENT_LENGTH")
    [] (ULLONG_MAX - 10) \div 10 < x.p.content_length -> Error(x, "INVALID_CONTENT_LENGTH")
    [] OTHER -> [x EXCEPT !.p.content_length = 10 * @ + DigitOf[ch]]

HeaderValue(x, ch) ==
  LET hs == x.p.header_state
  IN CASE ch = CR -> CallbackData(Goto(x, "s_header_almost_done"), "header_value", x.at)
       [] ch = LF -> Again(CallbackData(Goto(x, "s_header_almost_done"), "header_value", x.at))
       [] hs = "h_general" -> x
       [] hs \in {"h_connection", "h_transfer_encoding"} -> Assert_(x, FALSE)
       [] hs = "h_content_length" -> ContentLength(x, ch)
       [] hs \in DOMAIN Keyword -> MatchKeyword(x, LOWER(ch))
       [] hs \in {"h_transfer_encoding_chunked", "h_connection_keep_alive", "h_connection_close"} ->
            IF ch = " " THEN x ELSE HeaderState(x, "h_general")
       [] OTHER -> HeaderState(x, "h_general")

\* The line has ended.  One that begins with white space continues the value.
HeaderValueLws(x, ch) ==
  LET hs == x.p.header_state
      flag == CASE hs = "h_connection_keep_alive" -> {"F_CONNECTION_KEEP_ALIVE"}
                [] hs = "h_connection_close" -> {"F_CONNECTION_CLOSE"}
                [] hs = "h_transfer_encoding_chunked" -> {"F_CHUNKED"}
                [] OTHER -> {}
  IN IF ch \in {" ", "\t"} THEN Again(Goto(x, "s_header_value_start"))
     ELSE Again(Goto([x EXCEPT !.p.flags = @ \cup flag], "s_header_field_start"))

\* After an empty line of a value: it goes on, or it was empty.
HeaderValueDiscardLws(x, ch) ==
  IF ch \in {" ", "\t"} THEN Goto(x, "s_header_value_discard_ws")
  ELSE Again(CallbackData(Goto(MARK(x, "header_value"), "s_header_field_start"),
                          "header_value", x.at))
-----------------------------------------------------------------------------
(* The end of the headers and the body.                                    *)

\* on_headers_complete returns 0: F_SKIPBODY is never set.
HeadersAlmostDone(x, ch) ==
  CASE ch # LF -> Error(x, "STRICT")
    [] "F_TRAILING" \in x.p.flags -> EndMessage(x)
    [] OTHER -> Again(Goto([x EXCEPT !.p.upgrade = "F_UPGRADE" \in x.p.flags \/ x.p.method = "CONNECT"],
                           "s_headers_done"))

HeadersDone(x, ch) ==
  LET y == [x EXCEPT !.p.nread = 0]
      end == EndMessage(y)
  IN CASE ch # LF -> Error(x, "STRICT")
       [] y.p.upgrade -> Return(end, x.at)
       [] "F_CHUNKED" \in y.p.flags -> Goto(y, "s_chunk_size_start")
       [] y.p.content_length = 0 -> end
       [] y.p.content_length # ULLONG_MAX -> Goto(y, "s_body_identity")
       [] y.p.type = "HTTP_REQUEST" \/ ~http_message_needs_eof(y.p) -> end
       [] OTHER -> Goto(y, "s_body_identity_eof")

\* What a body state takes: as much as there is in the buffer, or as is left of
\* the length.  at stops on the last byte taken.
Take(x) ==
  LET have == Len(x.data) - x.at + 1
      n == IF x.p.content_length < have THEN x.p.content_length ELSE have
      ok == x.p.content_length \notin {0, ULLONG_MAX}
  IN Assert_([MARK(x, "body") EXCEPT !.p.content_length = @ - n, !.at = @ + n - 1], ok)

BodyIdentity(x) ==
  LET y == Take(x)
  IN IF y.p.content_length = 0
     THEN Again(CallbackData(Goto(y, "s_message_done"), "body", y.at + 1))
     ELSE y

BodyIdentityEof(x) == [MARK(x, "body") EXCEPT !.at = Len(x.data)]

ChunkSize(x, ch) ==
  LET v == HexOf(ch)
      y == Assert_(x, "F_CHUNKED" \in x.p.flags /\ (x.p.state = "s_chunk_size_start" => x.p.nread = 1))
  IN CASE y.p.state = "s_chunk_size_start" ->
            IF v = 16 THEN Error(y, "INVALID_CHUNK_SIZE")
            ELSE Goto([y EXCEPT !.p.content_length = v], "s_chunk_size")
       [] ch = CR -> Goto(y, "s_chunk_size_almost_done")
       [] y.p.state = "s_chunk_parameters" /\ ch # CR -> y
       [] v = 16 -> IF ch \in {";", " "} THEN Goto(y, "s_chunk_parameters")
                    ELSE Error(y, "INVALID_CHUNK_SIZE")
       [] (ULLONG_MAX - 16) \div 16 < y.p.content_length -> Error(y, "INVALID_CONTENT_LENGTH")
       [] OTHER -> [y EXCEPT !.p.content_length = 16 * @ + v]

ChunkSizeAlmostDone(x, ch) ==
  LET y == [x EXCEPT !.p.nread = 0]
  IN CASE ch # LF -> Error(x, "STRICT")
       [] y.p.content_length = 0 -> Goto([y EXCEPT !.p.flags = @ \cup {"F_TRAILING"}], "s_header_field_start")
       [] OTHER -> Goto(y, "s_chunk_data")

ChunkData(x) ==
  LET y == Take(x) IN IF y.p.content_length = 0 THEN Goto(y, "s_chunk_data_almost_done") ELSE y

ChunkDataAlmostDone(x, ch) ==
  IF ch # CR THEN Error(x, "STRICT")
  ELSE CallbackData(Goto(Assert_(x, x.p.content_length = 0), "s_chunk_data_done"), "body", x.at)

ChunkDataDone(x, ch) ==
  IF ch # LF THEN Error(x, "STRICT") ELSE Goto([x EXCEPT !.p.nread = 0], "s_chunk_size_start")
-----------------------------------------------------------------------------
(* The loop over the buffer.                                               *)

Switch(x, ch) ==
  LET s == x.p.state
  IN CASE s = "s_dead" -> Dead(x, ch)
       [] s = "s_start_res" -> StartRes(x, ch)
       [] s \in {"s_res_H", "s_res_HT", "s_res_HTT", "s_res_HTTP"} ->
            HttpConstant(x, ch, "s_res_", "s_res_first_http_major")
       [] s \in {"s_res_first_http_major", "s_res_http_major", "s_res_first_http_minor",
                 "s_res_http_minor"} -> ResVersion(x, ch)
       [] s \in {"s_res_first_status_code", "s_res_status_code"} -> ResStatusCode(x, ch)
       [] s \in {"s_res_status_start", "s_res_status", "s_res_line_almost_done"} -> ResStatus(x, ch)
       [] s = "s_start_req" -> StartReq(x, ch)
       [] s = "s_req_method" -> ReqMethod(x, ch)
       [] s \in {"s_req_spaces_before_url"} \cup UrlBegins \cup UrlGoesOn -> ReqUrl(x, ch)
       [] s = "s_req_http_start" -> ReqHttpStart(x, ch)
       [] s \in {"s_req_http_H", "s_req_http_HT", "s_req_http_HTT", "s_req_http_HTTP"} ->
            HttpConstant(x, ch, "s_req_http_", "s_req_first_http_major")
       [] s \in {"s_req_first_http_major", "s_req_http_major", "s_req_first_http_minor",
                 "s_req_http_minor", "s_req_line_almost_done"} -> ReqVersion(x, ch)
       [] s = "s_header_field_start" -> HeaderFieldStart(x, ch)
       [] s = "s_header_field" -> HeaderField(x, ch)
       [] s = "s_header_value_discard_ws" -> HeaderValueDiscardWs(x, ch)
       [] s = "s_header_value_discard_ws_almost_done" ->
            Expect(x, ch, LF, "s_header_value_discard_lws")
       [] s = "s_header_value_discard_lws" -> HeaderValueDiscardLws(x, ch)
       [] s = "s_header_value_start" -> HeaderValueStart(x, ch)
       [] s = "s_header_value" -> HeaderValue(x, ch)
       [] s = "s_header_almost_done" -> Expect(x, ch, LF, "s_header_value_lws")
       [] s = "s_header_value_lws" -> HeaderValueLws(x, ch)
       [] s = "s_headers_almost_done" -> HeadersAlmostDone(x, ch)
       [] s = "s_headers_done" -> HeadersDone(x, ch)
       [] s = "s_body_identity" -> BodyIdentity(x)
       [] s = "s_body_identity_eof" -> BodyIdentityEof(x)
       [] s = "s_message_done" -> EndMessage(x)
       [] s \in {"s_chunk_size_start", "s_chunk_size", "s_chunk_parameters"} -> ChunkSize(x, ch)
       [] s = "s_chunk_size_almost_done" -> ChunkSizeAlmostDone(x, ch)
       [] s = "s_chunk_data" -> ChunkData(x)
       [] s = "s_chunk_data_almost_done" -> ChunkDataAlmostDone(x, ch)
       [] s = "s_chunk_data_done" -> ChunkDataDone(x, ch)

\* PARSING_HEADER is false from s_chunk_data on.
BodyStates == {"s_chunk_data", "s_chunk_data_almost_done", "s_chunk_data_done", "s_body_identity",
               "s_body_identity_eof", "s_message_done"}

CountHeader(x) ==
  IF x.p.state \in BodyStates THEN x
  ELSE LET y == [x EXCEPT !.p.nread = @ + 1]
       IN IF y.p.nread > HTTP_MAX_HEADER_SIZE THEN Error(y, "HEADER_OVERFLOW") ELSE y

\* Callbacks for the mark that is left when the buffer ends, unless the call returns.
RunLeftover(x) ==
  LET left == {f \in Pieces : x.mark[f] # 0}
      y == Assert_(x, \A f, g \in left : f = g)
  IN IF x.done THEN x
     ELSE Return(IF left = {} THEN y ELSE CallbackData(y, CHOOSE f \in left : TRUE, x.at),
                 Len(x.data))

\* reexecute_byte.  The longest chain of jumps to it has four steps: the end of a value, of
\* its line, of the headers, and what follows them.
Execute(x) ==
  IF x.done \/ ~x.redo THEN x ELSE Switch([x EXCEPT !.redo = FALSE], CharAt(x.data, x.at))
Settled(x) == Assert_(x, x.redo => x.done)
Byte(x) == Settled(Loop(LAMBDA y, k : Execute(y), Again(x), 4))

\* One round of the loop over the buffer.
Advance(x) == IF x.done THEN x ELSE [x EXCEPT !.at = @ + 1]
Round(x) == IF x.done \/ x.at > Len(x.data) THEN x ELSE Advance(Byte(CountHeader(x)))

\* A round for every byte, in blocks so that the recursion stays shallow.
Block == 16
Rounds(x) ==
  LET n == Len(x.data)
      size(i) == IF i * Block <= n THEN Block ELSE n - (i - 1) * Block
      block(y, i) == IF y.done THEN y ELSE Loop(LAMBDA z, k : Round(z), y, size(i))
  IN Loop(block, x, (n + Block - 1) \div Block)

Bytes(x) == RunLeftover(Rounds(x))

\* Marks of a piece that goes on from the last buffer.
MarksAt(s) ==
  [f \in Pieces |-> IF \/ f = "header_field" /\ s = "s_header_field"
                       \/ f = "header_value" /\ s = "s_header_value"
                       \/ f = "url" /\ s \in UrlBegins \cup UrlGoesOn
                       \/ f = "status" /\ s = "s_res_status"
                    THEN 1 ELSE 0]

\* The end of the stream: len = 0.
ExecuteEof(x) ==
  CASE x.p.state = "s_body_identity_eof" -> Return(MessageComplete(x), 0)
    [] x.p.state \in {"s_dead", "s_start_req", "s_start_res"} -> Return(x, 0)
    [] OTHER -> Return([x EXCEPT !.p.http_errno = "INVALID_EOF_STATE"], 1)

Entered(p, h, data) ==
  [p |-> p, h |-> h, data |-> data, at |-> 1, mark |-> MarksAt(p.state), redo |-> FALSE,
   done |-> FALSE, ret |-> 0, asserts |-> TRUE]

Run(x) == IF x.p.http_errno # "OK" THEN x ELSE IF x.data = "" THEN ExecuteEof(x) ELSE Bytes(x)

Result(x) == [p |-> x.p, h |-> x.h, nparsed |-> x.ret, asserts |-> x.asserts]

http_parser_execute(p, h, data) == Result(Run(Entered(p, h, data)))
=============================================================================
