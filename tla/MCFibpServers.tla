--------------------------- MODULE MCFibpServers ---------------------------
(***************************************************************************)
(* Two servers of two io_services; clients that send any two requests of   *)
(* their server's kinds; and HTTP messages: single ones of every framing,  *)
(* version and URL form, and pairs on a connection that is kept alive.     *)
(***************************************************************************)
EXTENDS FibpServers
CONSTANTS driver, http

MCServerList == <<driver, http>>

Request(kinds, keeps) == [kind : kinds, keep : keeps]
Pairs(R) == {<<r, s>> : r \in R, s \in R}
Common == {"unknown", "throws", "alive", "bad", "call"}
MCScripts ==
  [server_ \in {"http", "driver", "rpc"} |->
     CASE server_ = "http" -> Pairs(Request(Common \cup {"garbage", "empty"}, BOOLEAN))
       [] server_ = "driver" -> Pairs(Request(Common \cup {"zero", "oversize", "half", "malformed"}, {TRUE}))
       [] OTHER -> Pairs(Request(Common \cup {"nonsense"}, {TRUE}))]
-----------------------------------------------------------------------------
Path == [text |-> "/a?q=?", host |-> "", port |-> 0, path |-> "/a", query |-> "q=?"]
Slash == [text |-> "/", host |-> "", port |-> 0, path |-> "/", query |-> ""]
Proxied == [text |-> "http://u@h.x:81/p?q#f", host |-> "h.x", port |-> 81, path |-> "/p", query |-> "q"]
V6 == [text |-> "http://[1:a]:8/p#?", host |-> "1:a", port |-> 8, path |-> "/p", query |-> ""]

Server == [text |-> "h:1", host |-> "", port |-> 0, path |-> "", query |-> ""]

Methods == {"CHECKOUT", "COPY", "DELETE", "HEAD", "LOCK", "M-SEARCH", "MERGE", "MKACTIVITY",
            "MKCALENDAR", "MKCOL", "MOVE", "NOTIFY", "OPTIONS", "PATCH", "PROPFIND", "PROPPATCH",
            "PURGE", "REPORT", "SEARCH", "SUBSCRIBE", "TRACE", "UNLOCK", "UNSUBSCRIBE"}

Folded == [name |-> "Co", value |-> "v w", text |-> "  v\r\n w"]
Empty == [name |-> "E", value |-> "", text |-> ""]
NearMiss == Header("Connections", "close")
NearValue == Header("Transfer-Encoding", "chunk")
OwnServer == Header("SERVER", "s")

HttpRequest(how, method, target, minor, conn, headers, body, eol) ==
  [how |-> how, code |-> 0, method |-> method, target |-> target, minor |-> minor,
   conn |-> conn, headers |-> headers, body |-> body, eol |-> eol]
HttpResponse(how, status, minor, conn, headers, body, eol) ==
  [how |-> how, code |-> status, minor |-> minor, conn |-> conn, headers |-> headers,
   body |-> body, eol |-> eol]

Get == HttpRequest("none", "GET", Path, 1, "", <<>>, "", "\r\n")
OwnPost == HttpRequest("own", "POST", Path, 1, "keep-alive", <<Header("X", "v")>>, "b0", "\r\n")
Chunked == HttpRequest("chunked", "PUT", Slash, 1, "", <<>>, "0\r\n", "\r\n")
Sized == HttpRequest("length", "MKCOL", Slash, 0, "keep-alive", <<NearMiss>>, "x", "\n")
\* Its head is 23 + n bytes long.
Filler == LET t == Digits \o Digits IN t \o t \o t \o t
Long(n) == HttpRequest("none", "GET", Slash, 1, "", <<Header("L", SubSeq(Filler, 1, n))>>, "", "\r\n")

MCRequestLists ==
  {<<m>> : m \in
     {HttpRequest("own", "POST", Slash, 1, "close", <<Empty>>, "", "\r\n"),
      HttpRequest("none", "M-SEARCH", Proxied, 0, "", <<Folded>>, "", "\n"),
      HttpRequest("length", "PATCH", V6, 1, "close", <<NearValue>>, "bb", "\r\n"),
      Long(77), Long(78),
      HttpRequest("none", "GET", Slash, 1, "", <<Header("Upgrade", "x")>>, "", "\r\n"),
      HttpRequest("none", "PUT", Slash, 1, "", <<Header("Content-Length", "128")>>, "", "\r\n"),
      HttpRequest("none", "CONNECT", Server, 1, "", <<>>, "", "\r\n")}}
    \cup {<<HttpRequest("none", m, Slash, 1, "", <<>>, "", "\r\n")>> : m \in Methods}
    \cup {<<Get, OwnPost>>, <<OwnPost, Get>>, <<Chunked, Get>>, <<Sized, Chunked>>,
          <<HttpRequest("none", "GET", Slash, 0, "", <<>>, "", "\r\n"), Get>>,
          <<Chunked, Long(70)>>}

Ok == HttpResponse("own", 200, 1, "", <<>>, "ok", "\r\n")
Parts == HttpResponse("chunked", 200, 1, "keep-alive", <<>>, "a\nb", "\n")

MCResponseLists ==
  {<<m>> : m \in
     {HttpResponse("none", 200, 0, "", <<Folded>>, "all", "\r\n"),
      HttpResponse("length", 500, 1, "close", <<Empty>>, "", "\r\n"),
      HttpResponse("none", 204, 1, "", <<>>, "", "\n")}}
    \cup {<<Ok, Parts>>, <<Parts, Ok>>,
          <<HttpResponse("own", 404, 1, "", <<OwnServer>>, "", "\r\n"),
            HttpResponse("none", 304, 1, "close", <<NearMiss>>, "", "\r\n")>>}

MCReadSizes == {1, 2, 7}
=============================================================================
