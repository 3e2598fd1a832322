---------------------------- MODULE HttpParserUrl ----------------------------
(***************************************************************************)
(* The character classes of http_parser.cpp in its strict mode (the one it  *)
(* is built in) and its URL parser: parse_url_char, which the request line  *)
(* shares, and http_parser_parse_url, which request::parser_impl calls on   *)
(* the whole URL.  A character is a string of length one.                   *)
(***************************************************************************)
EXTENDS Naturals, Sequences

CONSTANT MaxPort   \* 0xffff

Chars(s) == {SubSeq(s, i, i) : i \in 1..Len(s)}
CharAt(s, i) == SubSeq(s, i, i)
\* op(...op(op(base, 1), 2)..., n): a loop over offsets.
Loop(op(_, _), base, n) ==
  LET f[i \in 0..n] == IF i = 0 THEN base ELSE op(f[i - 1], i) IN f[n]

IndexIn(s, c) == CHOOSE i \in 1..Len(s) : CharAt(s, i) = c

CR == "\r"
LF == "\n"
Lowers == "abcdefghijklmnopqrstuvwxyz"
Uppers == "ABCDEFGHIJKLMNOPQRSTUVWXYZ"
Digits == "0123456789"

\* LOWER, on the characters that occur.
LowerOf == [c \in Chars(Uppers) |-> CharAt(Lowers, IndexIn(Uppers, c))]
LOWER(c) == IF c \in DOMAIN LowerOf THEN LowerOf[c] ELSE c

IsAlpha(c) == LOWER(c) \in Chars(Lowers)
IsNum(c) == c \in Chars(Digits)
DigitOf == [c \in Chars(Digits) |-> IndexIn(Digits, c) - 1]
IsUserinfoChar(c) ==
  IsAlpha(c) \/ IsNum(c) \/ c \in Chars("-_.!~*'()") \/ c \in Chars("%;:&=+$,")
IsHostChar(c) == IsAlpha(c) \/ IsNum(c) \/ c \in {".", "-"}

\* normal_url_char
IsUrlChar(c) == c \notin {" ", "\t", "\f", CR, LF, "#", "?"}

\* unhex: 16 stands for -1.
HexOf(c) ==
  IF IsNum(c) THEN DigitOf[c]
  ELSE IF LOWER(c) \in Chars("abcdef") THEN 9 + IndexIn(Lowers, LOWER(c)) ELSE 16

\* tokens: "" stands for 0.
Separators == Chars("()<>@,;:\"/[]?={} \t\\") \cup {CR, LF, "\f"}
TOKEN(c) == IF c \in Separators THEN "" ELSE LOWER(c)
-----------------------------------------------------------------------------
InServer == {"s_req_server_start", "s_req_server", "s_req_server_with_at"}
InQuery == {"s_req_query_string_start", "s_req_query_string"}

parse_url_char(s, c) ==
  CASE c \in {" ", CR, LF, "\t", "\f"} -> "s_dead"
    [] s = "s_req_spaces_before_url" /\ c \in {"/", "*"} -> "s_req_path"
    [] s \in {"s_req_spaces_before_url", "s_req_schema"} /\ IsAlpha(c) -> "s_req_schema"
    [] s = "s_req_schema" /\ c = ":" -> "s_req_schema_slash"
    [] s = "s_req_schema_slash" /\ c = "/" -> "s_req_schema_slash_slash"
    [] s = "s_req_schema_slash_slash" /\ c = "/" -> "s_req_server_start"
    [] s = "s_req_server_with_at" /\ c = "@" -> "s_dead"
    [] s \in InServer /\ c = "/" -> "s_req_path"
    [] s \in InServer /\ c = "?" -> "s_req_query_string_start"
    [] s \in InServer /\ c = "@" -> "s_req_server_with_at"
    [] s \in InServer /\ (IsUserinfoChar(c) \/ c \in {"[", "]"}) -> "s_req_server"
    [] s = "s_req_path" /\ IsUrlChar(c) -> s
    [] s = "s_req_path" /\ c = "?" -> "s_req_query_string_start"
    [] s \in InQuery /\ (IsUrlChar(c) \/ c = "?") -> "s_req_query_string"
    [] s \in {"s_req_path"} \cup InQuery /\ c = "#" -> "s_req_fragment_start"
    [] s = "s_req_fragment_start" /\ c = "#" -> s
    [] s \in {"s_req_fragment_start", "s_req_fragment"} /\
         (IsUrlChar(c) \/ c \in {"?", "#"}) -> "s_req_fragment"
    [] OTHER -> "s_dead"
-----------------------------------------------------------------------------
(* http_parser_url: the fields that are set, their offset and length, and   *)
(* the port.                                                                *)

http_parse_host_char(s, c) ==
  CASE s \in {"userinfo", "userinfo_start"} /\ c = "@" -> "host_start"
    [] s \in {"userinfo", "userinfo_start"} /\ IsUserinfoChar(c) -> "userinfo"
    [] s = "host_start" /\ c = "[" -> "host_v6_start"
    [] s \in {"host_start", "host"} /\ IsHostChar(c) -> "host"
    [] s \in {"host", "host_v6_end"} /\ c = ":" -> "port_start"
    [] s = "host_v6" /\ c = "]" -> "host_v6_end"
    [] s \in {"host_v6", "host_v6_start"} /\ (HexOf(c) < 16 \/ c \in {":", "."}) -> "host_v6"
    [] s \in {"port", "port_start"} /\ IsNum(c) -> "port"
    [] OTHER -> "dead"

\* A field begins at i, or goes on.
Grow(u, f, i, begins) ==
  IF begins THEN [u EXCEPT !.off[f] = i, !.len[f] = 1] ELSE [u EXCEPT !.len[f] = @ + 1]

\* One step of the loop of http_parse_host, at offset i, to state s.
HostStep(a, i, s) ==
  LET begins == s # a.s
      \* the host's length was set to 0 before the loop
      host == [a.u EXCEPT !.off["HOST"] = IF begins THEN i ELSE @, !.len["HOST"] = @ + 1]
  IN [s |-> s,
      u |-> CASE s \in {"host", "host_v6"} -> host
              [] s = "port" -> [Grow(a.u, "PORT", i, begins) EXCEPT !.set = @ \cup {"PORT"}]
              [] s = "userinfo" ->
                   [Grow(a.u, "USERINFO", i, begins) EXCEPT !.set = @ \cup {"USERINFO"}]
              [] OTHER -> a.u]

HostEnd(a) ==
  [u |-> a.u,
   ok |-> a.s \notin {"dead", "host_start", "host_v6_start", "host_v6", "port_start",
                      "userinfo", "userinfo_start"}]

http_parse_host(buf, u, found_at) ==
  LET a0 == [s |-> IF found_at THEN "userinfo_start" ELSE "host_start",
             u |-> [u EXCEPT !.len["HOST"] = 0]]
      step(a, i) == HostStep(a, i, http_parse_host_char(a.s, CharAt(buf, i)))
  IN HostEnd(Loop(LAMBDA a, k : step(a, u.off["HOST"] + k - 1), a0, u.len["HOST"]))

UrlField(s) ==
  CASE s = "s_req_schema" -> "SCHEMA"
    [] s \in {"s_req_server_with_at", "s_req_server"} -> "HOST"
    [] s = "s_req_path" -> "PATH"
    [] s = "s_req_query_string" -> "QUERY"
    [] s = "s_req_fragment" -> "FRAGMENT"
    [] OTHER -> "none"   \* a delimiter, or s_dead

\* One step of the loop of http_parser_parse_url, at offset i, to state s.
UrlStep(a, i, s) ==
  LET uf == UrlField(s)
  IN IF a.s = "s_dead" \/ uf = "none" THEN [a EXCEPT !.s = s]
     ELSE [s |-> s,
           old |-> uf,
           at |-> a.at \/ s = "s_req_server_with_at",
           u |-> [Grow(a.u, uf, i, uf # a.old) EXCEPT !.set = @ \cup {uf}]]

UrlFields == {"SCHEMA", "HOST", "PORT", "PATH", "QUERY", "FRAGMENT", "USERINFO"}
NoUrl == [set |-> {}, port |-> 0, off |-> [f \in UrlFields |-> 1], len |-> [f \in UrlFields |-> 0]]

FieldText(buf, u, f) == SubSeq(buf, u.off[f], u.off[f] + u.len[f] - 1)
Number(s) == Loop(LAMBDA n, i : 10 * n + DigitOf[CharAt(s, i)], 0, Len(s))

\* The port, once the host has been taken apart.
UrlPort(buf, host) ==
  LET port == IF "PORT" \in host.u.set THEN Number(FieldText(buf, host.u, "PORT")) ELSE 0
  IN IF ~host.ok \/ port > MaxPort THEN host.u ELSE [host.u EXCEPT !.port = port]

UrlEnd(buf, a) ==
  IF a.s = "s_dead" \/ a.u.set \cap {"SCHEMA", "HOST"} = {} THEN a.u
  ELSE UrlPort(buf, http_parse_host(buf, a.u, a.at))

\* With is_connect = 0, as its only caller has it.  The result is ignored there;
\* what has been found up to an error is used.
http_parser_parse_url(buf) ==
  LET a0 == [s |-> "s_req_spaces_before_url", old |-> "none", at |-> FALSE, u |-> NoUrl]
      step(a, i) == UrlStep(a, i, parse_url_char(a.s, CharAt(buf, i)))
  IN UrlEnd(buf, Loop(step, a0, Len(buf)))
=============================================================================
