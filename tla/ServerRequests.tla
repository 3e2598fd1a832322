--------------------------- MODULE ServerRequests ---------------------------
(***************************************************************************)
(* What the HTTP connection, the driver connection and the RPC server have *)
(* in common: a client that sends requests and may close or vanish, the    *)
(* controllers that handle them, and the answers.                          *)
(*                                                                         *)
(* A request is its kind and whether the connection is to be kept.  Kinds  *)
(* that every server knows: "unknown" (no handler), "throws" (the handler  *)
(* throws), "alive" (check_alive), "bad" (the service calls cannot be      *)
(* parsed) and "call" (services are called, in a fiber of its own, after   *)
(* which the controller answers).  A write may be in several pieces: it    *)
(* has a beginning and an end.                                             *)
(***************************************************************************)
EXTENDS Naturals, Sequences, FiniteSets

CONSTANTS Scripts     \* for each server the sequences of requests that clients send

Indices == 1..2       \* requests of a script; 0 stands for none

VARIABLES
  server,    \* http, driver or rpc
  patient,   \* the client waits for its answer before it sends on, or closes
  script,    \* its requests
  sent,      \* number that are sent
  client,    \* open, closed (it still reads), gone
  taken,     \* requests that the server has taken up
  reader,    \* the fiber that reads: read, write, over
  task,      \* the service calls of each request: none, calling, writing, over
  writer,    \* who is writing the answer: none, reader, task
  code,      \* the answer
  out,       \* answers that the client gets, in order
  mixed,     \* history: two answers were written at the same time to a client
  shut,      \* the receiving side is shut down
  parser,    \* req_parser_, with the handlers that hold the connection
  log        \* log of each request's service calls: none, open, ended

peer == <<sent, client>>
given == <<server, patient, script>>
answers == <<writer, code, mixed>>
requests == <<given, peer, taken, reader, task, answers, out, shut, parser, log>>

Kind(i) == script[i].kind
Keep(i) == script[i].keep
Answered(i) == \E k \in 1..Len(out) : out[k][1] = i

RequestsInit ==
  /\ server \in DOMAIN Scripts /\ script \in Scripts[server] /\ patient \in BOOLEAN
  /\ sent = 0 /\ client = "open" /\ taken = {} /\ reader = "read"
  /\ task = [i \in Indices |-> "none"]
  /\ writer = [i \in Indices \cup {0} |-> "none"]
  /\ code = [i \in Indices \cup {0} |-> "none"]
  /\ out = <<>> /\ mixed = FALSE /\ shut = FALSE /\ parser = TRUE
  /\ log = [i \in Indices |-> "none"]
-----------------------------------------------------------------------------
(* The client.                                                             *)

HasAnswers == \A i \in 1..sent : Answered(i)

Sends ==
  /\ client = "open" /\ sent < Len(script)
  /\ patient => HasAnswers
  /\ sent' = sent + 1
  /\ UNCHANGED <<given, client, taken, reader, task, answers, out, shut, parser, log>>

Leaves ==
  /\ \/ client = "open" /\ (patient => HasAnswers) /\ client' = "closed"
     \/ client # "gone" /\ client' = "gone"
  /\ UNCHANGED <<given, sent, taken, reader, task, answers, out, shut, parser, log>>
-----------------------------------------------------------------------------
(* Handling a request.  An action that takes one up says what becomes of   *)
(* the reader; these say the rest.                                         *)

Next_i == Cardinality(taken) + 1
Arrived(i) == i <= sent /\ i \notin taken

BeginWrite(i, w, c) ==
  /\ writer' = [writer EXCEPT ![i] = w]
  /\ code' = [code EXCEPT ![i] = c]
  /\ mixed' = (mixed \/ (client # "gone" /\ \E k \in DOMAIN writer : writer[k] # "none"))

\* parse_single_api_request, parse_api_request: service calls are found in the request.
Parses(i) == Kind(i) = "call"

\* The calls cannot be parsed: the log of the request is open, and stays so.
Refused(i) ==
  /\ log' = [log EXCEPT ![i] = "open"]
  /\ BeginWrite(i, "reader", "ok")
  /\ UNCHANGED task

\* call_services_async, call_single_service_async: the calls go to another fiber.
CallServices(i) ==
  /\ log' = [log EXCEPT ![i] = "open"]
  /\ task' = [task EXCEPT ![i] = "calling"]
  /\ UNCHANGED answers

\* The answer is written by the fiber that reads.
Writes(i, c) ==
  /\ BeginWrite(i, "reader", c)
  /\ UNCHANGED <<task, log>>

\* The services have been called: after_call_services writes the answer.
Called(i) ==
  /\ server # "rpc" /\ task[i] = "calling"
  /\ task' = [task EXCEPT ![i] = "writing"]
  /\ BeginWrite(i, "task", "ok")
  /\ UNCHANGED <<given, peer, taken, reader, out, shut, parser, log>>

\* An answer has left; a client that is gone does not get it.
Delivered(i) ==
  /\ writer' = [writer EXCEPT ![i] = "none"]
  /\ out' = IF client = "gone" THEN out ELSE Append(out, <<i, code[i]>>)
  /\ UNCHANGED <<code, mixed>>


\* endServiceCall, the last step of after_call_services.
Ends(i, ended) ==
  /\ task' = [task EXCEPT ![i] = "over"]
  /\ log' = IF ended THEN [log EXCEPT ![i] = "ended"] ELSE log
=============================================================================
