---------------------------- MODULE FibpRpcClient ----------------------------
(***************************************************************************)
(* One FibpRpcClient: the single connection a thread keeps to an RPC host, *)
(* shared by every fiber of the thread that calls that host (FibpClientMgr *)
(* keeps one per host).  Calls are multiplexed by message id: a caller     *)
(* registers a future, sends its request, and waits for the reading fiber  *)
(* to complete the future.  FibpRawClient has the same protocol, except    *)
(* that its reader reads a header and a body in turn, and does not close   *)
(* the socket when it fails.                                               *)
(*                                                                         *)
(* Fibers of a thread interleave only where they yield: at the start and   *)
(* the completion of an asynchronous operation.  An action is what a fiber *)
(* does between two such points, or the completion of an operation (which  *)
(* only makes its fiber ready: others may run before it).                  *)
(***************************************************************************)
EXTENDS Naturals

CONSTANTS Callers,      \* fibers that call the host
          MaxCalls,     \* bound on the number of calls, all callers together
          IdSpace       \* number of message ids: 2^32 in the code (uint32_t)

ASSUME CallsAssumption == MaxCalls \in Nat
\* The ids do not wrap while the client lives.
ASSUME IdAssumption == IdSpace \in Nat /\ MaxCalls < IdSpace

VARIABLES
  proto,       \* rpc (FibpRpcClient) or raw (FibpRawClient)
  pc,          \* where each caller is in send_request / get_response
  op,          \* each caller's connect or write operation
  calls,       \* history: number of calls made so far
  call,        \* history: the number of each caller's last call
  mid,         \* the message id of each caller's last call
  fid,         \* fid_: the last message id given out
  futures,     \* domain of future_list_
  res,         \* the futures, by id: none (not done) or how they were completed
  ans,         \* history: the call whose answer was stored in a future
  sock,        \* socket_: closed, opening (connect in progress), open, or dead
               \* (open here, but the peer has closed or reset the connection)
  connecting,  \* connecting_
  wire,        \* requests on this connection that the server has not answered
  rd,          \* reading_fiber_: none if null, else the state of its read
  msgs,        \* the answers that a read has completed
  head,        \* the answer, if any, of which the reader has the beginning: what is
               \* left in rpc_pac_, or the header of the raw client
  step,        \* in: the next byte is the rest of head or begins an answer; or out
  torn,        \* history: a connection was opened while the reader had a beginning
  out,         \* what each caller's last call returned
  got          \* history: the call whose answer it returned

vars == <<proto, pc, op, calls, call, mid, fid, futures, res, ans, sock, connecting,
          wire, rd, msgs, head, step, torn, out, got>>
stream == <<head, step, torn>>

Ids == 0 .. (IdSpace - 1)
Requests == [id: Ids, call: 1..MaxCalls]
\* A torn answer begins on one connection and ends on another: no call's.
Answers == [id: Ids, call: 0..MaxCalls, kind: {"ok", "apperr", "torn"}]

Types ==
  /\ proto \in {"rpc", "raw"}
  /\ pc \in [Callers -> {"idle", "yield", "connect", "write", "wait"}]
  /\ op \in [Callers -> {"none", "pending", "ok", "err"}]
  /\ calls \in 0..MaxCalls
  /\ call \in [Callers -> 0..MaxCalls]
  /\ mid \in [Callers -> Ids]
  /\ fid \in Ids
  /\ futures \in SUBSET Ids
  /\ res \in [Ids -> {"none", "ok", "apperr", "torn", "connerr"}]
  /\ ans \in [Ids -> 0..MaxCalls]
  /\ sock \in {"closed", "opening", "open", "dead"}
  /\ wire \in SUBSET Requests
  /\ rd \in {"none", "start", "reading", "data", "fail"}
  /\ msgs \in SUBSET Answers
  /\ head \in SUBSET Ids
  /\ step \in {"in", "out"}
  /\ torn \in {"no", "yes"}
  /\ out \in [Callers -> {"pending", "ok", "apperr", "torn", "connerr", "timeout", "sendfail"}]
  /\ got \in [Callers -> 0..MaxCalls]

TypeOK == Types /\ connecting \in BOOLEAN

Init ==
  /\ proto \in {"rpc", "raw"}
  /\ pc = [c \in Callers |-> "idle"]
  /\ op = [c \in Callers |-> "none"]
  /\ calls = 0
  /\ call = [c \in Callers |-> 0]
  /\ mid = [c \in Callers |-> 0]
  /\ fid = 0
  /\ futures = {}
  /\ res = [i \in Ids |-> "none"]
  /\ ans = [i \in Ids |-> 0]
  /\ sock = "closed"
  /\ connecting = FALSE
  /\ wire = {}
  /\ rd = "none"
  /\ msgs = {}
  /\ head = {}
  /\ step = "in"
  /\ torn = "no"
  /\ out = [c \in Callers |-> "pending"]
  /\ got = [c \in Callers |-> 0]
-----------------------------------------------------------------------------
(* The session: ClientSession::send_data, async_connect, async_write.      *)

\* What closing the socket does to the operations pending on it.
AbortOps(o) == [c \in Callers |-> IF o[c] = "pending" THEN "err" ELSE o[c]]
ReadAborted == IF rd = "reading" THEN "fail" ELSE rd

\* Mutant of EnterSend: connecting_ is not looked at.
EnterSendUnguarded(c) ==
  \/ /\ sock = "closed"
     /\ pc' = [pc EXCEPT ![c] = "connect"]
     /\ op' = [op EXCEPT ![c] = "pending"]
     /\ sock' = "opening"
     /\ connecting' = TRUE
     /\ UNCHANGED torn
  \/ /\ sock # "closed"
     /\ pc' = [pc EXCEPT ![c] = "write"]
     /\ op' = [op EXCEPT ![c] = "pending"]
     /\ UNCHANGED <<sock, connecting, torn>>

\* The rest of send_data once no connect is in progress: connect if the socket
\* is closed, else write.  A name that does not resolve leaves the error code
\* clear, and the write then fails on the closed socket.
EnterSend(c) ==
  \/ /\ connecting
     /\ pc' = [pc EXCEPT ![c] = "yield"]
     /\ UNCHANGED <<op, sock, connecting, torn>>
  \/ /\ ~connecting
     /\ sock = "closed"
     /\ pc' = [pc EXCEPT ![c] = "connect"]
     /\ op' = [op EXCEPT ![c] = "pending"]
     /\ sock' = "opening"
     /\ connecting' = TRUE
     /\ torn' = IF head = {} THEN torn ELSE "yes"
  \/ /\ ~connecting
     /\ sock = "closed"
     /\ pc' = [pc EXCEPT ![c] = "write"]
     /\ op' = [op EXCEPT ![c] = "err"]
     /\ UNCHANGED <<sock, connecting, torn>>
  \/ /\ ~connecting
     /\ sock # "closed"
     /\ pc' = [pc EXCEPT ![c] = "write"]
     /\ op' = [op EXCEPT ![c] = "pending"]
     /\ UNCHANGED <<sock, connecting, torn>>

\* Mutant of NextId: an id of one bit.
NextIdNarrow == (fid + 1) % 2

\* uint32_t msgid = ++fid_
NextId == IF fid + 1 = IdSpace THEN 0 ELSE fid + 1

\* send_request up to its first yield: the future is registered before the
\* request is sent.
SendRequest(c) ==
  /\ pc[c] = "idle"
  /\ calls < MaxCalls
  /\ calls' = calls + 1
  /\ call' = [call EXCEPT ![c] = calls + 1]
  /\ fid' = NextId
  /\ mid' = [mid EXCEPT ![c] = NextId]
  /\ futures' = futures \cup {NextId}
  /\ res' = [res EXCEPT ![NextId] = "none"]
  /\ ans' = [ans EXCEPT ![NextId] = 0]
  /\ out' = [out EXCEPT ![c] = "pending"]
  /\ got' = [got EXCEPT ![c] = 0]
  /\ EnterSend(c)
  /\ UNCHANGED <<proto, wire, rd, msgs, head, step>>

\* while (connecting_) yield: a fiber that finds the flag still set goes round.
LeaveYield(c) ==
  /\ pc[c] = "yield"
  /\ ~connecting
  /\ EnterSend(c)
  /\ UNCHANGED <<proto, calls, call, mid, fid, futures, res, ans, wire, rd, msgs, head, step,
                 out, got>>

\* The connect operation ends; its fiber has not run yet.
ConnectEnds(c) ==
  /\ pc[c] = "connect"
  /\ op[c] = "pending"
  /\ \/ op' = [op EXCEPT ![c] = "ok"] /\ sock' = "open"
     \/ op' = [op EXCEPT ![c] = "err"] /\ UNCHANGED sock
  /\ UNCHANGED <<proto, pc, calls, call, mid, fid, futures, res, ans, connecting, wire,
                 rd, msgs, stream, out, got>>

\* check_deadline of the connect, which may also find the connect just ended.
ConnectDeadline(c) ==
  /\ pc[c] = "connect"
  /\ sock # "closed"
  /\ sock' = "closed"
  /\ op' = AbortOps(op)
  /\ rd' = ReadAborted
  /\ wire' = {}
  /\ UNCHANGED <<proto, pc, calls, call, mid, fid, futures, res, ans, connecting, msgs,
                 stream, out, got>>

\* Mutant of EndConnecting: the early return on an error leaves the flag set.
EndConnectingOnSuccess(c) == connecting' = (op[c] # "ok")

\* connecting_ = false, when async_connect has returned.
EndConnecting(c) == connecting' = FALSE

\* The end of async_connect.  It shuts the session down unless the socket is
\* connected, and returns the operation's error code: with no error on a socket
\* that was closed meanwhile, send_data goes on to a write that must fail.
AfterConnect(c) ==
  /\ pc[c] = "connect"
  /\ op[c] # "pending"
  /\ EndConnecting(c)
  /\ \/ /\ op[c] = "ok"
        /\ pc' = [pc EXCEPT ![c] = "write"]
        /\ op' = [op EXCEPT ![c] = IF sock = "closed" THEN "err" ELSE "pending"]
        /\ UNCHANGED <<sock, futures, rd, wire, out>>
     \/ /\ op[c] = "err"
        /\ pc' = [pc EXCEPT ![c] = "idle"]
        /\ op' = [AbortOps(op) EXCEPT ![c] = "none"]
        /\ sock' = "closed"
        /\ rd' = ReadAborted
        /\ wire' = {}
        /\ futures' = futures \ {mid[c]}
        /\ out' = [out EXCEPT ![c] = "sendfail"]
  /\ UNCHANGED <<proto, calls, call, mid, fid, res, ans, msgs, stream, got>>

\* The write operation ends: the request is on the wire, or it is not.  A write
\* to a peer that is gone may still seem to succeed.
WriteEnds(c) ==
  /\ pc[c] = "write"
  /\ op[c] = "pending"
  /\ \/ /\ op' = [op EXCEPT ![c] = "ok"]
        /\ wire' = IF sock = "open"
                   THEN wire \cup {[id |-> mid[c], call |-> call[c]]} ELSE wire
     \/ /\ op' = [op EXCEPT ![c] = "err"]
        /\ UNCHANGED wire
  /\ UNCHANGED <<proto, pc, calls, call, mid, fid, futures, res, ans, sock, connecting,
                 rd, msgs, stream, out, got>>

\* Mutant of EnsureReader: the reader is started with the first call only.
EnsureReaderOnce == rd' = IF rd = "none" /\ calls = 1 THEN "start" ELSE rd

\* if (!reading_fiber_) start one.
EnsureReader == rd' = IF rd = "none" THEN "start" ELSE rd

\* The end of async_write and of send_request.  A failed write closes the
\* session unless a connect is in progress; a successful one starts the reader
\* if there is none.
AfterWrite(c) ==
  /\ pc[c] = "write"
  /\ \/ /\ op[c] = "ok"
        /\ pc' = [pc EXCEPT ![c] = "wait"]
        /\ op' = [op EXCEPT ![c] = "none"]
        /\ EnsureReader
        /\ UNCHANGED <<futures, sock, wire, out>>
     \/ /\ op[c] = "err"
        /\ pc' = [pc EXCEPT ![c] = "idle"]
        /\ futures' = futures \ {mid[c]}
        /\ out' = [out EXCEPT ![c] = "sendfail"]
        /\ IF connecting
           THEN /\ op' = [op EXCEPT ![c] = "none"]
                /\ UNCHANGED <<sock, rd, wire>>
           ELSE /\ op' = [AbortOps(op) EXCEPT ![c] = "none"]
                /\ sock' = "closed"
                /\ rd' = ReadAborted
                /\ wire' = {}
  /\ UNCHANGED <<proto, calls, call, mid, fid, res, ans, connecting, msgs, stream, got>>
-----------------------------------------------------------------------------
(* The future: FibpClientFuture::getRsp.                                   *)

\* The wait ends because the future is done.
GetRsp(c) ==
  /\ pc[c] = "wait"
  /\ res[mid[c]] # "none"
  /\ pc' = [pc EXCEPT ![c] = "idle"]
  /\ out' = [out EXCEPT ![c] = res[mid[c]]]
  /\ got' = [got EXCEPT ![c] = ans[mid[c]]]
  /\ UNCHANGED <<proto, op, calls, call, mid, fid, futures, res, ans, sock, connecting,
                 wire, rd, msgs, stream>>

\* The wait ends on the timer and the future is not done: the caller leaves it
\* in future_list_.
Timeout(c) ==
  /\ pc[c] = "wait"
  /\ res[mid[c]] = "none"
  /\ pc' = [pc EXCEPT ![c] = "idle"]
  /\ out' = [out EXCEPT ![c] = "timeout"]
  /\ UNCHANGED <<proto, op, calls, call, mid, fid, futures, res, ans, sock, connecting,
                 wire, rd, msgs, stream, got>>
-----------------------------------------------------------------------------
(* The reading fiber: handle_read, set_response, set_all_error.            *)

\* async_read_some on the socket as it is now.  On a closed socket it fails; on
\* one whose connect is in progress the system may refuse it or let it wait.
ReadSome ==
  \/ sock # "closed" /\ rd' = "reading"
  \/ sock \in {"closed", "opening"} /\ rd' = "fail"

\* The reading fiber runs for the first time.
ReadStart ==
  /\ rd = "start"
  /\ ReadSome
  /\ UNCHANGED <<proto, pc, op, calls, call, mid, fid, futures, res, ans, sock,
                 connecting, wire, msgs, stream, out, got>>

\* The bytes that come are the rest of what the reader has.
InStep == step = "in" /\ \A i \in head : \E m \in wire : m.id = i

IdsOf(M) == {m.id : m \in M}

\* One async_read_some: the rest of head comes first, then whole answers, then the
\* beginning H of another one; or head is not complete yet.
RpcReads(S, H) ==
  /\ S # {} \/ H # {}
  /\ head \subseteq IdsOf(S) \/ (S = {} /\ H = head)

\* A header or, when there is one, its body.
RawReads(S, H) ==
  \/ head = {} /\ S = {} /\ H # {}
  \/ head # {} /\ IdsOf(S) = head /\ H = {}

\* The read completes with answers S of the server, in any order it chooses; those in
\* G without an error.
DataArrives ==
  /\ rd = "reading"
  /\ sock = "open"
  /\ InStep
  /\ \E S \in SUBSET wire, G \in SUBSET wire :
       /\ \E H \in SUBSET IdsOf(wire \ S) :
            /\ \A i, j \in H : i = j
            /\ IF proto = "rpc" THEN RpcReads(S, H) ELSE RawReads(S, H)
            /\ head' = H
       /\ msgs' = {[id |-> m.id, call |-> m.call,
                    kind |-> IF m \in G \/ proto = "raw" THEN "ok" ELSE "apperr"] : m \in S}
       /\ wire' = wire \ S
  /\ rd' = "data"
  /\ UNCHANGED <<proto, pc, op, calls, call, mid, fid, futures, res, ans, sock,
                 connecting, step, torn, out, got>>

\* The reader has gone on over another connection than the one on which its head
\* began: what comes is taken for the rest of it, whatever it is, and where the next
\* answer is thought to begin depends on its length.
TornDataArrives ==
  /\ rd = "reading"
  /\ sock = "open"
  /\ ~InStep
  /\ wire # {}
  /\ \E S \in SUBSET wire : wire' = wire \ S
  /\ \/ msgs' = {} /\ UNCHANGED <<head, step>>
     \/ /\ \E i \in (IF step = "in" THEN head ELSE Ids) :
             msgs' = {[id |-> i, call |-> 0, kind |-> "torn"]}
        /\ head' = {}
        /\ step' \in {"in", "out"}
  /\ rd' = "data"
  /\ UNCHANGED <<proto, pc, op, calls, call, mid, fid, futures, res, ans, sock,
                 connecting, torn, out, got>>

\* The peer closes or resets the connection; its answers are lost.
PeerCloses ==
  /\ sock = "open"
  /\ sock' = "dead"
  /\ wire' = {}
  /\ UNCHANGED <<proto, pc, op, calls, call, mid, fid, futures, res, ans, connecting,
                 rd, msgs, stream, out, got>>

\* The read completes with an error.
ReadFails ==
  /\ rd = "reading"
  /\ sock = "dead"
  /\ rd' = "fail"
  /\ UNCHANGED <<proto, pc, op, calls, call, mid, fid, futures, res, ans, sock,
                 connecting, wire, msgs, stream, out, got>>

\* set_response for each message of M: it completes the future with that id, if
\* one is registered, and erases it.
Answer(M, i) == CHOOSE m \in M : m.id = i
Answered(M) == {m.id : m \in M} \cap futures
ResAfter(M) ==
  [i \in Ids |-> IF i \notin Answered(M) THEN res[i] ELSE Answer(M, i).kind]
AnsAfter(M) ==
  [i \in Ids |-> IF i \notin Answered(M) THEN ans[i] ELSE Answer(M, i).call]
\* Mutant of FuturesAfter: a completed future is not erased.
FuturesAfterKept(M) == futures
FuturesAfter(M) == futures \ Answered(M)

\* The reading fiber handles what it has read, and reads again.
HandleData ==
  /\ rd = "data"
  /\ res' = ResAfter(msgs)
  /\ ans' = AnsAfter(msgs)
  /\ futures' = FuturesAfter(msgs)
  /\ msgs' = {}
  /\ ReadSome
  /\ UNCHANGED <<proto, pc, op, calls, call, mid, fid, sock, connecting, wire, stream, out, got>>

\* Mutant of FailShutdown: the connection stays open.
FailShutdownNone == UNCHANGED <<sock, op, wire>>

\* set_all_error: complete every future still registered with an error after
\* which the call may be retried.
AllError(M) ==
  res' = [i \in Ids |-> IF i \in FuturesAfter(M) THEN "connerr" ELSE ResAfter(M)[i]]

\* The session is closed when the reader of a FibpRpcClient fails.
FailShutdown ==
  IF proto = "rpc"
  THEN /\ sock' = "closed"
       /\ op' = AbortOps(op)
       /\ wire' = {}
  ELSE UNCHANGED <<sock, op, wire>>

\* rpc_fail after the messages of M were handled: close the session, fail every
\* future still registered (it may be retried), and end.  No other fiber runs
\* between these.
RpcFail(M) ==
  /\ AllError(M)
  /\ ans' = AnsAfter(M)
  /\ futures' = {}
  /\ msgs' = {}
  /\ rd' = "none"
  /\ FailShutdown
  /\ head' = {}
  /\ step' = "in"
  /\ UNCHANGED <<proto, pc, calls, call, mid, fid, connecting, torn, out, got>>

\* The read failed.
ReadEnds == rd = "fail" /\ RpcFail({})

\* After the answers in M comes a message that does not unpack, or is too large.
HandleGarbage ==
  /\ proto = "rpc"
  /\ rd = "data"
  /\ \E M \in SUBSET msgs : RpcFail(M)
-----------------------------------------------------------------------------
CallerStep(c) ==
  \/ SendRequest(c) \/ LeaveYield(c) \/ AfterConnect(c) \/ AfterWrite(c)
  \/ GetRsp(c) \/ Timeout(c)

Network ==
  \/ \E c \in Callers : ConnectEnds(c) \/ ConnectDeadline(c) \/ WriteEnds(c)
  \/ DataArrives \/ TornDataArrives \/ PeerCloses \/ ReadFails

ReaderStep == ReadStart \/ HandleData \/ HandleGarbage \/ ReadEnds

Next == (\E c \in Callers : CallerStep(c)) \/ Network \/ ReaderStep

Spec == Init /\ [][Next]_vars

\* A fiber that is ready runs (round robin), a timer fires, and a connect ends
\* (by the session's deadline or by the kernel's).  Nothing bounds a write, and
\* callers, peer and server owe nothing.
Fairness ==
  /\ \A c \in Callers :
       /\ WF_vars(LeaveYield(c))
       /\ WF_vars(AfterConnect(c))
       /\ WF_vars(AfterWrite(c))
       /\ WF_vars(GetRsp(c))
       /\ WF_vars(Timeout(c))
       /\ WF_vars(ConnectEnds(c))
  /\ WF_vars(ReaderStep)

FairSpec == Spec /\ Fairness
-----------------------------------------------------------------------------
\* At most one fiber is inside async_connect, and connecting_ is set exactly
\* then: the flag is tested and set with no yield between (send_data).
SingleConnect ==
  /\ connecting <=> \E c \in Callers : pc[c] = "connect"
  /\ \A c, d \in Callers : pc[c] = "connect" /\ pc[d] = "connect" => c = d

\* A caller never waits for a future nobody will complete: while its future is
\* not done it is registered and a reading fiber exists, whatever closes,
\* reconnects and reader exits came between the registration and the wait.
NoOrphanFuture ==
  \A c \in Callers :
    pc[c] = "wait" /\ res[mid[c]] = "none" => mid[c] \in futures /\ rd # "none"

\* An answer is only ever returned to the call it answers: in particular the
\* late answer to a call that timed out never reaches the caller's next call.  One
\* that is put together from the bytes of two connections is returned only if the
\* second was opened while the reader had the beginning of an answer: a failed write
\* closes the session under a reader that is ready, and the next call connects.
OwnAnswer ==
  \A c \in Callers :
    /\ out[c] \in {"ok", "apperr"} => got[c] = call[c]
    /\ out[c] = "torn" => torn = "yes"

\* An open RPC connection that no call is using has a reader, so that its being
\* closed by the peer is noticed (handle_read closes the session) before the
\* next call writes to it.  FibpRawClient does not promise this.
IdleConnectionWatched ==
  proto = "rpc" /\ sock # "closed" /\ (\A c \in Callers : pc[c] \notin {"connect", "write"})
    => rd # "none"

\* The only place where a call can stay for ever is the write, which has no
\* deadline: a yield, a connect and a wait all end.
OnlyWriteBlocks ==
  \A c \in Callers : pc[c] \in {"yield", "connect", "wait"} ~> pc[c] \in {"idle", "write"}

\* The client keeps the promise of ServiceCall: each call returns once, with its
\* own answer, with an error, or with a torn answer (when, OwnAnswer says); never
\* with the answer to another call.
Outcome(o) ==
  CASE o = "pending" -> "none"
    [] o \in {"ok", "apperr"} -> "answer"
    [] o = "torn" -> "garbled"
    [] OTHER -> "error"

Promise == INSTANCE ServiceCall WITH
  busy <- {c \in Callers : pc[c] # "idle"}, made <- calls, asked <- call,
  outcome <- [c \in Callers |-> Outcome(out[c])], answer <- got

ImplementsServiceCall == Promise!SCSpec
-----------------------------------------------------------------------------
(* The inductive invariant behind SingleConnect, NoOrphanFuture, OwnAnswer *)
(* and IdleConnectionWatched.                                              *)

\* Message ids are call numbers: no two calls share one.
IdsAreCalls ==
  /\ fid = calls
  /\ \A c \in Callers : mid[c] = call[c] /\ call[c] <= calls
  /\ \A c \in Callers : pc[c] # "idle" => call[c] # 0
  /\ \A c, d \in Callers : call[c] # 0 /\ call[c] = call[d] => c = d

\* Answers, on their way or stored, are for the call that has their id.
AnswersMatch ==
  /\ \A m \in wire : m.id = m.call
  /\ \A m \in msgs : IF m.kind = "torn" THEN m.call = 0 ELSE m.id = m.call
  /\ \A i \in Ids : res[i] \in {"ok", "apperr"} => ans[i] = i

\* As long as no connection was opened under a beginning, nothing is out of step.
Untorn ==
  torn = "no" =>
    /\ step = "in"
    /\ sock \in {"opening", "open"} => InStep
    /\ \A m \in msgs : m.kind # "torn"
    /\ \A i \in Ids : res[i] # "torn"

\* A connect that has not ended has its socket.
ConnectOpens ==
  \A c \in Callers : pc[c] = "connect" /\ op[c] = "pending" => sock = "opening"

\* The future of a call in progress stays registered until it is done.
Registered ==
  \A c \in Callers : pc[c] # "idle" /\ res[mid[c]] = "none" => mid[c] \in futures

IInv ==
  /\ TypeOK
  /\ SingleConnect
  /\ IdsAreCalls
  /\ AnswersMatch
  /\ Untorn
  /\ ConnectOpens
  /\ Registered
  /\ NoOrphanFuture
  /\ OwnAnswer
  /\ IdleConnectionWatched

\* What ServiceCall needs besides: an answer is stored only with a future that
\* was answered, and returned only at the end of the call.
NoAnswerYet ==
  /\ \A i \in futures : res[i] = "none"
  /\ \A i \in Ids : res[i] \in {"none", "torn", "connerr"} => ans[i] = 0
  /\ \A c \in Callers : pc[c] # "idle" => got[c] = 0
=============================================================================
