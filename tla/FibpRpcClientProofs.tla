------------------------- MODULE FibpRpcClientProofs -------------------------
(***************************************************************************)
(* Proofs about FibpRpcClient, for any number of callers and calls, and    *)
(* for both kinds of client.                                               *)
(***************************************************************************)
EXTENDS FibpRpcClient, TLAPS

USE CallsAssumption, IdAssumption DEF stream

\* A session that was never connected satisfies the invariant.
LEMMA InitIInv == Init => IInv
  <1> SUFFICES ASSUME Init PROVE IInv
    OBVIOUS
  <1>0. connecting \in BOOLEAN
    BY DEF Init
  <1>1. Types
    BY DEF Init, Types, Ids
  <1>2. SingleConnect /\ IdsAreCalls /\ Registered /\ NoOrphanFuture
    BY DEF Init, SingleConnect, IdsAreCalls, Registered, NoOrphanFuture
  <1>3. AnswersMatch /\ Untorn /\ ConnectOpens /\ OwnAnswer /\ IdleConnectionWatched
    BY DEF Init, AnswersMatch, Untorn, InStep, ConnectOpens, OwnAnswer, IdleConnectionWatched
  <1>4. QED
    BY <1>0, <1>1, <1>2, <1>3 DEF IInv, TypeOK

\* The next id is a fresh one, because the ids do not wrap.
LEMMA NextIdFresh ==
  ASSUME IInv, calls < MaxCalls
  PROVE  NextId = calls + 1 /\ NextId \in Ids
  BY DEF IInv, TypeOK, Types, IdsAreCalls, NextId, Ids

\* What entering send_data leaves for the rest of the proof.
LEMMA EnterSendTypes ==
  ASSUME Types, SingleConnect, NEW c \in Callers, EnterSend(c),
         pc[c] \in {"idle", "yield"}
  PROVE  /\ pc' \in [Callers -> {"idle", "yield", "connect", "write", "wait"}]
         /\ op' \in [Callers -> {"none", "pending", "ok", "err"}]
         /\ sock' \in {"closed", "opening", "open", "dead"}
         /\ pc'[c] \in {"yield", "connect", "write"}
         /\ \A d \in Callers : d # c => pc'[d] = pc[d]
         /\ SingleConnect'
         /\ pc'[c] = "yield" => connecting
         /\ torn' \in {"no", "yes"}
  <1> USE DEF Types, SingleConnect, EnterSend
  <1>1. CASE connecting
    BY <1>1
  <1>2. CASE ~connecting /\ pc'[c] = "connect"
    BY <1>2
  <1>3. CASE ~connecting /\ pc'[c] = "write"
    BY <1>3
  <1>4. QED
    BY <1>1, <1>2, <1>3

\* A connection that is opened under a beginning is noted.
LEMMA EnterSendUntorn ==
  ASSUME Types, Untorn, NEW c \in Callers, EnterSend(c), UNCHANGED <<head, step, wire, msgs>>,
         \A i \in Ids : res'[i] = "torn" => res[i] = "torn"
  PROVE  Untorn'
  <1> USE DEF Types, Untorn, InStep
  <1>1. CASE sock' = "opening" /\ sock = "closed"
    BY <1>1 DEF EnterSend
  <1>2. CASE sock' = sock /\ torn' = torn
    BY <1>2
  <1>3. QED
    BY <1>1, <1>2 DEF EnterSend

\* connecting stays a flag.
LEMMA EnterSendFlag ==
  ASSUME connecting \in BOOLEAN, NEW c \in Callers, EnterSend(c)
  PROVE  connecting' \in BOOLEAN
  BY DEF EnterSend

\* SendRequest keeps the invariant.
LEMMA SendRequestInv ==
  ASSUME IInv, NEW c \in Callers, SendRequest(c)
  PROVE  IInv'
  <1> USE DEF IInv, TypeOK
  <1>1. calls < MaxCalls /\ pc[c] = "idle" /\ EnterSend(c)
    BY DEF SendRequest
  <1>2. NextId = calls + 1 /\ NextId \in Ids
    BY <1>1, NextIdFresh
  <1>3. Types'
    BY <1>1, <1>2, EnterSendTypes DEF Types, SendRequest
  <1>4. SingleConnect' /\ connecting' \in BOOLEAN
    BY <1>1, EnterSendTypes, EnterSendFlag
  <1>5. IdsAreCalls'
    BY <1>1, <1>2, EnterSendTypes DEF IdsAreCalls, SendRequest, Types
  <1>6. AnswersMatch'
    BY <1>2 DEF AnswersMatch, SendRequest, Types
  <1>7. Registered' /\ NoOrphanFuture'
    BY <1>1, <1>2, EnterSendTypes
    DEF Registered, NoOrphanFuture, IdsAreCalls, SendRequest, Types
  <1>8. OwnAnswer'
    BY DEF OwnAnswer, SendRequest, EnterSend, Types
  <1>9. IdleConnectionWatched'
    BY <1>1, EnterSendTypes
    DEF IdleConnectionWatched, SingleConnect, SendRequest, EnterSend, Types
  <1>10. Untorn'
    <2>1. \A i \in Ids : res'[i] = "torn" => res[i] = "torn"
      BY DEF SendRequest, Types
    <2>2. QED
      BY <1>1, <2>1, EnterSendUntorn DEF SendRequest
  <1>11. ConnectOpens'
    BY DEF ConnectOpens, SingleConnect, SendRequest, EnterSend, Types
  <1>12. QED
    BY <1>3, <1>4, <1>5, <1>6, <1>7, <1>8, <1>9, <1>10, <1>11

\* A caller that leaves its yield keeps it.
LEMMA LeaveYieldInv ==
  ASSUME IInv, NEW c \in Callers, LeaveYield(c)
  PROVE  IInv'
  <1> USE DEF IInv, TypeOK
  <1>1. pc[c] = "yield" /\ EnterSend(c)
    BY DEF LeaveYield
  <1>2. Types'
    BY <1>1, EnterSendTypes DEF Types, LeaveYield
  <1>3. SingleConnect' /\ connecting' \in BOOLEAN
    BY <1>1, EnterSendTypes, EnterSendFlag
  <1>4. IdsAreCalls' /\ AnswersMatch'
    BY <1>1, EnterSendTypes DEF IdsAreCalls, AnswersMatch, LeaveYield, Types
  <1>5. Registered' /\ NoOrphanFuture'
    BY <1>1, EnterSendTypes DEF Registered, NoOrphanFuture, LeaveYield, Types
  <1>6. IdleConnectionWatched'
    BY <1>1, EnterSendTypes
    DEF IdleConnectionWatched, SingleConnect, LeaveYield, EnterSend, Types
  <1>7. Untorn'
    BY <1>1, EnterSendUntorn DEF LeaveYield
  <1>8. OwnAnswer'
    BY DEF OwnAnswer, LeaveYield, EnterSend, Types
  <1>9. ConnectOpens'
    BY DEF ConnectOpens, SingleConnect, LeaveYield, EnterSend, Types
  <1>10. QED
    BY <1>2, <1>3, <1>4, <1>5, <1>6, <1>7, <1>8, <1>9

\* Completions of operations, and the peer: they touch no caller's place, no
\* future and no id.
LEMMA NetworkInv ==
  ASSUME IInv, Network
  PROVE  IInv'
  <1> USE DEF IInv, TypeOK
  <1>1. ASSUME NEW c \in Callers, ConnectEnds(c) PROVE IInv'
    <2>1. Types'
      BY <1>1 DEF Types, ConnectEnds
    <2>2. connecting' \in BOOLEAN
      BY <1>1 DEF ConnectEnds
    <2>3. Untorn'
      BY <1>1 DEF ConnectEnds, ConnectOpens, Untorn, InStep
    <2>4. ConnectOpens'
      BY <1>1 DEF ConnectEnds, ConnectOpens, SingleConnect, Types
    <2>5. QED
      BY <1>1, <2>1, <2>2, <2>3, <2>4
      DEF ConnectEnds, SingleConnect, IdsAreCalls, AnswersMatch, Registered,
          NoOrphanFuture, OwnAnswer, IdleConnectionWatched
  <1>2. ASSUME NEW c \in Callers, ConnectDeadline(c) PROVE IInv'
    <2>1. Types'
      BY <1>2 DEF Types, ConnectDeadline, AbortOps, ReadAborted
    <2>2. connecting' \in BOOLEAN
      BY <1>2 DEF ConnectDeadline
    <2>3. ConnectOpens'
      BY <1>2 DEF ConnectDeadline, ConnectOpens, AbortOps, Types
    <2>4. QED
      BY <1>2, <2>1, <2>2, <2>3
      DEF ConnectDeadline, ReadAborted, SingleConnect, IdsAreCalls, AnswersMatch,
          Registered, NoOrphanFuture, OwnAnswer, IdleConnectionWatched, Untorn
  <1>3. ASSUME NEW c \in Callers, WriteEnds(c) PROVE IInv'
    <2>1. call[c] \in 1..MaxCalls /\ mid[c] = call[c]
      BY <1>3 DEF WriteEnds, IdsAreCalls, Types
    <2>2. Types'
      BY <1>3, <2>1 DEF Types, WriteEnds, Requests
    <2>3. connecting' \in BOOLEAN
      BY <1>3 DEF WriteEnds
    <2>4. AnswersMatch'
      BY <1>3, <2>1 DEF AnswersMatch, WriteEnds
    <2>5. Untorn' /\ ConnectOpens'
      BY <1>3 DEF Untorn, InStep, ConnectOpens, WriteEnds, Types
    <2>6. QED
      BY <1>3, <2>2, <2>3, <2>4, <2>5
      DEF WriteEnds, SingleConnect, IdsAreCalls, Registered, NoOrphanFuture,
          OwnAnswer, IdleConnectionWatched
  <1>4. ASSUME DataArrives PROVE IInv'
    <2>1. PICK S \in SUBSET wire, G \in SUBSET wire :
            /\ \E H \in SUBSET IdsOf(wire \ S) :
                 /\ \A i, j \in H : i = j
                 /\ IF proto = "rpc" THEN RpcReads(S, H) ELSE RawReads(S, H)
                 /\ head' = H
            /\ msgs' = {[id |-> m.id, call |-> m.call,
                         kind |-> IF m \in G \/ proto = "raw" THEN "ok" ELSE "apperr"] : m \in S}
            /\ wire' = wire \ S
      BY <1>4 DEF DataArrives
    <2>2. msgs' \in SUBSET Answers /\ head' \in SUBSET Ids
      BY <2>1 DEF Types, Requests, Answers, IdsOf
    <2>3. Types'
      BY <1>4, <2>1, <2>2 DEF Types, DataArrives
    <2>4. connecting' \in BOOLEAN
      BY <1>4 DEF DataArrives
    <2>5. AnswersMatch'
      BY <1>4, <2>1 DEF AnswersMatch, DataArrives
    <2>6. Untorn'
      <3>1. \A m \in msgs' : m.kind # "torn"
        BY <2>1
      <3>2. \A i \in head' : \E m \in wire' : m.id = i
        BY <2>1 DEF IdsOf
      <3>3. QED
        BY <1>4, <3>1, <3>2 DEF Untorn, InStep, DataArrives
    <2>7. QED
      BY <1>4, <2>3, <2>4, <2>5, <2>6
      DEF DataArrives, ConnectOpens, SingleConnect, IdsAreCalls, Registered, NoOrphanFuture,
          OwnAnswer, IdleConnectionWatched
  <1>5. ASSUME TornDataArrives PROVE IInv'
    <2>1. torn = "yes"
      BY <1>5 DEF TornDataArrives, Untorn, Types
    <2>2. /\ wire' \in SUBSET wire
          /\ head' \in SUBSET Ids
          /\ msgs' \in SUBSET Answers
          /\ \A m \in msgs' : m.kind = "torn" /\ m.call = 0
      BY <1>5 DEF TornDataArrives, Answers, Types
    <2>3. Types'
      BY <1>5, <2>2 DEF Types, TornDataArrives
    <2>4. connecting' \in BOOLEAN
      BY <1>5 DEF TornDataArrives
    <2>5. AnswersMatch' /\ Untorn'
      BY <1>5, <2>1, <2>2 DEF AnswersMatch, Untorn, TornDataArrives
    <2>6. QED
      BY <1>5, <2>3, <2>4, <2>5
      DEF TornDataArrives, ConnectOpens, SingleConnect, IdsAreCalls, Registered, NoOrphanFuture,
          OwnAnswer, IdleConnectionWatched
  <1>6. ASSUME PeerCloses \/ ReadFails PROVE IInv'
    <2>1. Types'
      BY <1>6 DEF Types, PeerCloses, ReadFails
    <2>2. connecting' \in BOOLEAN
      BY <1>6 DEF PeerCloses, ReadFails
    <2>3. AnswersMatch' /\ Untorn' /\ ConnectOpens' /\ OwnAnswer'
      BY <1>6 DEF PeerCloses, ReadFails, AnswersMatch, Untorn, InStep, ConnectOpens, OwnAnswer
    <2>4. QED
      BY <1>6, <2>1, <2>2, <2>3
      DEF PeerCloses, ReadFails, SingleConnect, IdsAreCalls, Registered, NoOrphanFuture,
          IdleConnectionWatched
  <1>7. QED
    BY <1>1, <1>2, <1>3, <1>4, <1>5, <1>6 DEF Network

\* AfterConnect keeps it: the connection is up, or all that waits has failed.
LEMMA AfterConnectInv ==
  ASSUME IInv, NEW c \in Callers, AfterConnect(c)
  PROVE  IInv'
  <1> USE DEF IInv, TypeOK
  <1>1. pc[c] = "connect" /\ connecting' = FALSE
    BY DEF AfterConnect, EndConnecting
  <1>2. connecting' \in BOOLEAN
    BY <1>1
  <1>3. /\ pc' \in [Callers -> {"idle", "yield", "connect", "write", "wait"}]
        /\ pc'[c] \in {"idle", "write"}
        /\ \A d \in Callers : d # c => pc'[d] = pc[d]
    BY DEF AfterConnect, EndConnecting, Types
  <1>4. Types'
    <2>1. AbortOps(op) \in [Callers -> {"none", "pending", "ok", "err"}]
      BY DEF Types, AbortOps
    <2>2. CASE op[c] = "ok"
      BY <1>3, <2>2 DEF Types, AfterConnect, EndConnecting
    <2>3. CASE op[c] = "err"
      BY <1>3, <2>1, <2>3 DEF Types, AfterConnect, EndConnecting, ReadAborted
    <2>4. QED
      BY <2>2, <2>3 DEF AfterConnect, EndConnecting
  <1>5. SingleConnect'
    <2>1. \A d \in Callers : pc'[d] # "connect"
      BY <1>1, <1>3 DEF SingleConnect
    <2>2. QED
      BY <1>1, <2>1 DEF SingleConnect
  <1>6. IdsAreCalls' /\ AnswersMatch'
    BY <1>1, <1>3 DEF IdsAreCalls, AnswersMatch, AfterConnect, EndConnecting
  <1>7. OwnAnswer'
    BY DEF OwnAnswer, AfterConnect, EndConnecting, Types
  <1>8. /\ \A d \in Callers : d # c /\ mid[d] \in futures /\ call[d] # 0
                                => mid[d] \in futures'
        /\ pc'[c] = "write" => futures' = futures
        /\ rd # "none" => rd' # "none"
    BY <1>1 DEF AfterConnect, EndConnecting, IdsAreCalls, Types, ReadAborted
  <1>9. Registered' /\ NoOrphanFuture'
    <2>1. Registered'
      BY <1>1, <1>3, <1>8 DEF Registered, IdsAreCalls, AfterConnect, EndConnecting
    <2>2. mid' = mid /\ res' = res
      BY DEF AfterConnect, EndConnecting
    <2>3. ASSUME NEW d \in Callers, pc'[d] = "wait", res'[mid'[d]] = "none"
          PROVE  mid'[d] \in futures' /\ rd' # "none"
      <3>1. mid'[d] \in futures'
        BY <2>1, <2>3 DEF Registered
      <3>2. CASE d = c
        BY <1>3, <1>8, <2>3, <3>1, <3>2
      <3>3. CASE d # c
        <4>1. pc[d] = "wait" /\ res[mid[d]] = "none"
          BY <1>3, <2>2, <2>3, <3>3
        <4>2. rd # "none"
          BY <4>1 DEF NoOrphanFuture
        <4> QED BY <1>8, <3>1, <4>2
      <3> QED BY <3>2, <3>3
    <2>4. NoOrphanFuture'
      BY <2>3 DEF NoOrphanFuture
    <2> QED BY <2>1, <2>4
  <1>10. IdleConnectionWatched'
    BY <1>1, <1>3 DEF IdleConnectionWatched, AfterConnect, EndConnecting, Types
  <1>11. Untorn' /\ ConnectOpens'
    <2>1. \A d \in Callers : pc'[d] # "connect"
      BY <1>1, <1>3 DEF SingleConnect
    <2>2. QED
      BY <2>1 DEF Untorn, InStep, ConnectOpens, AfterConnect
  <1>12. QED
    BY <1>2, <1>4, <1>5, <1>6, <1>7, <1>9, <1>10, <1>11

\* AfterWrite keeps it.
LEMMA AfterWriteInv ==
  ASSUME IInv, NEW c \in Callers, AfterWrite(c)
  PROVE  IInv'
  <1> USE DEF IInv, TypeOK
  <1>1. pc[c] = "write" /\ connecting' = connecting
    BY DEF AfterWrite, EnsureReader
  <1>2. connecting' \in BOOLEAN
    BY <1>1
  <1>3. /\ pc' \in [Callers -> {"idle", "yield", "connect", "write", "wait"}]
        /\ pc'[c] \in {"idle", "wait"}
        /\ \A d \in Callers : d # c => pc'[d] = pc[d]
    BY DEF AfterWrite, EnsureReader, Types
  <1>4. Types'
    BY ZenonT(60) DEF Types, AfterWrite, EnsureReader, AbortOps, ReadAborted
  <1>5. SingleConnect'
    BY <1>1, <1>3 DEF SingleConnect, Types
  <1>6. IdsAreCalls' /\ AnswersMatch'
    BY <1>1, <1>3 DEF IdsAreCalls, AnswersMatch, AfterWrite, EnsureReader
  <1>7. OwnAnswer'
    BY DEF OwnAnswer, AfterWrite, EnsureReader, Types
  <1>8. /\ \A d \in Callers : d # c /\ mid[d] \in futures /\ call[d] # 0
                                => mid[d] \in futures'
        /\ pc'[c] = "wait" => futures' = futures /\ rd' # "none"
        /\ rd # "none" => rd' # "none"
    <2>1. \A d \in Callers : d # c /\ call[d] # 0 => mid[d] # mid[c]
      BY DEF IdsAreCalls
    <2>2. CASE op[c] = "ok"
      <3>1. futures' = futures /\ EnsureReader
        BY <1>1, <2>2 DEF AfterWrite
      <3> QED BY <3>1 DEF EnsureReader
    <2>3. CASE op[c] = "err"
      <3>1. futures' = futures \ {mid[c]} /\ (rd' = rd \/ rd' = ReadAborted)
        BY <1>1, <2>3 DEF AfterWrite
      <3>2. pc'[c] = "idle"
        BY <1>1, <2>3 DEF AfterWrite, Types
      <3> QED BY <2>1, <3>1, <3>2 DEF ReadAborted
    <2> QED BY <2>2, <2>3 DEF AfterWrite
  <1>9. Registered' /\ NoOrphanFuture'
    <2>1. Registered'
      BY <1>1, <1>3, <1>8 DEF Registered, IdsAreCalls, AfterWrite, EnsureReader
    <2>2. mid' = mid /\ res' = res
      BY DEF AfterWrite, EnsureReader
    <2>3. ASSUME NEW d \in Callers, pc'[d] = "wait", res'[mid'[d]] = "none"
          PROVE  mid'[d] \in futures' /\ rd' # "none"
      <3>1. mid'[d] \in futures'
        BY <2>1, <2>3 DEF Registered
      <3>2. CASE d = c
        BY <1>3, <1>8, <2>3, <3>1, <3>2
      <3>3. CASE d # c
        <4>1. pc[d] = "wait" /\ res[mid[d]] = "none"
          BY <1>3, <2>2, <2>3, <3>3
        <4>2. rd # "none"
          BY <4>1 DEF NoOrphanFuture
        <4> QED BY <1>8, <3>1, <4>2
      <3> QED BY <3>2, <3>3
    <2>4. NoOrphanFuture'
      BY <2>3 DEF NoOrphanFuture
    <2> QED BY <2>1, <2>4
  <1>10. IdleConnectionWatched'
    <2>1. CASE connecting
      BY <1>1, <1>3, <2>1 DEF IdleConnectionWatched, SingleConnect
    <2>2. CASE ~connecting
      BY <1>1, <1>3, <1>8, <2>2 DEF IdleConnectionWatched, AfterWrite, EnsureReader, Types
    <2>3. QED
      BY <2>1, <2>2
  <1>11. Untorn'
    BY DEF Untorn, InStep, AfterWrite
  <1>12. ConnectOpens'
    <2>1. CASE connecting
      BY <1>1, <1>3, <2>1 DEF ConnectOpens, AfterWrite, EnsureReader, Types
    <2>2. CASE ~connecting
      BY <1>1, <1>3, <2>2 DEF ConnectOpens, SingleConnect
    <2>3. QED
      BY <2>1, <2>2
  <1>13. QED
    BY <1>2, <1>4, <1>5, <1>6, <1>7, <1>9, <1>10, <1>11, <1>12

\* A call returns from get_response.
LEMMA ReturnInv ==
  ASSUME IInv, NEW c \in Callers, GetRsp(c) \/ Timeout(c)
  PROVE  IInv'
  <1> USE DEF IInv, TypeOK, GetRsp, Timeout
  <1>1. connecting' \in BOOLEAN
    OBVIOUS
  <1>2. Types'
    <2>1. pc' \in [Callers -> {"idle", "yield", "connect", "write", "wait"}]
      BY DEF Types
    <2>2. mid[c] \in Ids
      BY DEF Types
    <2>3. res[mid[c]] \in {"none", "ok", "apperr", "torn", "connerr"} /\ ans[mid[c]] \in 0..MaxCalls
      BY <2>2 DEF Types
    <2>4. out' \in [Callers -> {"pending", "ok", "apperr", "torn", "connerr", "timeout", "sendfail"}]
      BY <2>3 DEF Types
    <2>5. got' \in [Callers -> 0..MaxCalls]
      BY <2>3 DEF Types
    <2>6. UNCHANGED <<proto, op, calls, call, mid, fid, futures, res, ans, sock, wire, rd, msgs,
                      head, step, torn>>
      BY DEF stream
    <2> QED BY <2>1, <2>4, <2>5, <2>6 DEF Types
  <1>3. /\ pc[c] = "wait" /\ pc'[c] = "idle"
        /\ \A d \in Callers : d # c => pc'[d] = pc[d]
    BY DEF Types
  <1>4. /\ SingleConnect' /\ IdsAreCalls'
        /\ AnswersMatch' /\ Untorn'
    <2>1. SingleConnect'
      BY <1>3 DEF SingleConnect
    <2>2. IdsAreCalls'
      <3>1. UNCHANGED <<fid, calls, mid, call>>
        OBVIOUS
      <3>2. \A d \in Callers : pc'[d] # "idle" => pc[d] # "idle"
        BY <1>3
      <3> HIDE DEF GetRsp, Timeout, TypeOK
      <3> QED BY <3>1, <3>2 DEF IdsAreCalls
    <2>3. AnswersMatch' /\ Untorn'
      BY DEF AnswersMatch, Untorn, InStep
    <2>4. QED
      BY <2>1, <2>2, <2>3
  <1>5. Registered' /\ NoOrphanFuture' /\ IdleConnectionWatched' /\ ConnectOpens'
    BY <1>3 DEF Registered, NoOrphanFuture, IdleConnectionWatched, ConnectOpens
  <1>6. OwnAnswer'
    <2>1. /\ res[mid[c]] \in {"ok", "apperr"} => ans[mid[c]] = call[c]
          /\ res[mid[c]] = "torn" => torn = "yes"
      BY DEF AnswersMatch, IdsAreCalls, Untorn, Types
    <2>2. CASE GetRsp(c)
      BY <2>1, <2>2 DEF OwnAnswer, Types
    <2>3. CASE Timeout(c)
      BY <2>3 DEF OwnAnswer, Types
    <2>4. QED
      BY <2>2, <2>3
  <1>7. QED
    BY <1>1, <1>2, <1>4, <1>5, <1>6

\* What handling the messages of M does to the futures.
LEMMA HandleMessages ==
  ASSUME IInv, NEW M \in SUBSET msgs
  PROVE  /\ ResAfter(M) \in [Ids -> {"none", "ok", "apperr", "torn", "connerr"}]
         /\ AnsAfter(M) \in [Ids -> 0..MaxCalls]
         /\ \A i \in Ids : ResAfter(M)[i] \in {"ok", "apperr"} => AnsAfter(M)[i] = i
         /\ \A i \in futures : i \notin FuturesAfter(M) => ResAfter(M)[i] # "none"
         /\ \A i \in Ids : ResAfter(M)[i] = "none" => res[i] = "none"
         /\ FuturesAfter(M) \subseteq futures
         /\ torn = "no" => \A i \in Ids : ResAfter(M)[i] # "torn"
  <1> USE DEF IInv, TypeOK
  <1>1. ASSUME NEW i \in Answered(M)
        PROVE  Answer(M, i) \in M /\ Answer(M, i).id = i
    BY DEF Answered, Answer
  <1>2. ASSUME NEW i \in Answered(M)
        PROVE  /\ Answer(M, i).kind \in {"ok", "apperr", "torn"}
               /\ Answer(M, i).call \in 0..MaxCalls
               /\ Answer(M, i).kind # "torn" => Answer(M, i).call = i
               /\ torn = "no" => Answer(M, i).kind # "torn"
    <2>1. Answer(M, i) \in msgs /\ Answer(M, i).id = i
      BY <1>1, <1>2
    <2>2. msgs \in SUBSET Answers
      BY DEF Types
    <2>3. /\ Answer(M, i).kind \in {"ok", "apperr", "torn"}
          /\ Answer(M, i).call \in 0..MaxCalls
      BY <2>1, <2>2 DEF Answers
    <2>4. Answer(M, i).kind # "torn" => Answer(M, i).call = i
      BY <2>1 DEF AnswersMatch
    <2>5. torn = "no" => Answer(M, i).kind # "torn"
      BY <2>1 DEF Untorn
    <2> QED BY <2>3, <2>4, <2>5
  <1>3. QED
    BY <1>2 DEF ResAfter, AnsAfter, FuturesAfter, AnswersMatch, Types, Untorn

\* HandleData keeps it: a response answers the caller whose id it carries.
LEMMA HandleDataInv ==
  ASSUME IInv, HandleData
  PROVE  IInv'
  <1> USE DEF IInv, TypeOK
  <1> DEFINE M == msgs
  <1>1. connecting' \in BOOLEAN
    BY DEF HandleData
  <1>2. rd # "none" /\ rd' \in {"reading", "fail"}
    BY DEF HandleData, ReadSome
  <1>3. Types'
    BY <1>2, HandleMessages DEF HandleData, Types
  <1>4. SingleConnect' /\ IdsAreCalls' /\ OwnAnswer' /\ IdleConnectionWatched'
    BY <1>2 DEF SingleConnect, IdsAreCalls, OwnAnswer, IdleConnectionWatched, HandleData
  <1>5. AnswersMatch'
    BY HandleMessages DEF AnswersMatch, HandleData
  <1>6. Registered' /\ NoOrphanFuture'
    <2>1. ASSUME NEW c \in Callers, pc[c] # "idle", res'[mid[c]] = "none"
          PROVE  mid[c] \in futures'
      <3>1. mid[c] \in Ids /\ ResAfter(msgs)[mid[c]] = "none"
        BY <2>1 DEF HandleData, Types
      <3>2. mid[c] \in futures
        BY <2>1, <3>1, HandleMessages DEF Registered
      <3>3. QED
        BY <3>1, <3>2, HandleMessages DEF HandleData
    <2>2. QED
      BY <1>2, <2>1 DEF Registered, NoOrphanFuture, HandleData
  <1>7. Untorn' /\ ConnectOpens'
    BY HandleMessages DEF Untorn, InStep, ConnectOpens, HandleData
  <1>8. QED
    BY <1>1, <1>3, <1>4, <1>5, <1>6, <1>7

\* RpcFail keeps it: every promise of the session is failed and dropped.
LEMMA RpcFailInv ==
  ASSUME IInv, NEW M \in SUBSET msgs, RpcFail(M)
  PROVE  IInv'
  <1> USE DEF IInv, TypeOK
  <1>1. connecting' \in BOOLEAN
    BY DEF RpcFail, AllError, FailShutdown
  <1>2. Types'
    <2>1. res' \in [Ids -> {"none", "ok", "apperr", "torn", "connerr"}]
      BY HandleMessages DEF RpcFail, AllError
    <2>2. ans' \in [Ids -> 0..MaxCalls]
      BY HandleMessages DEF RpcFail
    <2>3. op' \in [Callers -> {"none", "pending", "ok", "err"}]
      <3>1. op' = AbortOps(op) \/ op' = op
        BY DEF RpcFail, FailShutdown
      <3>2. op \in [Callers -> {"none", "pending", "ok", "err"}]
        BY DEF Types
      <3> QED BY <3>1, <3>2 DEF AbortOps
    <2>4. QED
      BY <2>1, <2>2, <2>3 DEF RpcFail, FailShutdown, Types
  <1>3. SingleConnect' /\ IdsAreCalls' /\ OwnAnswer' /\ IdleConnectionWatched'
    BY DEF SingleConnect, IdsAreCalls, OwnAnswer, IdleConnectionWatched, RpcFail, AllError, FailShutdown
  <1>4. AnswersMatch'
    BY HandleMessages DEF AnswersMatch, RpcFail, AllError, FailShutdown
  <1>5. \A c \in Callers : pc[c] # "idle" => res'[mid[c]] # "none"
    <2> SUFFICES ASSUME NEW c \in Callers, pc[c] # "idle" PROVE res'[mid[c]] # "none"
      OBVIOUS
    <2>1. mid[c] \in Ids
      BY DEF Types
    <2>2. res'[mid[c]] = IF mid[c] \in FuturesAfter(M) THEN "connerr" ELSE ResAfter(M)[mid[c]]
      BY <2>1 DEF RpcFail, AllError
    <2>3. mid[c] \notin FuturesAfter(M) => ResAfter(M)[mid[c]] # "none"
      BY <2>1, HandleMessages DEF Registered
    <2>4. QED
      BY <2>2, <2>3
  <1>6. Registered' /\ NoOrphanFuture'
    BY <1>5 DEF Registered, NoOrphanFuture, RpcFail, AllError, FailShutdown
  <1>7. Untorn'
    BY HandleMessages DEF Untorn, InStep, RpcFail, AllError
  <1>8. ConnectOpens'
    <2>1. CASE proto = "rpc"
      <3>1. \A c \in Callers : op'[c] # "pending"
        BY <2>1 DEF RpcFail, FailShutdown, AbortOps
      <3>2. QED
        BY <3>1 DEF ConnectOpens
    <2>2. CASE proto # "rpc"
      BY <2>2 DEF ConnectOpens, RpcFail, FailShutdown
    <2>3. QED
      BY <2>1, <2>2
  <1>9. QED
    BY <1>1, <1>2, <1>3, <1>4, <1>6, <1>7, <1>8

\* ReadStart keeps it.
LEMMA ReadStartInv ==
  ASSUME IInv, ReadStart
  PROVE  IInv'
  <1> USE DEF IInv, TypeOK, ReadStart, ReadSome
  <1>1. connecting' \in BOOLEAN
    OBVIOUS
  <1>2. Types'
    BY DEF Types
  <1>3. QED
    BY <1>1, <1>2
    DEF SingleConnect, IdsAreCalls, AnswersMatch, Untorn, InStep, ConnectOpens, Registered,
        NoOrphanFuture, OwnAnswer, IdleConnectionWatched

\* Every step keeps the invariant.
LEMMA NextInv == IInv /\ [Next]_vars => IInv'
  <1> SUFFICES ASSUME IInv, [Next]_vars PROVE IInv'
    OBVIOUS
  <1>1. ASSUME NEW c \in Callers, CallerStep(c) PROVE IInv'
    BY <1>1, SendRequestInv, LeaveYieldInv, AfterConnectInv, AfterWriteInv, ReturnInv
    DEF CallerStep
  <1>2. CASE Network
    BY <1>2, NetworkInv
  <1>3. CASE ReaderStep
    BY <1>3, ReadStartInv, HandleDataInv, RpcFailInv
    DEF ReaderStep, HandleGarbage, ReadEnds
  <1>4. CASE UNCHANGED vars
    <2> USE <1>4 DEF vars, IInv, TypeOK
    <2>1. connecting' \in BOOLEAN
      OBVIOUS
    <2>2. Types'
      BY DEF Types
    <2>3. AnswersMatch' /\ Untorn' /\ ConnectOpens' /\ OwnAnswer'
      BY DEF AnswersMatch, Untorn, InStep, ConnectOpens, OwnAnswer
    <2>4. QED
      BY <2>1, <2>2, <2>3
      DEF SingleConnect, IdsAreCalls, Registered, NoOrphanFuture, IdleConnectionWatched
  <1>5. QED
    BY <1>1, <1>2, <1>3, <1>4 DEF Next

\* IInv holds in every reachable state.
LEMMA Invariance == Spec => []IInv
  BY InitIInv, NextInv, PTL DEF Spec

\* Every variable keeps its type, whatever the interleaving of callers, reader
\* and network.
THEOREM TypeCorrect == Spec => []TypeOK
  <1>1. IInv => TypeOK
    BY DEF IInv
  <1>2. QED
    BY <1>1, Invariance, PTL

\* ClientSession::send_data lets at most one fiber into async_connect.
THEOREM OneConnectAtATime == Spec => []SingleConnect
  <1>1. IInv => SingleConnect
    BY DEF IInv
  <1>2. QED
    BY <1>1, Invariance, PTL

\* FibpRpcClient and FibpRawClient never leave a caller waiting for a future
\* that no reading fiber can complete.
THEOREM FuturesAreServed == Spec => []NoOrphanFuture
  <1>1. IInv => NoOrphanFuture
    BY DEF IInv
  <1>2. QED
    BY <1>1, Invariance, PTL

\* get_response returns only the answer to the caller's own request, also when
\* answers come out of order or after their caller has timed out.
THEOREM AnswersAreOwn == Spec => []OwnAnswer
  <1>1. IInv => OwnAnswer
    BY DEF IInv
  <1>2. QED
    BY <1>1, Invariance, PTL

\* An RPC connection that no call is using always has its reading fiber.
THEOREM IdleConnectionsAreWatched == Spec => []IdleConnectionWatched
  <1>1. IInv => IdleConnectionWatched
    BY DEF IInv
  <1>2. QED
    BY <1>1, Invariance, PTL

\* A future that is still registered has no answer, and a call has one only at its end.
LEMMA NoAnswerYetStep ==
  ASSUME IInv, NoAnswerYet, [Next]_vars
  PROVE  NoAnswerYet'
  <1> USE DEF IInv, TypeOK, NoAnswerYet
  <1>1. ASSUME NEW c \in Callers, SendRequest(c) PROVE NoAnswerYet'
    <2>1. \A d \in Callers : d # c => pc'[d] = pc[d]
      BY <1>1 DEF SendRequest, EnterSend, Types
    <2>2. \A d \in Callers : d # c => got'[d] = got[d]
      BY <1>1 DEF SendRequest, Types
    <2>3. got'[c] = 0 /\ NextId \in Ids
      BY <1>1, NextIdFresh DEF SendRequest, Types
    <2>4. \A d \in Callers : pc'[d] # "idle" => got'[d] = 0
      BY <2>1, <2>2, <2>3
    <2>5. \A i \in Ids : \/ res'[i] = "none" /\ ans'[i] = 0
                         \/ res'[i] = res[i] /\ ans'[i] = ans[i] /\ i # NextId
      BY <1>1 DEF SendRequest, Types
    <2>6. futures' = futures \cup {NextId} /\ futures' \subseteq Ids
      BY <1>1, <2>3 DEF SendRequest, Types
    <2>7. QED
      BY <2>4, <2>5, <2>6
  <1>2. ASSUME NEW c \in Callers,
               LeaveYield(c) \/ AfterConnect(c) \/ AfterWrite(c)
        PROVE  NoAnswerYet'
    <2>1. /\ pc[c] # "idle"
          /\ \A d \in Callers : d # c => pc'[d] = pc[d]
          /\ futures' \subseteq futures
          /\ UNCHANGED <<res, ans, got>>
      BY <1>2 DEF LeaveYield, EnterSend, AfterConnect, AfterWrite, Types
    <2>2. QED
      BY <2>1
  <1>3. ASSUME NEW c \in Callers, GetRsp(c) \/ Timeout(c) PROVE NoAnswerYet'
    <2>1. UNCHANGED <<futures, res, ans>>
      BY <1>3 DEF GetRsp, Timeout
    <2>2. \A d \in Callers : pc'[d] # "idle" => pc[d] # "idle" /\ got'[d] = got[d]
      BY <1>3 DEF GetRsp, Timeout, Types
    <2>3. QED
      BY <2>1, <2>2
  <1>4. CASE Network
    BY <1>4 DEF Network, ConnectEnds, ConnectDeadline, WriteEnds, DataArrives,
                TornDataArrives, PeerCloses, ReadFails
  <1>5. ASSUME NEW M \in SUBSET msgs
        PROVE  \A i \in Ids : i \notin Answered(M) =>
                                ResAfter(M)[i] = res[i] /\ AnsAfter(M)[i] = ans[i]
    BY DEF ResAfter, AnsAfter
  <1>6. ASSUME NEW M \in SUBSET msgs, NEW i \in Answered(M)
        PROVE  /\ i \in Ids /\ i \notin FuturesAfter(M)
               /\ ResAfter(M)[i] \in {"ok", "apperr", "torn"}
               /\ ResAfter(M)[i] = "torn" => AnsAfter(M)[i] = 0
    <2>1. Answer(M, i) \in M
      BY <1>6 DEF Answered, Answer
    <2>2. QED
      BY <1>6, <2>1 DEF ResAfter, AnsAfter, FuturesAfter, Answered, AnswersMatch, Types, Answers
  <1>7. CASE HandleData
    <2>1. \A i \in Ids : res'[i] = ResAfter(msgs)[i] /\ ans'[i] = AnsAfter(msgs)[i]
      BY <1>7 DEF HandleData
    <2>2. ASSUME NEW i \in Ids, res'[i] \in {"none", "torn", "connerr"} PROVE ans'[i] = 0
      <3>1. CASE i \in Answered(msgs)
        BY <1>6, <2>1, <2>2, <3>1
      <3>2. CASE i \notin Answered(msgs)
        BY <1>5, <2>1, <2>2, <3>2
      <3>3. QED
        BY <3>1, <3>2
    <2>3. ASSUME NEW i \in futures' PROVE res'[i] = "none"
      <3>1. i \in futures /\ i \notin Answered(msgs) /\ i \in Ids
        BY <1>7 DEF HandleData, FuturesAfter, Types
      <3>2. ResAfter(msgs)[i] = res[i]
        BY <1>5, <3>1
      <3>3. QED
        BY <2>1, <3>1, <3>2
    <2>4. QED
      BY <1>7, <2>2, <2>3 DEF HandleData
  <1>8. ASSUME NEW M \in SUBSET msgs, RpcFail(M) PROVE NoAnswerYet'
    <2>1. ASSUME NEW i \in Ids, res'[i] \in {"none", "torn", "connerr"} PROVE ans'[i] = 0
      <3>1. ans'[i] = AnsAfter(M)[i]
        BY <1>8 DEF RpcFail
      <3>2. CASE i \in Answered(M)
        <4>1. res'[i] = ResAfter(M)[i]
          BY <1>6, <1>8, <3>2 DEF RpcFail, AllError
        <4>2. QED
          BY <1>6, <2>1, <3>1, <3>2, <4>1
      <3>3. CASE i \notin Answered(M)
        <4>1. res[i] \in {"none", "torn", "connerr"}
          BY <1>5, <1>8, <2>1, <3>3 DEF RpcFail, AllError, FuturesAfter
        <4>2. QED
          BY <1>5, <3>1, <3>3, <4>1
      <3>4. QED
        BY <3>2, <3>3
    <2>2. QED
      BY <1>8, <2>1 DEF RpcFail
  <1>9. CASE ReadStart \/ UNCHANGED vars
    BY <1>9 DEF ReadStart, vars
  <1>10. CASE ReaderStep
    BY <1>7, <1>8, <1>9, <1>10 DEF ReaderStep, HandleGarbage, ReadEnds
  <1>11. QED
    BY <1>1, <1>2, <1>3, <1>4, <1>9, <1>10 DEF Next, CallerStep

\* What a step of the client is to its callers: one of them asks, one of them
\* gets its own answer, an error or a torn answer, or nothing that they see.
LEMMA StepRefines ==
  ASSUME IInv, NoAnswerYet, [Next]_vars
  PROVE  [Promise!SCNext]_(Promise!scVars)
  <1> USE DEF IInv, TypeOK, Types
  <1>1. ASSUME NEW c \in Callers, SendRequest(c) PROVE Promise!Ask(c)
    <2>1. /\ pc[c] = "idle" /\ pc' \in [Callers -> {"idle", "yield", "connect", "write", "wait"}]
          /\ pc'[c] # "idle"
          /\ \A d \in Callers : d # c => pc'[d] = pc[d]
      BY <1>1 DEF SendRequest, EnterSend
    <2>2. {d \in Callers : pc'[d] # "idle"} = {d \in Callers : pc[d] # "idle"} \cup {c}
      BY <2>1
    <2>3. [d \in Callers |-> Outcome(out'[d])]
            = [[d \in Callers |-> Outcome(out[d])] EXCEPT ![c] = "none"]
      BY <1>1 DEF SendRequest, Outcome
    <2>4. QED
      BY <1>1, <2>1, <2>2, <2>3 DEF Promise!Ask, SendRequest
  <1>2. ASSUME NEW c \in Callers, pc[c] # "idle",
               pc' = [pc EXCEPT ![c] = "idle"],
               out' = [out EXCEPT ![c] = "sendfail"] \/ out' = [out EXCEPT ![c] = "timeout"]
                 \/ out' = [out EXCEPT ![c] = "connerr"],
               UNCHANGED <<calls, call, got>>
        PROVE  Promise!Failed(c)
    <2>1. {d \in Callers : pc'[d] # "idle"} = {d \in Callers : pc[d] # "idle"} \ {c}
      BY <1>2
    <2>2. [d \in Callers |-> Outcome(out'[d])]
            = [[d \in Callers |-> Outcome(out[d])] EXCEPT ![c] = "error"]
      BY <1>2 DEF Outcome
    <2>3. QED
      BY <1>2, <2>1, <2>2 DEF Promise!Failed
  <1>3. ASSUME {d \in Callers : pc'[d] # "idle"} = {d \in Callers : pc[d] # "idle"},
               UNCHANGED <<calls, call, out, got>>
        PROVE  UNCHANGED Promise!scVars
    BY <1>3 DEF Promise!scVars
  <1>4. ASSUME NEW c \in Callers, LeaveYield(c) PROVE UNCHANGED Promise!scVars
    <2>1. {d \in Callers : pc'[d] # "idle"} = {d \in Callers : pc[d] # "idle"}
      BY <1>4 DEF LeaveYield, EnterSend
    <2>2. QED
      BY <1>3, <1>4, <2>1 DEF LeaveYield
  <1>5. ASSUME NEW c \in Callers, AfterConnect(c)
        PROVE  Promise!Failed(c) \/ UNCHANGED Promise!scVars
    <2>1. CASE op[c] = "ok"
      <3>1. {d \in Callers : pc'[d] # "idle"} = {d \in Callers : pc[d] # "idle"}
        BY <1>5, <2>1 DEF AfterConnect
      <3>2. QED
        BY <1>3, <1>5, <2>1, <3>1 DEF AfterConnect
    <2>2. CASE op[c] = "err"
      BY <1>2, <1>5, <2>2 DEF AfterConnect
    <2>3. QED
      BY <1>5, <2>1, <2>2 DEF AfterConnect
  <1>6. ASSUME NEW c \in Callers, AfterWrite(c)
        PROVE  Promise!Failed(c) \/ UNCHANGED Promise!scVars
    <2>1. CASE op[c] = "ok"
      <3>1. {d \in Callers : pc'[d] # "idle"} = {d \in Callers : pc[d] # "idle"}
        BY <1>6, <2>1 DEF AfterWrite
      <3>2. QED
        BY <1>3, <1>6, <2>1, <3>1 DEF AfterWrite
    <2>2. CASE op[c] = "err"
      BY <1>2, <1>6, <2>2 DEF AfterWrite
    <2>3. QED
      BY <1>6, <2>1, <2>2 DEF AfterWrite
  <1>7. ASSUME NEW c \in Callers, Timeout(c) PROVE Promise!Failed(c)
    BY <1>2, <1>7 DEF Timeout
  <1>8. ASSUME NEW c \in Callers, GetRsp(c)
        PROVE  Promise!Failed(c) \/ Promise!Answered(c) \/ Promise!Garbled(c)
    <2>1. CASE res[mid[c]] \in {"ok", "apperr"}
      <3>1. {d \in Callers : pc'[d] # "idle"} = {d \in Callers : pc[d] # "idle"} \ {c}
        BY <1>8 DEF GetRsp
      <3>2. [d \in Callers |-> Outcome(out'[d])]
              = [[d \in Callers |-> Outcome(out[d])] EXCEPT ![c] = "answer"]
        BY <1>8, <2>1 DEF GetRsp, Outcome
      <3>3. got' = [got EXCEPT ![c] = call[c]]
        BY <1>8, <2>1 DEF GetRsp, AnswersMatch, IdsAreCalls
      <3>4. QED
        BY <1>8, <3>1, <3>2, <3>3 DEF Promise!Answered, GetRsp
    <2>2. CASE res[mid[c]] = "connerr"
      <3>1. got' = got
        <4>1. ans[mid[c]] = 0 /\ got[c] = 0
          BY <1>8, <2>2 DEF GetRsp, NoAnswerYet
        <4>2. QED
          BY <1>8, <4>1 DEF GetRsp
      <3>2. QED
        BY <1>2, <1>8, <2>2, <3>1 DEF GetRsp
    <2>3. CASE res[mid[c]] = "torn"
      <3>1. {d \in Callers : pc'[d] # "idle"} = {d \in Callers : pc[d] # "idle"} \ {c}
        BY <1>8 DEF GetRsp
      <3>2. [d \in Callers |-> Outcome(out'[d])]
              = [[d \in Callers |-> Outcome(out[d])] EXCEPT ![c] = "garbled"]
        BY <1>8, <2>3 DEF GetRsp, Outcome
      <3>3. got' = got
        <4>1. ans[mid[c]] = 0 /\ got[c] = 0
          BY <1>8, <2>3 DEF GetRsp, NoAnswerYet
        <4>2. QED
          BY <1>8, <4>1 DEF GetRsp
      <3>4. QED
        BY <1>8, <3>1, <3>2, <3>3 DEF Promise!Garbled, GetRsp
    <2>4. QED
      BY <1>8, <2>1, <2>2, <2>3 DEF GetRsp
  <1>9. CASE Network \/ ReaderStep \/ UNCHANGED vars
    <2>1. UNCHANGED <<pc, calls, call, out, got>>
      BY <1>9 DEF Network, ConnectEnds, ConnectDeadline, WriteEnds, DataArrives,
                  TornDataArrives, PeerCloses, ReadFails, ReaderStep, ReadStart, HandleData,
                  HandleGarbage, ReadEnds, RpcFail, vars
    <2>2. QED
      BY <1>3, <2>1
  <1>10. QED
    BY <1>1, <1>4, <1>5, <1>6, <1>7, <1>8, <1>9 DEF Next, CallerStep, Promise!SCNext

\* The client implements ServiceCall: whatever its connection goes through, each
\* call returns once, with the answer to that very call, with an error, or with a torn answer.
THEOREM ClientKeepsPromise == Spec => ImplementsServiceCall
  <1>1. Init => Promise!SCInit
    BY DEF Init, Promise!SCInit, Outcome
  <1>2. Init => NoAnswerYet
    BY DEF Init, NoAnswerYet
  <1>3. IInv /\ NoAnswerYet /\ [Next]_vars => NoAnswerYet'
    BY NoAnswerYetStep
  <1>4. IInv /\ NoAnswerYet /\ [Next]_vars => [Promise!SCNext]_(Promise!scVars)
    BY StepRefines
  <1>5. QED
    BY <1>1, <1>2, <1>3, <1>4, Invariance, PTL DEF Spec, ImplementsServiceCall, Promise!SCSpec
=============================================================================
