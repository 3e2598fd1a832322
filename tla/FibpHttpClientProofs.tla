------------------------ MODULE FibpHttpClientProofs ------------------------
(***************************************************************************)
(* Proofs about FibpHttpClient, for any number of calls and of reads per   *)
(* response: no operation is aborted before its own time has run out, and  *)
(* a response is put together from what was sent for its own call.         *)
(*                                                                         *)
(* DeadlineInv is inductive. An abort that is still queued when the next   *)
(* operation begins would be taken for its end; so the invariant says that *)
(* the fiber goes on only when its operation's end has left the queue      *)
(* (OneEnd), and that a deadline that has passed is the present            *)
(* operation's (OwnDeadline), which in turn needs that the timer is not    *)
(* set between calls and during a write.                                   *)
(*                                                                         *)
(* ResponseInv is inductive with it. What lies unread, in buf_ and on the  *)
(* connection, is the present call's response, in order, or begins with    *)
(* the rest of an earlier one, at which a parser at a start reports an     *)
(* error; and without a cut the parser is at a start, or inside the        *)
(* present call's response.                                                *)
(***************************************************************************)
EXTENDS FibpHttpClient, SequenceTheorems, TLAPS

HandlerNames == {"aborted", "expired"} \cup Ends

HandlerType ==
  /\ pc \in {"idle", "connect", "write", "read"}
  /\ op \in {"none", "pending"}
  /\ hq \in Seq(HandlerNames)
  /\ woken \in Ends \cup {"none"}
  /\ expiry \in {"infin", "future", "past"}
  /\ elapsed \in {"no", "yes"}

NoEnd(q) == \A i \in 1..Len(q) : q[i] \notin Ends
OnlyEnd(q) == \A i, j \in 1..Len(q) : q[i] \in Ends /\ q[j] \in Ends => i = j
Aborts(q) == \E i \in 1..Len(q) : q[i] = "abort"

\* An operation is pending, or its end is queued, or the fiber is ready: one of them at
\* most, and none between calls.
OneEnd ==
  /\ OnlyEnd(hq)
  /\ op = "pending" => woken = "none"
  /\ pc = "idle" => op = "none" /\ woken = "none"
  /\ op = "pending" \/ woken # "none" \/ pc = "idle" => NoEnd(hq)

\* The deadline that has passed is that of the present operation.
OwnDeadline ==
  /\ expiry = "past" => elapsed = "yes"
  /\ pc \in {"idle", "write"} => expiry = "infin"

\* An abort that is queued is that of the present operation.
OwnAbort == Aborts(hq) => elapsed = "yes"

DeadlineInv == HandlerType /\ OneEnd /\ OwnDeadline /\ OwnAbort /\ NoEarlyAbort
-----------------------------------------------------------------------------
(* Queues of handlers.                                                     *)

\* A handler of the timer is queued.
LEMMA QueuedTimer ==
  ASSUME NEW q \in Seq(HandlerNames), NEW e \in {"aborted", "expired"}
  PROVE /\ Append(q, e) \in Seq(HandlerNames)
        /\ OnlyEnd(q) => OnlyEnd(Append(q, e))
        /\ NoEnd(q) => NoEnd(Append(q, e))
        /\ Aborts(Append(q, e)) => Aborts(q)
<1>1. e \notin Ends /\ e # "abort" /\ e \in HandlerNames
  BY DEF Ends, HandlerNames
<1>2. /\ Append(q, e) \in Seq(HandlerNames) /\ Len(Append(q, e)) = Len(q) + 1
      /\ \A i \in 1..Len(q) : Append(q, e)[i] = q[i]
      /\ Append(q, e)[Len(q) + 1] = e /\ Len(q) \in Nat
  BY <1>1
<1>3. \A i \in 1..Len(Append(q, e)) : i = Len(q) + 1 \/ i \in 1..Len(q)
  BY <1>2
<1> QED
  BY <1>1, <1>2, <1>3 DEF OnlyEnd, NoEnd, Aborts

\* The end of an operation is queued, where there is no other.
LEMMA QueuedEnd ==
  ASSUME NEW q \in Seq(HandlerNames), NEW e \in Ends, NoEnd(q)
  PROVE /\ Append(q, e) \in Seq(HandlerNames)
        /\ OnlyEnd(Append(q, e))
        /\ Aborts(Append(q, e)) => e = "abort"
<1>1. e \in HandlerNames /\ "abort" \in Ends
  BY DEF HandlerNames, Ends
<1>2. /\ Append(q, e) \in Seq(HandlerNames) /\ Len(Append(q, e)) = Len(q) + 1
      /\ \A i \in 1..Len(q) : Append(q, e)[i] = q[i]
      /\ Append(q, e)[Len(q) + 1] = e /\ Len(q) \in Nat
  BY <1>1
<1>3. \A i \in 1..Len(Append(q, e)) : i = Len(q) + 1 \/ i \in 1..Len(q)
  BY <1>2
<1> QED
  BY <1>1, <1>2, <1>3 DEF OnlyEnd, NoEnd, Aborts

\* The first handler is taken.
LEMMA Dequeued ==
  ASSUME NEW q \in Seq(HandlerNames), q # <<>>
  PROVE /\ Tail(q) \in Seq(HandlerNames)
        /\ OnlyEnd(q) => OnlyEnd(Tail(q))
        /\ NoEnd(q) => NoEnd(Tail(q)) /\ Head(q) \notin Ends
        /\ Head(q) \in Ends /\ OnlyEnd(q) => NoEnd(Tail(q))
        /\ Aborts(Tail(q)) => Aborts(q)
        /\ Head(q) = "abort" => Aborts(q)
<1>1. /\ Tail(q) \in Seq(HandlerNames) /\ Len(Tail(q)) = Len(q) - 1 /\ Len(q) \in Nat \ {0}
      /\ Head(q) = q[1]
      /\ \A i \in 1..Len(Tail(q)) : Tail(q)[i] = q[i + 1]
  OBVIOUS
<1>2. \A i \in 1..Len(Tail(q)) : i + 1 \in 1..Len(q) /\ i + 1 # 1
  BY <1>1
<1>3. 1 \in 1..Len(q)
  BY <1>1
<1>4. OnlyEnd(q) => OnlyEnd(Tail(q))
  <2> SUFFICES ASSUME OnlyEnd(q), NEW i \in 1..Len(Tail(q)), NEW j \in 1..Len(Tail(q)),
                      Tail(q)[i] \in Ends, Tail(q)[j] \in Ends
               PROVE i = j
      BY DEF OnlyEnd
  <2>1. i + 1 = j + 1
    BY <1>1, <1>2 DEF OnlyEnd
  <2> QED
    BY <2>1, <1>1
<1>5. Head(q) \in Ends /\ OnlyEnd(q) => NoEnd(Tail(q))
  BY <1>1, <1>2, <1>3 DEF OnlyEnd, NoEnd
<1> QED
  BY <1>1, <1>2, <1>3, <1>4, <1>5 DEF NoEnd, Aborts

\* An expiry is set: a wait that was pending is queued as aborted.
LEMMA QueuedCancelled ==
  ASSUME NEW q \in Seq(HandlerNames)
  PROVE /\ q \o Cancelled \in Seq(HandlerNames)
        /\ OnlyEnd(q) => OnlyEnd(q \o Cancelled)
        /\ NoEnd(q) => NoEnd(q \o Cancelled)
        /\ Aborts(q \o Cancelled) => Aborts(q)
<1>1. q \o <<>> = q /\ q \o <<"aborted">> = Append(q, "aborted")
  OBVIOUS
<1> QED
  BY <1>1, QueuedTimer DEF Cancelled

\* Where there is no end there is no abort.
LEMMA NoEndNoAbort == ASSUME NEW q, NoEnd(q) PROVE ~Aborts(q)
BY DEF NoEnd, Aborts, Ends
-----------------------------------------------------------------------------
(* DeadlineInv is inductive.                                               *)

\* HttpInit: the queue is empty.
LEMMA DeadlineInit == HttpInit => DeadlineInv
<1> SUFFICES ASSUME HttpInit PROVE DeadlineInv
    OBVIOUS
<1>1. Len(<<>>) = 0 /\ <<>> \in Seq(HandlerNames) /\ 1..0 = {}
  OBVIOUS
<1>2. NoEnd(hq) /\ OnlyEnd(hq) /\ ~Aborts(hq)
  BY <1>1 DEF HttpInit, NoEnd, OnlyEnd, Aborts
<1>3. HandlerType
  BY <1>1 DEF HttpInit, HandlerType
<1> QED
  BY <1>2, <1>3 DEF HttpInit, DeadlineInv, OneEnd, OwnDeadline, OwnAbort, NoEarlyAbort

\* TimerExpires: the time that runs out is that of the present operation.
LEMMA TimerExpiresKeeps == ASSUME DeadlineInv, TimerExpires PROVE DeadlineInv'
<1>1. hq \in Seq(HandlerNames)
  BY DEF DeadlineInv, HandlerType
<1>2. /\ hq' \in Seq(HandlerNames)
      /\ OnlyEnd(hq) => OnlyEnd(hq')
      /\ NoEnd(hq) => NoEnd(hq')
      /\ Aborts(hq') => Aborts(hq)
  BY <1>1, QueuedTimer DEF TimerExpires
<1>3. HandlerType'
  BY <1>1, <1>2 DEF DeadlineInv, HandlerType, OneEnd, OwnDeadline, OwnAbort, NoEarlyAbort, TimerExpires, session
<1>4. OneEnd'
  BY <1>1, <1>2 DEF DeadlineInv, HandlerType, OneEnd, OwnDeadline, OwnAbort, NoEarlyAbort, TimerExpires, session
<1>5. OwnDeadline'
  BY <1>1, <1>2 DEF DeadlineInv, HandlerType, OneEnd, OwnDeadline, OwnAbort, NoEarlyAbort, TimerExpires, session
<1>6. OwnAbort'
  BY <1>1, <1>2 DEF DeadlineInv, HandlerType, OneEnd, OwnDeadline, OwnAbort, NoEarlyAbort, TimerExpires, session
<1>7. NoEarlyAbort'
  BY <1>1, <1>2 DEF DeadlineInv, HandlerType, OneEnd, OwnDeadline, OwnAbort, NoEarlyAbort, TimerExpires, session
<1> QED
  BY <1>3, <1>4, <1>5, <1>6, <1>7 DEF DeadlineInv

\* OpEnds: the operation was pending, so that its end is the only one queued.
LEMMA OpEndsKeeps == ASSUME DeadlineInv, OpEnds PROVE DeadlineInv'
<1>1. hq \in Seq(HandlerNames) /\ NoEnd(hq)
  BY DEF DeadlineInv, HandlerType, OneEnd, OpEnds
<1>2. \E e \in Ends \ {"abort"} : hq' = Append(hq, e)
  BY DEF OpEnds, Ends
<1>3. hq' \in Seq(HandlerNames) /\ OnlyEnd(hq') /\ ~Aborts(hq')
  BY <1>1, <1>2, QueuedEnd
<1>4. pc # "idle" /\ woken = "none"
  BY DEF DeadlineInv, OneEnd, OpEnds
<1>5. HandlerType'
  BY <1>1, <1>2, <1>3, <1>4 DEF DeadlineInv, HandlerType, OneEnd, OwnDeadline, OwnAbort, NoEarlyAbort, OpEnds
<1>6. OneEnd'
  BY <1>1, <1>2, <1>3, <1>4 DEF DeadlineInv, HandlerType, OneEnd, OwnDeadline, OwnAbort, NoEarlyAbort, OpEnds
<1>7. OwnDeadline'
  BY <1>1, <1>2, <1>3, <1>4 DEF DeadlineInv, HandlerType, OneEnd, OwnDeadline, OwnAbort, NoEarlyAbort, OpEnds
<1>8. OwnAbort'
  BY <1>1, <1>2, <1>3, <1>4 DEF DeadlineInv, HandlerType, OneEnd, OwnDeadline, OwnAbort, NoEarlyAbort, OpEnds
<1>9. NoEarlyAbort'
  BY <1>1, <1>2, <1>3, <1>4 DEF DeadlineInv, HandlerType, OneEnd, OwnDeadline, OwnAbort, NoEarlyAbort, OpEnds
<1> QED
  BY <1>5, <1>6, <1>7, <1>8, <1>9 DEF DeadlineInv

\* PeerCloses: neither the timer nor the queue is touched.
LEMMA PeerClosesKeeps == ASSUME DeadlineInv, PeerCloses PROVE DeadlineInv'
<1>1. HandlerType'
  BY DEF DeadlineInv, HandlerType, OneEnd, OwnDeadline, OwnAbort, NoEarlyAbort, PeerCloses
<1>2. OneEnd'
  BY DEF DeadlineInv, HandlerType, OneEnd, OwnDeadline, OwnAbort, NoEarlyAbort, PeerCloses
<1>3. OwnDeadline'
  BY DEF DeadlineInv, HandlerType, OneEnd, OwnDeadline, OwnAbort, NoEarlyAbort, PeerCloses
<1>4. OwnAbort'
  BY DEF DeadlineInv, HandlerType, OneEnd, OwnDeadline, OwnAbort, NoEarlyAbort, PeerCloses
<1>5. NoEarlyAbort'
  BY DEF DeadlineInv, HandlerType, OneEnd, OwnDeadline, OwnAbort, NoEarlyAbort, PeerCloses
<1> QED
  BY <1>1, <1>2, <1>3, <1>4, <1>5 DEF DeadlineInv

\* RunHandler: an operation that check_deadline aborts has run out of time.
LEMMA RunHandlerKeeps == ASSUME DeadlineInv, RunHandler PROVE DeadlineInv'
<1>1. hq \in Seq(HandlerNames) /\ hq # <<>>
  BY DEF DeadlineInv, HandlerType, RunHandler
<1>2. /\ Tail(hq) \in Seq(HandlerNames)
      /\ OnlyEnd(hq) => OnlyEnd(Tail(hq))
      /\ NoEnd(hq) => NoEnd(Tail(hq)) /\ Head(hq) \notin Ends
      /\ Head(hq) \in Ends /\ OnlyEnd(hq) => NoEnd(Tail(hq))
      /\ Aborts(Tail(hq)) => Aborts(hq)
      /\ Head(hq) = "abort" => Aborts(hq)
  BY <1>1, Dequeued
<1>3. /\ Tail(hq) \o Cancelled \in Seq(HandlerNames)
      /\ OnlyEnd(Tail(hq)) => OnlyEnd(Tail(hq) \o Cancelled)
      /\ NoEnd(Tail(hq)) => NoEnd(Tail(hq) \o Cancelled)
      /\ Aborts(Tail(hq) \o Cancelled) => Aborts(Tail(hq))
  BY <1>2, QueuedCancelled
<1>4. NoEnd(Tail(hq)) => /\ Append(Tail(hq), "abort") \in Seq(HandlerNames)
                         /\ OnlyEnd(Append(Tail(hq), "abort"))
  BY <1>2, QueuedEnd DEF Ends
<1>5. HandlerType'
  BY <1>1, <1>2, <1>3, <1>4 DEF DeadlineInv, HandlerType, OneEnd, OwnDeadline, OwnAbort, NoEarlyAbort, RunHandler, ClearTimeout, CheckDeadline, Ends
<1>6. OneEnd'
  BY <1>1, <1>2, <1>3, <1>4 DEF DeadlineInv, HandlerType, OneEnd, OwnDeadline, OwnAbort, NoEarlyAbort, RunHandler, ClearTimeout, CheckDeadline, Ends
<1>7. OwnDeadline'
  BY <1>1, <1>2, <1>3, <1>4 DEF DeadlineInv, HandlerType, OneEnd, OwnDeadline, OwnAbort, NoEarlyAbort, RunHandler, ClearTimeout, CheckDeadline, Ends
<1>8. OwnAbort'
  BY <1>1, <1>2, <1>3, <1>4 DEF DeadlineInv, HandlerType, OneEnd, OwnDeadline, OwnAbort, NoEarlyAbort, RunHandler, ClearTimeout, CheckDeadline, Ends
<1>9. NoEarlyAbort'
  BY <1>1, <1>2, <1>3, <1>4 DEF DeadlineInv, HandlerType, OneEnd, OwnDeadline, OwnAbort, NoEarlyAbort, RunHandler, ClearTimeout, CheckDeadline, Ends
<1> QED
  BY <1>5, <1>6, <1>7, <1>8, <1>9 DEF DeadlineInv

\* SendRequest: nothing of an earlier call is queued, nor its deadline set.
LEMMA SendRequestKeeps == ASSUME DeadlineInv, SendRequest PROVE DeadlineInv'
<1>1. hq \in Seq(HandlerNames)
  BY DEF DeadlineInv, HandlerType
<1>2. /\ hq \o Cancelled \in Seq(HandlerNames)
      /\ OnlyEnd(hq) => OnlyEnd(hq \o Cancelled)
      /\ NoEnd(hq) => NoEnd(hq \o Cancelled)
      /\ Aborts(hq \o Cancelled) => Aborts(hq)
  BY <1>1, QueuedCancelled
<1>3. NoEnd(hq) => /\ Append(hq, "err") \in Seq(HandlerNames)
                   /\ OnlyEnd(Append(hq, "err"))
                   /\ ~Aborts(Append(hq, "err"))
  BY <1>1, QueuedEnd DEF Ends
<1>4. NoEnd(hq) /\ ~Aborts(hq) /\ expiry = "infin" /\ woken = "none"
  BY NoEndNoAbort DEF DeadlineInv, OneEnd, OwnDeadline, SendRequest
<1>5. HandlerType'
  BY <1>1, <1>2, <1>3, <1>4 DEF DeadlineInv, HandlerType, OneEnd, OwnDeadline, OwnAbort, NoEarlyAbort, SendRequest, PrepareTimeout, StartWrite
<1>6. OneEnd'
  BY <1>1, <1>2, <1>3, <1>4 DEF DeadlineInv, HandlerType, OneEnd, OwnDeadline, OwnAbort, NoEarlyAbort, SendRequest, PrepareTimeout, StartWrite
<1>7. OwnDeadline'
  BY <1>1, <1>2, <1>3, <1>4 DEF DeadlineInv, HandlerType, OneEnd, OwnDeadline, OwnAbort, NoEarlyAbort, SendRequest, PrepareTimeout, StartWrite
<1>8. OwnAbort'
  BY <1>1, <1>2, <1>3, <1>4 DEF DeadlineInv, HandlerType, OneEnd, OwnDeadline, OwnAbort, NoEarlyAbort, SendRequest, PrepareTimeout, StartWrite
<1>9. NoEarlyAbort'
  BY <1>1, <1>2, <1>3, <1>4 DEF DeadlineInv, HandlerType, OneEnd, OwnDeadline, OwnAbort, NoEarlyAbort, SendRequest, PrepareTimeout, StartWrite
<1> QED
  BY <1>5, <1>6, <1>7, <1>8, <1>9 DEF DeadlineInv

\* AfterConnect: the fiber was ready, so that no end is queued.
LEMMA AfterConnectKeeps == ASSUME DeadlineInv, AfterConnect PROVE DeadlineInv'
<1>1. hq \in Seq(HandlerNames)
  BY DEF DeadlineInv, HandlerType
<1>2. /\ hq \o Cancelled \in Seq(HandlerNames)
      /\ OnlyEnd(hq) => OnlyEnd(hq \o Cancelled)
      /\ NoEnd(hq) => NoEnd(hq \o Cancelled)
      /\ Aborts(hq \o Cancelled) => Aborts(hq)
  BY <1>1, QueuedCancelled
<1>3. NoEnd(hq \o Cancelled) => /\ Append(hq \o Cancelled, "err") \in Seq(HandlerNames)
                   /\ OnlyEnd(Append(hq \o Cancelled, "err"))
                   /\ ~Aborts(Append(hq \o Cancelled, "err"))
  BY <1>2, QueuedEnd DEF Ends
<1>4. NoEnd(hq) /\ ~Aborts(hq) /\ ~Aborts(hq \o Cancelled)
  BY <1>2, NoEndNoAbort DEF DeadlineInv, OneEnd, AfterConnect, Resume
<1>5. op = "none"
  BY DEF DeadlineInv, HandlerType, OneEnd, AfterConnect, Resume
<1>6. HandlerType'
  BY <1>1, <1>2, <1>3, <1>4, <1>5 DEF DeadlineInv, HandlerType, OneEnd, OwnDeadline, OwnAbort, NoEarlyAbort, AfterConnect, Resume, StartWrite
<1>7. OneEnd'
  BY <1>1, <1>2, <1>3, <1>4, <1>5 DEF DeadlineInv, HandlerType, OneEnd, OwnDeadline, OwnAbort, NoEarlyAbort, AfterConnect, Resume, StartWrite
<1>8. OwnDeadline'
  BY <1>1, <1>2, <1>3, <1>4, <1>5 DEF DeadlineInv, HandlerType, OneEnd, OwnDeadline, OwnAbort, NoEarlyAbort, AfterConnect, Resume, StartWrite
<1>9. OwnAbort'
  BY <1>1, <1>2, <1>3, <1>4, <1>5 DEF DeadlineInv, HandlerType, OneEnd, OwnDeadline, OwnAbort, NoEarlyAbort, AfterConnect, Resume, StartWrite
<1>10. NoEarlyAbort'
  BY <1>1, <1>2, <1>3, <1>4, <1>5 DEF DeadlineInv, HandlerType, OneEnd, OwnDeadline, OwnAbort, NoEarlyAbort, AfterConnect, Resume, StartWrite
<1> QED
  BY <1>6, <1>7, <1>8, <1>9, <1>10 DEF DeadlineInv

\* AfterWrite: the timer is set for the response, with nothing left of the write.
LEMMA AfterWriteKeeps == ASSUME DeadlineInv, AfterWrite PROVE DeadlineInv'
<1>1. hq \in Seq(HandlerNames)
  BY DEF DeadlineInv, HandlerType
<1>2. /\ hq \o Cancelled \in Seq(HandlerNames)
      /\ OnlyEnd(hq) => OnlyEnd(hq \o Cancelled)
      /\ NoEnd(hq) => NoEnd(hq \o Cancelled)
      /\ Aborts(hq \o Cancelled) => Aborts(hq)
  BY <1>1, QueuedCancelled
<1>3. NoEnd(hq) /\ ~Aborts(hq) /\ ~Aborts(hq \o Cancelled)
  BY <1>2, NoEndNoAbort DEF DeadlineInv, OneEnd, AfterWrite, Resume
<1>4. op = "none"
  BY DEF DeadlineInv, HandlerType, OneEnd, AfterWrite, Resume
<1>5. HandlerType'
  BY <1>1, <1>2, <1>3, <1>4 DEF DeadlineInv, HandlerType, OneEnd, OwnDeadline, OwnAbort, NoEarlyAbort, AfterWrite, Resume, ReadTimeout, PrepareTimeout, ClearTimeout
<1>6. OneEnd'
  BY <1>1, <1>2, <1>3, <1>4 DEF DeadlineInv, HandlerType, OneEnd, OwnDeadline, OwnAbort, NoEarlyAbort, AfterWrite, Resume, ReadTimeout, PrepareTimeout, ClearTimeout
<1>7. OwnDeadline'
  BY <1>1, <1>2, <1>3, <1>4 DEF DeadlineInv, HandlerType, OneEnd, OwnDeadline, OwnAbort, NoEarlyAbort, AfterWrite, Resume, ReadTimeout, PrepareTimeout, ClearTimeout
<1>8. OwnAbort'
  BY <1>1, <1>2, <1>3, <1>4 DEF DeadlineInv, HandlerType, OneEnd, OwnDeadline, OwnAbort, NoEarlyAbort, AfterWrite, Resume, ReadTimeout, PrepareTimeout, ClearTimeout
<1>9. NoEarlyAbort'
  BY <1>1, <1>2, <1>3, <1>4 DEF DeadlineInv, HandlerType, OneEnd, OwnDeadline, OwnAbort, NoEarlyAbort, AfterWrite, Resume, ReadTimeout, PrepareTimeout, ClearTimeout
<1> QED
  BY <1>5, <1>6, <1>7, <1>8, <1>9 DEF DeadlineInv

\* AfterRead either reads on under the same deadline, or returns and clears it.
LEMMA ReadOutcome ==
  ASSUME AfterRead
  PROVE \/ op' = "pending" /\ UNCHANGED <<pc, hq, expiry>>
        \/ pc' = "idle" /\ op' = op /\ hq' = hq \o Cancelled /\ expiry' = "infin"
<1>1. \/ \E keep, o, f : Respond(keep, o, f)
      \/ op' = "pending" /\ UNCHANGED <<pc, hq, expiry>>
  BY DEF AfterRead, ParseChunk, ReadMore, Complete, ParseError, CompleteAtEof
<1> QED
  BY <1>1 DEF Respond, ClearTimeout

\* AfterRead: the fiber was ready, so that no end is queued.
LEMMA AfterReadKeeps == ASSUME DeadlineInv, AfterRead PROVE DeadlineInv'
<1>1. hq \in Seq(HandlerNames)
  BY DEF DeadlineInv, HandlerType
<1>2. /\ hq \o Cancelled \in Seq(HandlerNames)
      /\ OnlyEnd(hq) => OnlyEnd(hq \o Cancelled)
      /\ NoEnd(hq) => NoEnd(hq \o Cancelled)
      /\ Aborts(hq \o Cancelled) => Aborts(hq)
  BY <1>1, QueuedCancelled
<1>3. NoEnd(hq) /\ ~Aborts(hq) /\ ~Aborts(hq \o Cancelled)
  BY <1>2, NoEndNoAbort DEF DeadlineInv, OneEnd, AfterRead, Resume
<1>4. op = "none"
  BY DEF DeadlineInv, HandlerType, OneEnd, AfterRead, Resume
<1>5. pc = "read" /\ woken' = "none" /\ elapsed' = elapsed
  BY DEF AfterRead, Resume
<1>6. \/ op' = "pending" /\ UNCHANGED <<pc, hq, expiry>>
      \/ pc' = "idle" /\ op' = op /\ hq' = hq \o Cancelled /\ expiry' = "infin"
  BY ReadOutcome
<1>7. HandlerType'
  BY <1>1, <1>2, <1>3, <1>4, <1>5, <1>6 DEF DeadlineInv, HandlerType, OneEnd, OwnDeadline, OwnAbort, NoEarlyAbort, Ends
<1>8. OneEnd'
  BY <1>1, <1>2, <1>3, <1>4, <1>5, <1>6 DEF DeadlineInv, HandlerType, OneEnd, OwnDeadline, OwnAbort, NoEarlyAbort, Ends
<1>9. OwnDeadline'
  BY <1>1, <1>2, <1>3, <1>4, <1>5, <1>6 DEF DeadlineInv, HandlerType, OneEnd, OwnDeadline, OwnAbort, NoEarlyAbort, Ends
<1>10. OwnAbort'
  BY <1>1, <1>2, <1>3, <1>4, <1>5, <1>6 DEF DeadlineInv, HandlerType, OneEnd, OwnDeadline, OwnAbort, NoEarlyAbort, Ends
<1>11. NoEarlyAbort'
  BY <1>1, <1>2, <1>3, <1>4, <1>5, <1>6 DEF DeadlineInv, HandlerType, OneEnd, OwnDeadline, OwnAbort, NoEarlyAbort, Ends
<1> QED
  BY <1>7, <1>8, <1>9, <1>10, <1>11 DEF DeadlineInv

\* Every step of the client keeps the invariant.
LEMMA DeadlineStep == ASSUME DeadlineInv, [HttpNext]_httpVars PROVE DeadlineInv'
<1>1. CASE TimerExpires
  BY <1>1, TimerExpiresKeeps
<1>2. CASE OpEnds
  BY <1>2, OpEndsKeeps
<1>3. CASE PeerCloses
  BY <1>3, PeerClosesKeeps
<1>4. CASE RunHandler
  BY <1>4, RunHandlerKeeps
<1>5. CASE SendRequest
  BY <1>5, SendRequestKeeps
<1>6. CASE AfterConnect
  BY <1>6, AfterConnectKeeps
<1>7. CASE AfterWrite
  BY <1>7, AfterWriteKeeps
<1>8. CASE AfterRead
  BY <1>8, AfterReadKeeps
<1>9. CASE UNCHANGED httpVars
  BY <1>9 DEF httpVars, DeadlineInv, HandlerType, OneEnd, OwnDeadline, OwnAbort, NoEarlyAbort
<1> QED
  BY <1>1, <1>2, <1>3, <1>4, <1>5, <1>6, <1>7, <1>8, <1>9 DEF HttpNext

\* An operation of the session is aborted only when its own time has run out, whatever
\* handlers of check_deadline are still queued for earlier operations: the comparison of
\* expires_at with now suffices.
THEOREM DeadlinesAreOwn == HttpSpec => []NoEarlyAbort
<1>1. DeadlineInv => NoEarlyAbort
  BY DEF DeadlineInv
<1> QED
  BY DeadlineInit, DeadlineStep, <1>1, PTL DEF HttpSpec
-----------------------------------------------------------------------------
(* A pooled client returns each call its own response, unless a deadline   *)
(* has ended a response between two reads.                                 *)

Chunk == [call: Nat \ {0}, n: 1..Chunks]

\* What has come, or is to come, and the parser has not seen.
Unread == buf \o stream

\* Chunks of the present call's response, in order.
Own(s) == \A i \in 1..Len(s) : s[i].call = call /\ s[i].n = s[1].n + (i - 1)

\* The rest of an earlier response, at which a parser at a start reports an error.
Stale(s) == s # <<>> /\ parser = 0 /\ s[1].n # 1

Quiet(s) == s = <<>> \/ Stale(s)

ResponseType ==
  /\ call \in Nat /\ parser \in Nat
  /\ buf \in Seq(Chunk) /\ stream \in Seq(Chunk)
  /\ cut \in {"no", "yes"}
  /\ pc # "idle" => call > 0 /\ out # "ok"

HasOk(q) == \E i \in 1..Len(q) : q[i] = "ok"

\* A read has left a chunk in buf_ exactly when its end says so, and the fiber takes it.
Buffered ==
  /\ buf = <<>> \/ (pc = "read" /\ op = "none" /\ Len(buf) = 1)
  /\ pc = "read" /\ (woken = "ok" \/ HasOk(hq)) => Len(buf) = 1

\* Without a cut the parser is inside the present call's response while it is read, and
\* else at a start.
ParserInStep == cut = "no" => parser = 0 \/ (pc = "read" /\ parser = call)

\* Until the request is written the connection holds at most the rest of an earlier
\* response, and then that or the present call's response.
InOrder ==
  /\ pc \in {"idle", "connect"} \/ (pc = "write" /\ op = "pending") => Quiet(Unread)
  /\ pc \in {"write", "read"} => Stale(Unread) \/ Own(Unread)

ResponseInv == ResponseType /\ Buffered /\ ParserInStep /\ InOrder /\ OwnUnlessCut

\* Where there is no end, no read has ended well; and only the end of an operation
\* queues one.
LEMMA NoEndNoOk == ASSUME NEW q, NoEnd(q) PROVE ~HasOk(q)
BY DEF NoEnd, HasOk, Ends

\* A handler other than the good end of a read adds none.
LEMMA OkQueued ==
  ASSUME NEW q \in Seq(HandlerNames), NEW e \in HandlerNames, e # "ok", HasOk(Append(q, e))
  PROVE  HasOk(q)
<1>1. /\ Len(Append(q, e)) = Len(q) + 1 /\ Len(q) \in Nat
      /\ \A i \in 1..Len(q) : Append(q, e)[i] = q[i]
      /\ Append(q, e)[Len(q) + 1] = e
  OBVIOUS
<1>2. PICK i \in 1..(Len(q) + 1) : Append(q, e)[i] = "ok"
  BY <1>1 DEF HasOk
<1>3. i \in 1..Len(q)
  BY <1>1, <1>2
<1> QED BY <1>1, <1>2, <1>3 DEF HasOk

\* A handler that leaves the queue was in it.
LEMMA OkDequeued ==
  ASSUME NEW q \in Seq(HandlerNames), q # <<>>
  PROVE  HasOk(Tail(q)) \/ Head(q) = "ok" => HasOk(q)
<1>1. /\ Len(Tail(q)) = Len(q) - 1 /\ Len(q) \in Nat \ {0} /\ Head(q) = q[1]
      /\ \A i \in 1..Len(Tail(q)) : Tail(q)[i] = q[i + 1]
  OBVIOUS
<1>2. \A i \in 1..Len(Tail(q)) : i + 1 \in 1..Len(q)
  BY <1>1
<1>3. 1 \in 1..Len(q)
  BY <1>1
<1> QED BY <1>1, <1>2, <1>3 DEF HasOk

\* expires_from_now queues the cancelled wait, which is no end of a read.
LEMMA OkCancelled ==
  ASSUME NEW q \in Seq(HandlerNames), HasOk(q \o Cancelled)
  PROVE  HasOk(q)
<1>1. q \o <<>> = q
  BY ConcatEmptySeq
<1>2. q \o <<"aborted">> = Append(q, "aborted")
  BY AppendIsConcat DEF HandlerNames
<1>3. "aborted" \in HandlerNames
  BY DEF HandlerNames
<1>4. CASE Cancelled = <<>>
  BY <1>1, <1>4
<1>5. CASE Cancelled = <<"aborted">>
  BY <1>2, <1>3, <1>5, OkQueued
<1> QED BY <1>4, <1>5 DEF Cancelled
-----------------------------------------------------------------------------
(* What is unread, and how the steps of the session change it.             *)

\* Nothing but a beginning of it is left.
LEMMA BeginningLeft ==
  ASSUME ResponseType, UNCHANGED <<call, parser>>,
         NEW s \in Seq(Chunk), NEW t \in Seq(Chunk), Len(t) <= Len(s),
         \A i \in 1..Len(t) : t[i] = s[i]
  PROVE  /\ Own(s) => \A i \in 1..Len(t) : t[i].call = call' /\ t[i].n = t[1].n + (i - 1)
         /\ Stale(s) => t = <<>> \/ (parser' = 0 /\ t[1].n # 1)
<1>1. Len(s) \in Nat /\ Len(t) \in Nat /\ \A i \in 1..Len(t) : i \in 1..Len(s)
  OBVIOUS
<1>2. \A i \in 1..Len(t) : 1 \in 1..Len(t)
  BY <1>1
<1>3. Own(s) => \A i \in 1..Len(t) : t[i].call = call' /\ t[i].n = t[1].n + (i - 1)
  BY <1>1, <1>2 DEF Own
<1>4. Stale(s) /\ t # <<>> => parser' = 0 /\ t[1].n # 1
  <2> SUFFICES ASSUME Stale(s), t # <<>> PROVE parser' = 0 /\ t[1].n # 1
    OBVIOUS
  <2>1. 1 \in 1..Len(t)
    BY <1>1
  <2> QED BY <2>1 DEF Stale
<1> QED BY <1>3, <1>4

\* A connection that ends leaves a beginning of what was unread.
LEMMA Truncated ==
  ASSUME ResponseType, NEW k \in 0..Len(stream), stream' = SubSeq(stream, 1, k),
         UNCHANGED <<call, parser, buf>>
  PROVE  /\ stream' \in Seq(Chunk)
         /\ Own(Unread) => Own(Unread)'
         /\ Quiet(Unread) => Quiet(Unread)'
         /\ Stale(Unread) => Stale(Unread)' \/ Own(Unread)'
<1>1. /\ stream \in Seq(Chunk) /\ buf \in Seq(Chunk)
      /\ Len(stream) \in Nat /\ Len(buf) \in Nat
  BY DEF ResponseType
<1>2. /\ stream' \in Seq(Chunk) /\ Len(stream') = k
      /\ \A i \in 1..k : stream'[i] = stream[i]
  BY <1>1
<1> DEFINE s == Unread
           t == Unread'
<1>3. /\ s \in Seq(Chunk) /\ t \in Seq(Chunk)
      /\ Len(s) = Len(buf) + Len(stream) /\ Len(t) = Len(buf) + k
  BY <1>1, <1>2 DEF Unread
<1>4. ASSUME NEW i \in 1..Len(t) PROVE t[i] = s[i]
  <2>1. t[i] = IF i <= Len(buf) THEN buf[i] ELSE stream'[i - Len(buf)]
    BY <1>1, <1>2, <1>3 DEF Unread
  <2>2. s[i] = IF i <= Len(buf) THEN buf[i] ELSE stream[i - Len(buf)]
    BY <1>1, <1>2, <1>3 DEF Unread
  <2> QED BY <1>1, <1>2, <1>3, <2>1, <2>2
<1>5. Len(t) <= Len(s)
  BY <1>1, <1>3
<1> HIDE DEF s, t
<1>6. /\ Own(s) => \A i \in 1..Len(t) : t[i].call = call' /\ t[i].n = t[1].n + (i - 1)
      /\ Stale(s) => t = <<>> \/ (parser' = 0 /\ t[1].n # 1)
  BY <1>3, <1>4, <1>5, BeginningLeft
<1>7. s = <<>> => t = <<>>
  BY <1>3, <1>5
<1>8. Own(Unread)' <=> \A i \in 1..Len(t) : t[i].call = call' /\ t[i].n = t[1].n + (i - 1)
  BY DEF Own, t
<1>9. Stale(Unread)' <=> t # <<>> /\ parser' = 0 /\ t[1].n # 1
  BY DEF Stale, t
<1>10. t = <<>> => Own(Unread)'
  BY <1>8
<1>11. Quiet(Unread)' <=> t = <<>> \/ Stale(Unread)'
  BY DEF Quiet, t
<1>12. Quiet(Unread) <=> s = <<>> \/ Stale(s)
  BY DEF Quiet, s
<1>13. (Own(Unread) <=> Own(s)) /\ (Stale(Unread) <=> Stale(s))
  BY DEF s
<1> QED BY <1>2, <1>6, <1>7, <1>8, <1>9, <1>10, <1>11, <1>12, <1>13
\* close() leaves nothing on the connection; what a read has put into buf_ stays.
LEMMA Closed ==
  ASSUME ResponseType, stream' = <<>>, UNCHANGED <<call, parser, buf>>
  PROVE  /\ stream' \in Seq(Chunk)
         /\ Own(Unread) => Own(Unread)'
         /\ Quiet(Unread) => Quiet(Unread)'
         /\ Stale(Unread) => Stale(Unread)' \/ Own(Unread)'
<1>1. stream \in Seq(Chunk)
  BY DEF ResponseType
<1>2. stream' = SubSeq(stream, 1, 0) /\ 0 \in 0..Len(stream)
  BY <1>1
<1> QED BY <1>2, Truncated

\* Nothing unread is any call's response.
LEMMA NothingUnread == ASSUME Unread = <<>> PROVE Own(Unread) /\ Quiet(Unread)
BY DEF Own, Quiet

\* Steps that leave the connection and the parser alone.
LEMMA SameUnread ==
  ASSUME UNCHANGED <<call, parser, buf, stream>>
  PROVE  /\ Own(Unread)' = Own(Unread) /\ Quiet(Unread)' = Quiet(Unread)
         /\ Stale(Unread)' = Stale(Unread)
BY DEF Own, Quiet, Stale, Unread

\* HttpInit: nothing is unread.
LEMMA ResponseInit == HttpInit => ResponseInv
<1> SUFFICES ASSUME HttpInit PROVE ResponseInv
  OBVIOUS
<1>1. Unread = <<>> /\ ~HasOk(hq)
  BY DEF HttpInit, Unread, HasOk
<1>2. ResponseType /\ Buffered /\ ParserInStep /\ OwnUnlessCut
  BY <1>1 DEF HttpInit, ResponseType, Buffered, ParserInStep, OwnUnlessCut, OwnResponse
<1>3. InOrder
  BY <1>1, NothingUnread DEF InOrder, HttpInit
<1> QED BY <1>2, <1>3 DEF ResponseInv

\* TimerExpires and PeerCloses: at most the end of what is unread is lost.
LEMMA TimerExpiresResponse ==
  ASSUME DeadlineInv, ResponseInv, TimerExpires PROVE ResponseInv'
<1>1. hq \in Seq(HandlerNames)
  BY DEF DeadlineInv, HandlerType
<1>2. HasOk(hq') => HasOk(hq)
  BY <1>1, OkQueued DEF TimerExpires, HandlerNames
<1>3. UNCHANGED <<pc, call, op, woken, buf, parser, cut, out, from, stream>>
  BY DEF TimerExpires, session
<1>4. ResponseType' /\ ParserInStep' /\ OwnUnlessCut'
  BY <1>3 DEF ResponseInv, ResponseType, ParserInStep, OwnUnlessCut, OwnResponse
<1>5. Buffered'
  BY <1>2, <1>3 DEF ResponseInv, Buffered
<1>6. InOrder'
  BY <1>3, SameUnread DEF ResponseInv, InOrder
<1> QED BY <1>4, <1>5, <1>6 DEF ResponseInv

\* PeerCloses: what was sent before the close can still be read.
LEMMA PeerClosesResponse ==
  ASSUME DeadlineInv, ResponseInv, PeerCloses PROVE ResponseInv'
<1>1. UNCHANGED <<pc, call, op, hq, woken, buf, parser, cut, out, from>>
  BY DEF PeerCloses
<1>2. PICK k \in 0..Len(stream) : stream' = SubSeq(stream, 1, k)
  BY DEF PeerCloses
<1>3. /\ stream' \in Seq(Chunk)
      /\ Own(Unread) => Own(Unread)'
      /\ Quiet(Unread) => Quiet(Unread)'
      /\ Stale(Unread) => Stale(Unread)' \/ Own(Unread)'
  BY <1>1, <1>2, Truncated DEF ResponseInv
<1>4. ResponseType' /\ ParserInStep' /\ OwnUnlessCut' /\ Buffered'
  BY <1>1, <1>3 DEF ResponseInv, ResponseType, ParserInStep, OwnUnlessCut, OwnResponse, Buffered
<1>5. InOrder'
  BY <1>1, <1>3 DEF ResponseInv, InOrder
<1> QED BY <1>4, <1>5 DEF ResponseInv

\* RunHandler: check_deadline may close the connection; what the end of a read has
\* announced is in buf_.
LEMMA RunHandlerResponse ==
  ASSUME DeadlineInv, ResponseInv, RunHandler PROVE ResponseInv'
<1>1. hq \in Seq(HandlerNames) /\ hq # <<>> /\ Tail(hq) \in Seq(HandlerNames)
  BY DEF DeadlineInv, HandlerType, RunHandler
<1>2. UNCHANGED <<pc, call, buf, parser, cut, out, from>>
  BY DEF RunHandler
<1>3. HasOk(hq') \/ (woken' = "ok" /\ woken # "ok") => HasOk(hq)
  <2>1. HasOk(Tail(hq)) \/ Head(hq) = "ok" => HasOk(hq)
    BY <1>1, OkDequeued
  <2>2. HasOk(Tail(hq) \o Cancelled) => HasOk(Tail(hq))
    BY <1>1, OkCancelled
  <2>3. HasOk(Append(Tail(hq), "abort")) => HasOk(Tail(hq))
    BY <1>1, OkQueued DEF HandlerNames, Ends
  <2>4. \/ hq' \in {Tail(hq) \o Cancelled, Tail(hq), Append(Tail(hq), "abort")} /\ woken' = woken
        \/ hq' = Tail(hq) /\ woken' = Head(hq)
    BY DEF RunHandler, ClearTimeout, CheckDeadline
  <2> QED BY <2>1, <2>2, <2>3, <2>4
<1>4. (op' = op \/ op' = "none") /\ (stream' = stream \/ stream' = <<>>)
  BY DEF RunHandler, CheckDeadline, Close, session
<1>5. /\ stream' \in Seq(Chunk)
      /\ Own(Unread) => Own(Unread)'
      /\ Quiet(Unread) => Quiet(Unread)'
      /\ Stale(Unread) => Stale(Unread)' \/ Own(Unread)'
  BY <1>2, <1>4, Closed, SameUnread DEF ResponseInv, ResponseType
<1>6. ResponseType' /\ ParserInStep' /\ OwnUnlessCut'
  BY <1>2, <1>5 DEF ResponseInv, ResponseType, ParserInStep, OwnUnlessCut, OwnResponse
<1>7. Buffered'
  BY <1>2, <1>3, <1>4 DEF ResponseInv, Buffered
<1>8. InOrder'
  BY <1>2, <1>4, <1>5 DEF ResponseInv, InOrder
<1> QED BY <1>6, <1>7, <1>8 DEF ResponseInv
\* OpEnds: a write brings the present call's response behind what is left of another;
\* a read moves the first chunk to buf_.
LEMMA OpEndsResponse ==
  ASSUME DeadlineInv, ResponseInv, OpEnds PROVE ResponseInv'
<1>0. /\ op = "pending" /\ op' = "none" /\ woken = "none" /\ NoEnd(hq)
      /\ UNCHANGED <<pc, call, woken, parser, cut, out, from>>
      /\ hq \in Seq(HandlerNames)
  BY DEF OpEnds, DeadlineInv, OneEnd, HandlerType
<1>1. /\ buf = <<>> /\ stream \in Seq(Chunk) /\ Unread = stream /\ ~HasOk(hq)
      /\ call \in Nat \ {0}
  <2>1. pc # "idle"
    BY <1>0 DEF DeadlineInv, OneEnd
  <2>2. call \in Nat \ {0} /\ stream \in Seq(Chunk)
    BY <2>1 DEF ResponseInv, ResponseType
  <2>3. buf = <<>> /\ ~HasOk(hq)
    BY <1>0, NoEndNoOk DEF ResponseInv, Buffered
  <2> QED BY <2>2, <2>3 DEF Unread
<1>2. ParserInStep' /\ OwnUnlessCut'
  BY <1>0 DEF ResponseInv, ParserInStep, OwnUnlessCut, OwnResponse
<1>3. CASE pc = "connect" /\ UNCHANGED <<stream, buf>>
  <2>1. ResponseType' /\ Buffered'
    BY <1>0, <1>1, <1>3 DEF ResponseInv, ResponseType, Buffered
  <2>2. InOrder'
    BY <1>0, <1>3, SameUnread DEF ResponseInv, InOrder
  <2> QED BY <1>2, <2>1, <2>2 DEF ResponseInv
<1>4. CASE /\ pc = "write" /\ UNCHANGED buf
           /\ \/ stream' = stream
              \/ stream' = stream \o [i \in 1..Chunks |-> [call |-> call, n |-> i]]
  <2> DEFINE rsp == [i \in 1..Chunks |-> [call |-> call, n |-> i]]
  <2>1. rsp \in Seq(Chunk) /\ Len(rsp) = Chunks /\ \A i \in 1..Chunks : rsp[i] = [call |-> call, n |-> i]
    BY <1>1, ChunksAssumption DEF Chunk
  <2> HIDE DEF rsp
  <2>2. stream' \in Seq(Chunk)
    <3>1. stream' = stream \/ stream' = stream \o rsp
      BY <1>4 DEF rsp
    <3>2. stream \o rsp \in Seq(Chunk)
      BY <1>1, <2>1
    <3> QED BY <1>1, <3>1, <3>2
  <2>3. Unread' = stream' /\ Quiet(Unread)
    BY <1>0, <1>1, <1>4, <2>2 DEF Unread, ResponseInv, InOrder
  <2>4. ResponseType' /\ Buffered'
    BY <1>0, <1>1, <1>4, <2>2 DEF ResponseInv, ResponseType, Buffered
  <2>5. Stale(Unread)' \/ Own(Unread)'
    <3>1. CASE stream' = stream
      BY <3>1, <1>0, <1>4, <2>3, SameUnread, NothingUnread DEF Quiet
    <3>2. CASE stream' = stream \o rsp /\ stream = <<>>
      <4>1. stream' = rsp
        BY <2>1, <3>2
      <4>2. \A i \in 1..Len(rsp) : rsp[i].call = call /\ rsp[i].n = rsp[1].n + (i - 1)
        BY <2>1, ChunksAssumption
      <4> QED BY <1>0, <2>3, <4>1, <4>2 DEF Own
    <3>3. CASE stream' = stream \o rsp /\ stream # <<>>
      <4>1. stream'[1] = stream[1] /\ stream' # <<>>
        BY <1>1, <2>1, <3>3
      <4> QED BY <1>0, <1>1, <2>3, <3>3, <4>1 DEF Stale, Quiet
    <3> QED BY <1>4, <3>1, <3>2, <3>3 DEF rsp
  <2>6. InOrder'
    BY <1>0, <1>4, <2>5 DEF InOrder
  <2> QED BY <1>2, <2>4, <2>6 DEF ResponseInv
<1>5. CASE /\ pc = "read" /\ stream # <<>>
           /\ buf' = <<Head(stream)>> /\ stream' = Tail(stream)
  <2>1. /\ buf' \in Seq(Chunk) /\ stream' \in Seq(Chunk) /\ Len(buf') = 1
        /\ buf' \o stream' = stream
    BY <1>1, <1>5
  <2>2. Unread' = Unread
    BY <1>1, <2>1 DEF Unread
  <2>3. ResponseType' /\ Buffered'
    BY <1>0, <1>5, <2>1 DEF ResponseInv, ResponseType, Buffered
  <2>4. InOrder'
    BY <1>0, <1>5, <2>2 DEF ResponseInv, InOrder, Stale, Own
  <2> QED BY <1>2, <2>3, <2>4 DEF ResponseInv
<1>6. CASE /\ pc = "read" /\ UNCHANGED <<stream, buf>>
           /\ \E e \in {"eof", "err"} : hq' = Append(hq, e)
  <2>1. ~HasOk(hq')
    BY <1>0, <1>1, <1>6, OkQueued DEF HandlerNames, Ends
  <2>2. ResponseType' /\ Buffered'
    BY <1>0, <1>1, <1>6, <2>1 DEF ResponseInv, ResponseType, Buffered
  <2>3. InOrder'
    BY <1>0, <1>6, SameUnread DEF ResponseInv, InOrder
  <2> QED BY <1>2, <2>2, <2>3 DEF ResponseInv
<1> QED BY <1>3, <1>4, <1>5, <1>6 DEF OpEnds

\* SendRequest: what is left on the connection is no response to this call.
LEMMA SendRequestResponse ==
  ASSUME DeadlineInv, ResponseInv, SendRequest PROVE ResponseInv'
<1>0. /\ pc = "idle" /\ call' = call + 1 /\ out' = "pending" /\ woken' = "none"
      /\ cut' = IF parser = 0 THEN "no" ELSE cut
      /\ UNCHANGED <<stream, buf, parser>> /\ pc' \in {"connect", "write"}
  BY DEF SendRequest, DeadlineInv, OneEnd
<1>1. buf = <<>> /\ Quiet(Unread)
  BY <1>0 DEF ResponseInv, Buffered, InOrder
<1>2. ResponseType' /\ Buffered' /\ ParserInStep' /\ OwnUnlessCut'
  BY <1>0, <1>1 DEF ResponseInv, ResponseType, Buffered, ParserInStep, OwnUnlessCut, OwnResponse
<1>3. Quiet(Unread)' /\ (Stale(Unread)' \/ Own(Unread)')
  BY <1>0, <1>1 DEF Quiet, Stale, Own, Unread
<1>4. InOrder'
  BY <1>0, <1>3 DEF InOrder
<1> QED BY <1>2, <1>4 DEF ResponseInv

\* AfterConnect and AfterWrite: the call goes on, or ends and closes the connection.
LEMMA AfterConnectResponse ==
  ASSUME DeadlineInv, ResponseInv, AfterConnect PROVE ResponseInv'
<1>0. /\ pc = "connect" /\ woken' = "none"
      /\ UNCHANGED <<call, buf, parser, cut, from>>
      /\ \/ pc' = "write" /\ UNCHANGED <<out, stream>>
         \/ pc' = "idle" /\ out' = "retry" /\ stream' = <<>>
  BY DEF AfterConnect, Resume, Close, session
<1>1. buf = <<>> /\ Quiet(Unread)
  BY <1>0 DEF ResponseInv, Buffered, InOrder
<1>2. stream' \in Seq(Chunk) /\ Quiet(Unread)'
  BY <1>0, <1>1, Closed, SameUnread DEF ResponseInv, ResponseType
<1>3. ResponseType' /\ Buffered' /\ ParserInStep' /\ OwnUnlessCut'
  BY <1>0, <1>1, <1>2 DEF ResponseInv, ResponseType, Buffered, ParserInStep, OwnUnlessCut, OwnResponse
<1>4. Stale(Unread)' \/ Own(Unread)'
  BY <1>2 DEF Quiet, Own
<1>5. InOrder'
  BY <1>0, <1>2, <1>4 DEF InOrder
<1> QED BY <1>3, <1>5 DEF ResponseInv

\* AfterWrite: the response can come only now, and the first read begins.
LEMMA AfterWriteResponse ==
  ASSUME DeadlineInv, ResponseInv, AfterWrite PROVE ResponseInv'
<1>0. /\ pc = "write" /\ woken # "none" /\ woken' = "none"
      /\ UNCHANGED <<call, buf, parser, cut, from>> /\ hq' = hq \o Cancelled
      /\ \/ pc' = "read" /\ UNCHANGED <<out, stream>>
         \/ pc' = "idle" /\ out' = "retry" /\ stream' = <<>>
  BY DEF AfterWrite, Resume, Close, session, ReadTimeout, PrepareTimeout, ClearTimeout
<1>1. buf = <<>> /\ (Stale(Unread) \/ Own(Unread))
  BY <1>0 DEF ResponseInv, Buffered, InOrder
<1>2. ~HasOk(hq')
  BY <1>0, OkCancelled, NoEndNoOk DEF DeadlineInv, HandlerType, OneEnd
<1>3. CASE pc' = "read" /\ UNCHANGED <<out, stream>>
  <2>1. ResponseType' /\ Buffered' /\ ParserInStep' /\ OwnUnlessCut'
    BY <1>0, <1>1, <1>2, <1>3 DEF ResponseInv, ResponseType, Buffered, ParserInStep, OwnUnlessCut,
                                  OwnResponse
  <2>2. InOrder'
    BY <1>0, <1>1, <1>3, SameUnread DEF InOrder
  <2> QED BY <2>1, <2>2 DEF ResponseInv
<1>4. CASE pc' = "idle" /\ out' = "retry" /\ stream' = <<>>
  <2>1. Unread' = <<>>
    BY <1>0, <1>1, <1>4 DEF Unread
  <2>2. ResponseType' /\ Buffered' /\ ParserInStep' /\ OwnUnlessCut'
    BY <1>0, <1>1, <1>4 DEF ResponseInv, ResponseType, Buffered, ParserInStep, OwnUnlessCut, OwnResponse
  <2>3. InOrder'
    BY <1>4, <2>1 DEF InOrder, Quiet
  <2> QED BY <2>2, <2>3 DEF ResponseInv
<1> QED BY <1>0, <1>3, <1>4
\* The first unread chunk is the one in buf_; the others follow it.
LEMMA FirstUnread ==
  ASSUME ResponseType, Len(buf) = 1
  PROVE  /\ buf[1] \in Chunk /\ Unread # <<>> /\ Unread[1] = buf[1]
         /\ Own(Unread) => /\ buf[1].call = call
                           /\ \A i \in 1..Len(stream) : stream[i].call = call /\ stream[i].n = buf[1].n + i
<1>1. /\ buf \in Seq(Chunk) /\ stream \in Seq(Chunk) /\ Len(stream) \in Nat
  BY DEF ResponseType
<1>2. /\ buf[1] \in Chunk /\ Len(Unread) = Len(stream) + 1 /\ Unread \in Seq(Chunk)
      /\ Unread[1] = buf[1]
  <2>1. /\ Unread \in Seq(Chunk) /\ Len(Unread) = Len(buf) + Len(stream)
        /\ \A i \in 1..Len(buf) + Len(stream) :
             Unread[i] = IF i <= Len(buf) THEN buf[i] ELSE stream[i - Len(buf)]
    BY <1>1, ConcatProperties DEF Unread
  <2>2. buf[1] \in Chunk /\ Unread[1] = buf[1]
    BY <1>1, <2>1
  <2> QED BY <1>1, <2>1, <2>2
<1>3. \A i \in 1..Len(stream) : Unread[i + 1] = stream[i] /\ i + 1 \in 1..Len(Unread)
  BY <1>1, <1>2 DEF Unread
<1>4. Unread # <<>> /\ 1 \in 1..Len(Unread)
  BY <1>1, <1>2
<1>5. ASSUME Own(Unread), NEW i \in 1..Len(stream)
      PROVE  stream[i].call = call /\ stream[i].n = buf[1].n + i
  <2>1. Unread[i + 1].call = call /\ Unread[i + 1].n = Unread[1].n + ((i + 1) - 1)
    BY <1>3, <1>5 DEF Own
  <2>2. (i + 1) - 1 = i
    BY <1>1
  <2> QED BY <1>2, <1>3, <2>1, <2>2
<1>6. Own(Unread) => buf[1].call = call
  BY <1>2, <1>4 DEF Own
<1> QED BY <1>2, <1>4, <1>5, <1>6

\* get_response returns with the parser at a start: a connection that is kept holds
\* nothing, or a rest that does not begin a response.
LEMMA ReadReturns ==
  ASSUME ResponseInv, pc = "read", buf' = <<>>, call' = call, parser' = 0, cut' = cut,
         NEW keep, NEW o \in {"ok", "retry", "noretry"}, NEW f, Respond(keep, o, f),
         keep => stream = <<>> \/ stream[1].n # 1,
         o = "ok" /\ cut = "no" => f = call
  PROVE  ResponseInv'
<1>1. /\ pc' = "idle" /\ out' = o /\ from' = (IF o = "ok" THEN f ELSE 0)
      /\ stream' = <<>> \/ (keep /\ stream' = stream)
  BY DEF Respond, Close, session
<1>2. Unread' = stream' /\ stream' \in Seq(Chunk)
  <2>1. stream' = <<>> \/ stream' = stream
    BY <1>1
  <2>2. stream \in Seq(Chunk) /\ <<>> \in Seq(Chunk)
    BY DEF ResponseInv, ResponseType
  <2>3. stream' \in Seq(Chunk)
    BY <2>1, <2>2
  <2> QED BY <2>3 DEF Unread
<1>3. ResponseType' /\ Buffered' /\ ParserInStep'
  BY <1>1, <1>2 DEF ResponseInv, ResponseType, Buffered, ParserInStep
<1>4. OwnUnlessCut'
  BY <1>1 DEF OwnUnlessCut, OwnResponse
<1>5. InOrder'
  BY <1>1, <1>2 DEF InOrder, Quiet, Stale
<1> QED BY <1>3, <1>4, <1>5 DEF ResponseInv

\* parse goes on with the next read, or the deadline has closed the socket: a cut.
LEMMA ReadGoesOn ==
  ASSUME DeadlineInv, ResponseInv, pc = "read", woken = "ok", woken' = "none", buf' = <<>>,
         call' = call, ReadMore, parser' \in Nat, Own(Unread),
         cut = "no" => parser' = call
  PROVE  ResponseInv'
<1>0. Len(buf) = 1 /\ ~HasOk(hq)
  BY NoEndNoOk DEF ResponseInv, Buffered, DeadlineInv, OneEnd
<1>1. CASE UNCHANGED <<pc, cut, out, from, hq, stream>>
  <2>1. Unread' = stream
    BY <1>1 DEF Unread, ResponseInv, ResponseType
  <2>2. ResponseType' /\ Buffered' /\ ParserInStep'
    BY <1>0, <1>1 DEF ResponseInv, ResponseType, Buffered, ParserInStep
  <2>3. OwnUnlessCut'
    BY <1>1 DEF ResponseInv, OwnUnlessCut, OwnResponse
  <2>4. Own(Unread)'
    <3>1. \A i \in 1..Len(stream) : stream[i].call = call /\ stream[i].n = buf[1].n + i
      BY <1>0, FirstUnread DEF ResponseInv
    <3>2. buf[1].n \in Nat /\ Len(stream) \in Nat
      <4>1. buf[1] \in Chunk /\ Len(stream) \in Nat
        BY <1>0, FirstUnread DEF ResponseInv, ResponseType
      <4> QED
        BY <4>1, ChunksAssumption DEF Chunk
    <3>3. \A i \in 1..Len(stream) : stream[i].n = stream[1].n + (i - 1)
      <4>1. \A i \in 1..Len(stream) : 1 \in 1..Len(stream)
        BY <3>2
      <4> QED BY <3>1, <3>2, <4>1
    <3> QED BY <2>1, <3>1, <3>3 DEF Own
  <2>5. InOrder'
    BY <1>1, <2>4 DEF InOrder
  <2> QED BY <2>2, <2>3, <2>5 DEF ResponseInv
<1>2. CASE cut' = "yes" /\ Respond(FALSE, "retry", 0)
  <2>1. pc' = "idle" /\ out' = "retry" /\ stream' = <<>>
    BY <1>2 DEF Respond, Close
  <2>2. Unread' = <<>>
    BY <2>1 DEF Unread
  <2>3. ResponseType' /\ Buffered' /\ ParserInStep' /\ OwnUnlessCut'
    BY <1>2, <2>1 DEF ResponseInv, ResponseType, Buffered, ParserInStep, OwnUnlessCut
  <2>4. InOrder'
    BY <2>1, <2>2 DEF InOrder, Quiet
  <2> QED BY <2>3, <2>4 DEF ResponseInv
<1> QED BY <1>1, <1>2 DEF ReadMore, session

\* AfterRead: a chunk in step is the present call's; any other ends the call with an
\* error, or there was a cut.
LEMMA AfterReadResponse ==
  ASSUME DeadlineInv, ResponseInv, AfterRead PROVE ResponseInv'
<1>0. /\ pc = "read" /\ woken # "none" /\ woken' = "none" /\ buf' = <<>> /\ call' = call
      /\ Stale(Unread) \/ Own(Unread)
      /\ call \in Nat \ {0}
      /\ cut = "no" => parser \in {0, call}
      /\ parser \in Nat /\ stream \in Seq(Chunk)
  <2>1. pc = "read" /\ woken # "none" /\ woken' = "none" /\ buf' = <<>> /\ call' = call
    BY DEF AfterRead, Resume
  <2> QED BY <2>1 DEF ResponseInv, ResponseType, InOrder, ParserInStep
<1>1. CASE ParseError
  BY <1>0, <1>1, ReadReturns DEF ParseError
<1>2. CASE CompleteAtEof
  <2>1. PICK o \in {"ok", "retry", "noretry"} : Respond(FALSE, o, parser)
    BY <1>2 DEF CompleteAtEof
  <2>2. parser # 0 /\ parser' = 0 /\ cut' = cut
    BY <1>2 DEF CompleteAtEof
  <2> QED BY <1>0, <2>1, <2>2, ReadReturns
<1>3. CASE woken = "ok" /\ ParseChunk(buf[1])
  <2> DEFINE c == buf[1]
  <2>1. Len(buf) = 1
    BY <1>0, <1>3 DEF ResponseInv, Buffered
  <2>2. /\ c \in Chunk /\ Unread # <<>> /\ Unread[1] = c
        /\ Own(Unread) => /\ c.call = call
                          /\ \A i \in 1..Len(stream) : stream[i].call = call /\ stream[i].n = c.n + i
    BY <2>1, FirstUnread DEF ResponseInv
  <2> HIDE DEF c
  <2>3. c.call \in Nat \ {0} /\ c.n \in 1..Chunks
    BY <2>2 DEF Chunk
  <2>4. InStep(c) => Own(Unread)
    BY <1>0, <2>2, <2>3 DEF InStep, Stale
  <2>5. parser # 0 => Own(Unread)
    BY <1>0 DEF Stale
  <2>6. \A i \in 1..Len(stream) : stream[i] \in Chunk
    BY <1>0
  <2>7. Own(Unread) /\ stream # <<>> => stream[1].n = c.n + 1 /\ stream[1].n \in 1..Chunks
    <3> SUFFICES ASSUME Own(Unread), stream # <<>>
                 PROVE  stream[1].n = c.n + 1 /\ stream[1].n \in 1..Chunks
      OBVIOUS
    <3>1. 1 \in 1..Len(stream)
      BY <1>0
    <3> QED BY <2>2, <2>6, <3>1 DEF Chunk
  <2>8. CASE InStep(c) /\ c.n = Chunks /\ Complete(c.call)
    <3>1. PICK keep \in BOOLEAN, o \in {"ok", "retry", "noretry"} : Respond(keep, o, c.call)
      BY <2>8 DEF Complete
    <3>2. parser' = 0 /\ cut' = cut
      BY <2>8 DEF Complete
    <3>3. stream = <<>> /\ c.call = call
      BY <2>2, <2>3, <2>4, <2>7, <2>8, ChunksAssumption
    <3> QED BY <1>0, <3>1, <3>2, <3>3, ReadReturns
  <2>9. CASE InStep(c) /\ parser' = c.call /\ ReadMore
    BY <1>0, <1>3, <2>2, <2>3, <2>4, <2>9, ReadGoesOn
  <2>10. CASE ~InStep(c) /\ parser # 0 /\ Complete(0)
    <3>1. PICK keep \in BOOLEAN, o \in {"ok", "retry", "noretry"} : Respond(keep, o, 0)
      BY <2>10 DEF Complete
    <3>2. parser' = 0 /\ cut' = cut
      BY <2>10 DEF Complete
    <3>3. cut # "no"
      BY <1>0, <2>2, <2>5, <2>10 DEF InStep
    <3>4. stream = <<>> \/ stream[1].n # 1
      BY <2>3, <2>5, <2>7, <2>10, ChunksAssumption
    <3> QED BY <1>0, <3>1, <3>2, <3>3, <3>4, ReadReturns
  <2>11. CASE ~InStep(c) /\ parser # 0 /\ parser' = parser /\ ReadMore
    <3>1. cut # "no"
      BY <1>0, <2>2, <2>5, <2>11 DEF InStep
    <3> QED BY <1>0, <1>3, <2>5, <2>11, <3>1, ReadGoesOn
  <2> QED BY <1>1, <1>3, <2>8, <2>9, <2>10, <2>11 DEF ParseChunk, c
<1> QED BY <1>1, <1>2, <1>3 DEF AfterRead

\* Every step keeps the invariant.
LEMMA ResponseStep == ASSUME DeadlineInv, ResponseInv, [HttpNext]_httpVars PROVE ResponseInv'
<1>1. CASE UNCHANGED httpVars
  <2>1. ResponseType' /\ Buffered' /\ ParserInStep' /\ OwnUnlessCut'
    BY <1>1 DEF httpVars, ResponseInv, ResponseType, Buffered, ParserInStep, OwnUnlessCut, OwnResponse
  <2>2. InOrder'
    BY <1>1, SameUnread DEF httpVars, ResponseInv, InOrder
  <2> QED BY <2>1, <2>2 DEF ResponseInv
<1> QED
  BY <1>1, TimerExpiresResponse, OpEndsResponse, PeerClosesResponse, RunHandlerResponse,
     SendRequestResponse, AfterConnectResponse, AfterWriteResponse, AfterReadResponse DEF HttpNext

\* The pooled client hands each call its own response, however many calls, reads,
\* errors, closes and other statuses came before, unless a deadline has ended a
\* response between two reads: every other end of get_response leaves the parser at a
\* start, and the connection closed or without the beginning of a response.
THEOREM ResponsesAreOwn == HttpSpec => []OwnUnlessCut
<1>1. HttpInit => DeadlineInv /\ ResponseInv
  BY DeadlineInit, ResponseInit
<1>2. (DeadlineInv /\ ResponseInv) /\ [HttpNext]_httpVars => (DeadlineInv /\ ResponseInv)'
  BY DeadlineStep, ResponseStep
<1>3. DeadlineInv /\ ResponseInv => OwnUnlessCut
  BY DEF ResponseInv
<1> QED BY <1>1, <1>2, <1>3, PTL DEF HttpSpec
=============================================================================
