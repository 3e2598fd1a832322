------------------------- MODULE FibpForwardManager -------------------------
(***************************************************************************)
(* FibpForwardManager: one request is a list of service calls.  Its fiber  *)
(* hands the calls to fibers of the pool, waits for all of them, confirms  *)
(* or cancels the transaction if it is one, and answers.  Each call tries  *)
(* up to MAX_RETRY hosts.  The last good response of a call is cached and  *)
(* stands in for a later failure.                                          *)
(*                                                                         *)
(* Requests follow one another here; what they share is the cache and the  *)
(* table of addresses.                                                     *)
(***************************************************************************)
EXTENDS Naturals, Sequences, FiniteSets

CONSTANTS MaxRequests,  \* bound on the number of requests
          MaxNum,       \* bound on the number of calls of a request
          MaxRetry,     \* MAX_RETRY, 3 in the code
          MaxRand,      \* rand() is in 0..MaxRand
          Hosts,        \* hosts of the service: numbers, in the order of their addresses
          Kinds         \* what a call can be: [type, local, cache]

ASSUME RequestsAssumption == MaxRequests \in Nat /\ MaxNum \in Nat \ {0}
ASSUME RetryAssumption == MaxRetry \in Nat \ {0} /\ MaxRand \in Nat
ASSUME KindsAssumption ==
  Kinds \subseteq [type: {"http", "other"}, local: {"no", "yes"}, cache: {"no", "yes"}]
ASSUME HostsAssumption == IsFiniteSet(Hosts) /\ Hosts \subseteq Nat \ {0}

VARIABLES
  req,       \* history: number of the present request
  phase,     \* its fiber: idle (answered), inline (one call, made by itself),
             \* fork, wait, woken, settle (confirm or cancel)
  num,       \* call_api_list.size()
  tx,        \* do_transaction
  kind,      \* the calls
  forked,    \* calls handed to the pool
  callnum,   \* call_num
  st,        \* each call: off, queued, send, wait, done
  tries,     \* retry_counter
  index,     \* balance_index
  rsp,       \* rsp_list
  table,     \* the service's addresses
  cache,     \* service_cache_, by call: responses
  tried,     \* history: the hosts a call has tried
  stable,    \* history: calls during which the table has not changed
  settled    \* history: the confirms and cancels sent for this request

vars == <<req, phase, num, tx, kind, forked, callnum, st, tries, index, rsp, table,
          cache, tried, stable, settled>>
request == <<req, num, tx, kind>>

Slots == 1..MaxNum

\* A ServiceCallRsp.  id and by are what the text of the response says: the request
\* that it answers, whose number stands for the transaction id in it (0 in an empty
\* text), and the host it comes from.  Errors: notfound, sendfail, rspfail, nothttp.
BlankRsp == [error |-> "none", id |-> 0, by |-> 0, host |-> 0, cached |-> "no"]

\* The tables of addresses: a list that is filled from a std::set, hence in order.
Tables ==
  {t \in UNION {[1..n -> Hosts] : n \in 0..Cardinality(Hosts)} :
     \A i, j \in DOMAIN t : i < j => t[i] < t[j]}

Init ==
  /\ req = 0 /\ phase = "idle" /\ num = 0 /\ tx = "no"
  /\ kind \in {[i \in Slots |-> k] : k \in Kinds}
  /\ forked = 0 /\ callnum = 0
  /\ st = [i \in Slots |-> "off"]
  /\ tries = [i \in Slots |-> 0]
  /\ index = [i \in Slots |-> 0]
  /\ rsp = [i \in Slots |-> BlankRsp]
  /\ table \in Tables
  /\ cache = [i \in Slots |-> BlankRsp]
  /\ tried = [i \in Slots |-> {}]
  /\ stable = {} /\ settled = {}
-----------------------------------------------------------------------------
(* The request's fiber.                                                    *)

\* call_services_in_fiber up to its first yield.  A transaction of calls that are
\* not all HTTP is answered at once, with errors.
CallServices ==
  /\ phase = "idle"
  /\ req < MaxRequests
  /\ req' = req + 1
  /\ \E n \in 1..MaxNum, t \in {"no", "yes"}, k \in [Slots -> Kinds] :
       /\ \A i \in Slots : i > n => k[i] = kind[i]
       /\ num' = n /\ tx' = t /\ kind' = k
       /\ \/ /\ t = "yes" /\ \E i \in 1..n : k[i].type # "http"
             /\ rsp' = [i \in Slots |-> IF i <= n THEN [BlankRsp EXCEPT !.error = "nothttp"]
                                                  ELSE BlankRsp]
             /\ st' = [i \in Slots |-> "off"]
             /\ UNCHANGED <<phase, callnum>>
          \/ /\ t = "no" \/ \A i \in 1..n : k[i].type = "http"
             /\ rsp' = [i \in Slots |-> BlankRsp]
             /\ \/ /\ n = 1
                   /\ phase' = "inline"
                   /\ st' = [i \in Slots |-> IF i = 1 THEN "queued" ELSE "off"]
                   /\ callnum' = 0
                \/ /\ n > 1
                   /\ phase' = "fork"
                   /\ st' = [i \in Slots |-> "off"]
                   /\ callnum' = n
  /\ forked' = 0
  /\ tries' = [i \in Slots |-> 0]
  /\ index' = [i \in Slots |-> 0]
  /\ tried' = [i \in Slots |-> {}]
  /\ stable' = {} /\ settled' = {}
  /\ UNCHANGED <<table, cache>>

\* pool.schedule_task_from_fiber: the fiber yields after each call it hands over.
Fork ==
  /\ phase = "fork"
  /\ forked < num
  /\ forked' = forked + 1
  /\ st' = [st EXCEPT ![forked + 1] = "queued"]
  /\ UNCHANGED <<phase, callnum, tries, index, rsp, table, cache, tried, stable,
                 settled, request>>

\* All calls have ended: the transaction follows, or the answer (cb).
AfterCalls == phase' = IF tx = "yes" THEN "settle" ELSE "idle"

\* Mutant of Join: the fiber waits once, whether or not calls remain.
JoinOnce ==
  /\ (phase = "fork" /\ forked = num) \/ phase = "woken"
  /\ IF phase = "woken" THEN AfterCalls ELSE phase' = "wait"
  /\ UNCHANGED <<forked, callnum, st, tries, index, rsp, table, cache, tried, stable,
                 settled, request>>

\* while (call_num > 0) cond.wait(guard)
Join ==
  /\ (phase = "fork" /\ forked = num) \/ phase = "woken"
  /\ IF callnum > 0 THEN phase' = "wait" ELSE AfterCalls
  /\ UNCHANGED <<forked, callnum, st, tries, index, rsp, table, cache, tried, stable,
                 settled, request>>
-----------------------------------------------------------------------------
(* A call: call_single_service.                                            *)

\* Mutant of Notified: call_num is tested before it is decremented.
NotifiedEarly == IF callnum = 2 /\ phase = "wait" THEN "woken" ELSE phase

\* if (call_num == 0) cond.notify_all()
Notified == IF callnum = 1 /\ phase = "wait" THEN "woken" ELSE phase

\* What follows call_single_service: the request's fiber goes on by itself if it
\* made the call; else the last call to end notifies it.
EndCall(i) ==
  /\ st' = [st EXCEPT ![i] = "done"]
  /\ IF phase = "inline"
     THEN AfterCalls /\ UNCHANGED callnum
     ELSE /\ callnum' = callnum - 1
          /\ phase' = Notified

\* FibpServiceCache::set
CacheSet(i, r) ==
  cache' = IF r.error = "none" /\ kind[i].cache = "yes" THEN [cache EXCEPT ![i] = r]
                                                        ELSE cache

\* FibpServiceCache::get, for a call that ends with response r.  The cache may
\* have dropped the entry.
CacheGet(i, r) ==
  \/ rsp' = [rsp EXCEPT ![i] = r]
  \/ /\ kind[i].cache = "yes" /\ cache[i].id # 0
     /\ rsp' = [rsp EXCEPT ![i] = [cache[i] EXCEPT !.cached = "yes"]]

\* The call ends without success, with response r.
GiveUp(i, r) == CacheGet(i, r) /\ EndCall(i) /\ UNCHANGED cache

\* Mutant of NextIndex: the index is not advanced between tries.
NextIndexSame(b) == b

\* ++balance_index, and the end of while (++retry_counter <= MAX_RETRY).
NextIndex(b) == b + 1
LastTry(i) == tries[i] = MaxRetry

\* get_service_address
Address(b) == table[(b % Len(table)) + 1]

\* One more turn of the retry loop, entered with response r and index b, up to the
\* yield in send_request.
Attempt(i, r, b) ==
  \/ /\ LastTry(i)
     /\ GiveUp(i, r)
     /\ UNCHANGED <<tries, index, tried>>
  \/ /\ ~LastTry(i)
     /\ tries' = [tries EXCEPT ![i] = @ + 1]
     /\ index' = [index EXCEPT ![i] = NextIndex(b)]
     /\ \/ /\ table = <<>>
           /\ GiveUp(i, [r EXCEPT !.error = "notfound"])
           /\ UNCHANGED tried
        \/ /\ table # <<>>
           /\ st' = [st EXCEPT ![i] = "send"]
           /\ rsp' = [rsp EXCEPT ![i] = [r EXCEPT !.host = Address(NextIndex(b))]]
           /\ tried' = [tried EXCEPT ![i] = @ \cup {Address(NextIndex(b))}]
           /\ UNCHANGED <<phase, callnum, cache>>

\* The call's fiber runs for the first time.  rand() gives the first index.
StartCall(i) ==
  /\ st[i] = "queued"
  /\ \/ /\ kind[i].local = "yes"
        /\ EndCall(i)
        /\ UNCHANGED <<tries, index, rsp, cache, tried, stable>>
     \/ /\ kind[i].local = "no"
        /\ stable' = stable \cup {i}
        /\ \E b \in 0..MaxRand : Attempt(i, rsp[i], b)
  /\ UNCHANGED <<forked, table, settled, request>>

\* Mutant of SendError: the error is set one try late.
SendErrorLate(i) == IF tries[i] > MaxRetry THEN "sendfail" ELSE rsp[i].error

\* if (retry_counter == MAX_RETRY) rsp.error = "Send Service Request Failed. "
SendError(i) == IF tries[i] = MaxRetry THEN "sendfail" ELSE rsp[i].error

\* The request was sent, or send_request returned null and the loop continues.
Sent(i) ==
  /\ st[i] = "send"
  /\ \/ /\ st' = [st EXCEPT ![i] = "wait"]
        /\ UNCHANGED <<phase, callnum, tries, index, rsp, cache, tried>>
     \/ Attempt(i, [rsp[i] EXCEPT !.error = SendError(i)], index[i])
  /\ UNCHANGED <<forked, table, stable, settled, request>>

\* get_response returns: a response of the host, or a failure after which the call
\* may be retried, or not.
Responded(i) ==
  /\ st[i] = "wait"
  /\ \/ LET r == [rsp[i] EXCEPT !.id = req, !.by = rsp[i].host]
        IN  /\ rsp' = [rsp EXCEPT ![i] = r]
            /\ CacheSet(i, r)
            /\ EndCall(i)
            /\ UNCHANGED <<tries, index, tried>>
     \/ /\ GiveUp(i, [rsp[i] EXCEPT !.error = "rspfail"])
        /\ UNCHANGED <<tries, index, tried>>
     \/ /\ ~LastTry(i)
        /\ Attempt(i, rsp[i], index[i])
  /\ UNCHANGED <<forked, table, stable, settled, request>>
-----------------------------------------------------------------------------
(* The transaction: FibpTransactionMgr.                                    *)

\* get_transaction_id.  The third argument of find is the number of characters of
\* the first that are compared, 10, and not a limit of the search: it looks for
\* the quote followed by the zero byte that ends the literal, which no JSON text
\* holds, and returns an empty id.
TransactionId(r) == 0

NeedCancel == \E i \in 1..num : rsp[i].error # "none"

\* Calls that the transaction phase has still to see to.
Unsettled == {i \in 1..num : \A a \in settled : a.call < i}

\* The loop over rsp_list, one call at a time: a confirm or a cancel is sent, and
\* whether it succeeded is not looked at; calls without an id are not cancelled.
\* After the last one comes the answer.  transaction_mgr_ is never created; its
\* methods use no member and run all the same in the default build, which has
\* NDEBUG (else shared_ptr asserts and the process aborts here).
Settle ==
  /\ phase = "settle"
  /\ LET todo == {i \in Unsettled : ~NeedCancel \/ TransactionId(rsp[i]) # 0}
     IN  IF todo = {}
         THEN phase' = "idle" /\ UNCHANGED settled
         ELSE LET i == CHOOSE i \in todo : \A j \in todo : i <= j
              IN  /\ settled' = settled \cup
                       {[act |-> IF NeedCancel THEN "cancel" ELSE "confirm", call |-> i,
                         id |-> TransactionId(rsp[i]), host |-> rsp[i].host]}
                  /\ UNCHANGED phase
  /\ UNCHANGED <<forked, callnum, st, tries, index, rsp, table, cache, tried, stable,
                 request>>
-----------------------------------------------------------------------------
\* The service manager changes the addresses.
TableChanges ==
  /\ table' \in Tables \ {table}
  /\ stable' = {}
  /\ UNCHANGED <<phase, forked, callnum, st, tries, index, rsp, cache, tried, settled,
                 request>>

CallStep(i) == StartCall(i) \/ Sent(i) \/ Responded(i)

Next ==
  \/ CallServices \/ Fork \/ Join \/ Settle \/ TableChanges
  \/ \E i \in Slots : CallStep(i)

Spec == Init /\ [][Next]_vars

\* Ready fibers run, and a wait for a response ends by its timeout.
Fairness ==
  /\ WF_vars(Fork) /\ WF_vars(Join)
  /\ \A i \in Slots : WF_vars(StartCall(i)) /\ WF_vars(Responded(i))

FairSpec == Spec /\ Fairness
-----------------------------------------------------------------------------
Ended(i) == i <= num /\ st[i] = "done"

\* The request goes on only when all its calls have ended, and no notification is
\* lost: while it waits a call is still to end, although calls end while it is
\* still handing over others (call_num is set before the first is handed over).
JoinsAll ==
  /\ phase = "settle" => \A i \in 1..num : st[i] = "done"
  /\ phase \in {"fork", "wait", "woken"} =>
       callnum = Cardinality({i \in 1..num : st[i] # "done"})
  /\ phase = "wait" => callnum > 0

\* A call that has ended has an error or a response (of a host, or of the cache):
\* no path through the retry loop ends with neither.  host and port in the response
\* are those of the host that gave it, also after retries, and also when it is an old
\* response of the cache; confirm and cancel are sent there.
NoSilentFailure ==
  \A i \in Slots : Ended(i) =>
    /\ kind[i].local = "no" => (rsp[i].error = "none" <=> rsp[i].id # 0)
    /\ rsp[i].id # 0 => rsp[i].host = rsp[i].by

\* Load balance: as long as the addresses do not change, each retry goes to a host
\* not yet tried, until all have been.
RetriesSpread ==
  \A i \in stable : table # <<>> =>
    Cardinality(tried[i]) = IF tries[i] < Len(table) THEN tries[i] ELSE Len(table)

\* Every request is answered, provided that no send and no confirm or cancel lasts
\* for ever (a write has no deadline).
RequestsAnswered ==
  (\A i \in Slots : []<>(st[i] # "send")) /\ []<>(phase # "settle")
    => (phase # "idle" ~> phase = "idle")

\* A confirm or cancel carries the transaction id of the call's response.
SettledById == \A a \in settled : a.id = rsp[a.call].id

\* A transaction is confirmed only if every call of it has succeeded.
ConfirmedIfAllSucceeded ==
  \A a \in settled : a.act = "confirm" => \A i \in 1..num : rsp[i].id = req
=============================================================================
