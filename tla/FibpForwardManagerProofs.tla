---------------------- MODULE FibpForwardManagerProofs ----------------------
(***************************************************************************)
(* Proofs about FibpForwardManager, for any number of requests, of calls   *)
(* per request, of retries and of hosts: the request's fiber waits for all *)
(* calls and misses no notification, no call ends with neither an error    *)
(* nor a response, and retries go to hosts that were not tried; and about  *)
(* the pool of HTTP clients, FibpClientMgr, from which the calls take      *)
(* theirs, for any number of fibers and any limit.                         *)
(*                                                                         *)
(* JoinInv, RspInv and SpreadInv are inductive. JoinInv adds to JoinsAll   *)
(* where the calls can be in each phase: call_num is set before the first  *)
(* call is handed over, so that calls not yet handed over are counted too. *)
(* RspInv says that a call on its way has no error yet, so that the error  *)
(* is set exactly when the loop ends. SpreadInv says which hosts a call    *)
(* has tried: those of as many consecutive indexes as it has made tries.   *)
(*                                                                         *)
(* Of the clients, MgrInv, which says that none is used twice, that none   *)
(* is lost, and what client_num_ counts, is inductive as it stands.        *)
(***************************************************************************)
EXTENDS FibpClientMgr, FibpForwardManager, FiniteSetTheorems, TLAPS
-----------------------------------------------------------------------------
(* The clients.                                                            *)

\* A type that is added to the table counts once, and the table never holds more
\* than the shared types (FibpClientMgr.cpp, client_num_).
LEMMA TableSize ==
  ASSUME NEW T \in SUBSET Shared
  PROVE  /\ Cardinality(T) \in Nat
         /\ Cardinality(T) <= Cardinality(Shared)
         /\ Cardinality(Shared) \in Nat
         /\ \A t \in Shared \ T : Cardinality(T \cup {t}) = Cardinality(T) + 1
<1>1. IsFiniteSet(T) /\ IsFiniteSet(Shared)
  BY FS_Subset, ClientAssumption
<1>2. Cardinality(T) \in Nat /\ Cardinality(Shared) \in Nat
  BY <1>1, FS_CardinalityType
<1>3. Cardinality(T) <= Cardinality(Shared)
  BY <1>1, FS_Subset
<1>4. \A t \in Shared \ T : Cardinality(T \cup {t}) = Cardinality(T) + 1
  BY <1>1, FS_AddElement
<1> QED BY <1>2, <1>3, <1>4

\* Initially there are no clients.
LEMMA ClientsInit == MgrInit => MgrInv
<1> SUFFICES ASSUME MgrInit PROVE MgrInv
  OBVIOUS
<1> USE DEF MgrInit
<1>1. MgrTypeOK
  BY DEF MgrTypeOK
<1>2. Exclusive /\ NoneLost /\ \A f \in Fibers : Using(f) => uses[f] # 0
  BY DEF Exclusive, NoneLost, Using
<1>3. LimitKept
  BY TableSize, FS_EmptySet, ClientAssumption DEF LimitKept
<1> QED BY <1>1, <1>2, <1>3 DEF MgrInv

\* Popping the first client of the pool keeps the clients apart.
LEMMA TakeInv ==
  ASSUME MgrInv, NEW f \in Fibers, SendHttp(f), TakePooled(f)
  PROVE  MgrInv'
<1> USE DEF Using
<1>1. /\ pool \in Seq(1..made) /\ pool # <<>> /\ made \in Nat
      /\ pool' = Tail(pool) /\ made' = made /\ client_num' = client_num /\ listed' = listed
      /\ doing' = [doing EXCEPT ![f] = "send"] /\ doing[f] = "idle"
      /\ uses' = [uses EXCEPT ![f] = Head(pool)]
      /\ refused' = refused \ {f}
  BY DEF MgrInv, MgrTypeOK, SendHttp, TakePooled
<1>2. /\ Len(pool) \in Nat /\ Len(pool) > 0
      /\ Len(pool') = Len(pool) - 1
      /\ \A i \in 1..Len(pool') : pool'[i] = pool[i + 1] /\ i + 1 \in 1..Len(pool)
      /\ Head(pool) = pool[1] /\ pool[1] \in 1..made
      /\ pool' \in Seq(1..made)
  BY <1>1
<1>3. MgrTypeOK'
  BY <1>1, <1>2 DEF MgrInv, MgrTypeOK
<1>4. \A g \in Fibers : Using(g)' => uses'[g] # 0
  BY <1>1, <1>2 DEF MgrInv, MgrTypeOK
<1>5. Exclusive'
  <2>1. \A g \in Fibers : g # f /\ Using(g)' => uses'[g] = uses[g] /\ uses[g] # pool[1]
    BY <1>1, <1>2 DEF MgrInv, MgrTypeOK, Exclusive
  <2>2. uses'[f] = pool[1]
    BY <1>1, <1>2 DEF MgrInv, MgrTypeOK
  <2>3. \A g, h \in Fibers : Using(g)' /\ Using(h)' /\ uses'[g] = uses'[h] => g = h
    BY <1>1, <2>1, <2>2 DEF MgrInv, MgrTypeOK, Exclusive
  <2>4. \A g \in Fibers, i \in 1..Len(pool') : Using(g)' => pool'[i] # uses'[g]
    <3> TAKE g \in Fibers, i \in 1..Len(pool')
    <3> HAVE Using(g)'
    <3>1. pool'[i] = pool[i + 1] /\ i + 1 \in 1..Len(pool) /\ 1 \in 1..Len(pool) /\ i + 1 # 1
      BY <1>2
    <3>2. CASE g = f
      BY <3>1, <3>2, <2>2 DEF MgrInv, Exclusive
    <3>3. CASE g # f
      BY <3>1, <3>3, <2>1, <1>1 DEF MgrInv, MgrTypeOK, Exclusive
    <3> QED BY <3>2, <3>3
  <2>5. \A i, j \in 1..Len(pool') : pool'[i] = pool'[j] => i = j
    <3> SUFFICES ASSUME NEW i \in 1..Len(pool'), NEW j \in 1..Len(pool'),
                        pool'[i] = pool'[j]
                 PROVE  i = j
      OBVIOUS
    <3>1. i + 1 \in 1..Len(pool) /\ j + 1 \in 1..Len(pool) /\ pool[i + 1] = pool[j + 1]
      BY <1>2
    <3>2. \A a, b \in 1..Len(pool) : pool[a] = pool[b] => a = b
      BY DEF MgrInv, Exclusive
    <3>3. i + 1 = j + 1
      BY <3>1, <3>2
    <3>4. i \in Int /\ j \in Int
      BY <1>2
    <3> QED BY <3>3, <3>4
  <2> QED BY <2>3, <2>4, <2>5 DEF Exclusive
<1>6. NoneLost'
  <2> SUFFICES ASSUME NEW k \in 1..made
               PROVE  \/ \E g \in Fibers : Using(g)' /\ uses'[g] = k
                      \/ \E i \in 1..Len(pool') : pool'[i] = k
    BY <1>1 DEF NoneLost
  <2>1. CASE \E g \in Fibers : Using(g) /\ uses[g] = k
    BY <2>1, <1>1 DEF MgrInv, MgrTypeOK
  <2>2. CASE \E i \in 1..Len(pool) : pool[i] = k
    <3>1. PICK i \in 1..Len(pool) : pool[i] = k
      BY <2>2
    <3>2. CASE i = 1
      BY <3>1, <3>2, <1>1, <1>2 DEF MgrInv, MgrTypeOK
    <3>3. CASE i # 1
      <4>1. i - 1 \in 1..Len(pool') /\ (i - 1) + 1 = i
        BY <3>1, <3>3, <1>2
      <4> QED BY <4>1, <3>1, <1>2
    <3> QED BY <3>2, <3>3
  <2> QED BY <2>1, <2>2 DEF MgrInv, NoneLost
<1>7. LimitKept'
  BY <1>1 DEF MgrInv, LimitKept
<1> QED BY <1>3, <1>4, <1>5, <1>6, <1>7 DEF MgrInv

\* A new client has a number of its own.
LEMMA MakeInv ==
  ASSUME MgrInv, NEW f \in Fibers, SendHttp(f), MakeClient(f)
  PROVE  MgrInv'
<1> USE DEF Using
<1>1. /\ pool = <<>> /\ pool' = pool /\ made \in Nat /\ client_num \in Nat
      /\ made' = made + 1 /\ client_num' = client_num + 1 /\ listed' = listed /\ client_num <= MaxClient
      /\ doing' = [doing EXCEPT ![f] = "send"] /\ doing[f] = "idle"
      /\ uses' = [uses EXCEPT ![f] = made + 1]
      /\ refused' = refused \ {f}
  BY ClientAssumption DEF MgrInv, MgrTypeOK, SendHttp, MakeClient, AtLimit
<1>2. uses \in [Fibers -> 0..made] /\ doing \in [Fibers -> {"idle", "send", "wait"}]
  BY DEF MgrInv, MgrTypeOK
<1>3. MgrTypeOK'
  BY <1>1, <1>2 DEF MgrInv, MgrTypeOK
<1>4. \A g \in Fibers : Using(g)' => uses'[g] # 0
  BY <1>1, <1>2 DEF MgrInv
<1>5. Exclusive'
  BY <1>1, <1>2 DEF MgrInv, Exclusive
<1>6. NoneLost'
  <2> SUFFICES ASSUME NEW k \in 1..(made + 1)
               PROVE  \E g \in Fibers : Using(g)' /\ uses'[g] = k
    BY <1>1 DEF NoneLost
  <2>1. CASE k = made + 1
    BY <2>1, <1>1, <1>2
  <2>2. CASE k # made + 1
    <3>1. k \in 1..made
      BY <2>2, <1>1
    <3>2. \E g \in Fibers : Using(g) /\ uses[g] = k
      BY <3>1, <1>1 DEF MgrInv, NoneLost
    <3> QED BY <3>2, <1>1, <1>2
  <2> QED BY <2>1, <2>2
<1>7. LimitKept'
  <2>1. listed \in SUBSET Shared /\ client_num = made + Cardinality(listed)
    BY DEF MgrInv, MgrTypeOK, LimitKept
  <2>2. Cardinality(listed) \in Nat /\ Cardinality(listed) <= Cardinality(Shared) /\ Cardinality(Shared) \in Nat
    BY <2>1, TableSize
  <2>3. client_num' = made' + Cardinality(listed')
    BY <1>1, <2>1, <2>2
  <2>4. made' <= MaxClient + 1 /\ client_num' <= MaxClient + 1 + Cardinality(Shared)
    BY <1>1, <2>1, <2>2, ClientAssumption
  <2> QED BY <2>3, <2>4 DEF LimitKept
<1> QED BY <1>3, <1>4, <1>5, <1>6, <1>7 DEF MgrInv

\* Putting a client back keeps the clients apart and loses none.
LEMMA PutBackInv ==
  ASSUME MgrInv, NEW f \in Fibers, Using(f), PutBack(f),
         doing' = [doing EXCEPT ![f] = "idle"],
         UNCHANGED <<client_num, made, listed, uses, refused>>
  PROVE  MgrInv'
<1> USE DEF Using
<1>1. /\ pool \in Seq(1..made) /\ made \in Nat
      /\ uses \in [Fibers -> 0..made] /\ doing \in [Fibers -> {"idle", "send", "wait"}]
      /\ uses[f] \in 1..made
      /\ pool' = Append(pool, uses[f])
  BY DEF MgrInv, MgrTypeOK, PutBack
<1>2. /\ Len(pool) \in Nat /\ Len(pool') = Len(pool) + 1
      /\ \A i \in 1..Len(pool) : pool'[i] = pool[i]
      /\ pool'[Len(pool) + 1] = uses[f]
      /\ pool' \in Seq(1..made)
  BY <1>1
<1>3. MgrTypeOK'
  BY <1>1, <1>2 DEF MgrInv, MgrTypeOK
<1>4. \A g \in Fibers : Using(g)' => uses'[g] # 0 /\ g # f /\ Using(g)
  BY <1>1 DEF MgrInv
<1>5. \A i \in 1..Len(pool') : i \in 1..Len(pool) \/ i = Len(pool) + 1
  BY <1>2
<1>6. Exclusive'
  <2>1. \A g, h \in Fibers : Using(g)' /\ Using(h)' /\ uses'[g] = uses'[h] => g = h
    BY <1>4 DEF MgrInv, Exclusive
  <2>2. \A g \in Fibers, i \in 1..Len(pool') : Using(g)' => pool'[i] # uses'[g]
    BY <1>2, <1>4, <1>5 DEF MgrInv, Exclusive
  <2>3. \A i, j \in 1..Len(pool') : pool'[i] = pool'[j] => i = j
    BY <1>2, <1>5 DEF MgrInv, Exclusive
  <2> QED BY <2>1, <2>2, <2>3 DEF Exclusive
<1>7. NoneLost'
  <2> SUFFICES ASSUME NEW k \in 1..made
               PROVE  \/ \E g \in Fibers : Using(g)' /\ uses'[g] = k
                      \/ \E i \in 1..Len(pool') : pool'[i] = k
    BY <1>1 DEF NoneLost
  <2>1. CASE uses[f] = k
    <3>1. Len(pool) + 1 \in 1..Len(pool')
      BY <1>2
    <3> QED BY <3>1, <2>1, <1>2
  <2>2. CASE \E g \in Fibers : g # f /\ Using(g) /\ uses[g] = k
    BY <2>2, <1>1
  <2>3. CASE \E i \in 1..Len(pool) : pool[i] = k
    <3>1. \A i \in 1..Len(pool) : i \in 1..Len(pool')
      BY <1>2
    <3> QED BY <3>1, <2>3, <1>2
  <2> QED BY <2>1, <2>2, <2>3 DEF MgrInv, NoneLost
<1>8. LimitKept'
  BY DEF MgrInv, LimitKept
<1> QED BY <1>3, <1>4, <1>6, <1>7, <1>8 DEF MgrInv

\* Every step keeps the invariant.
LEMMA ClientsStep == MgrInv /\ [MgrNext]_mgrVars => MgrInv'
<1> SUFFICES ASSUME MgrInv, [MgrNext]_mgrVars PROVE MgrInv'
  OBVIOUS
<1>1. ASSUME NEW f \in Fibers, SendHttp(f) PROVE MgrInv'
  <2>1. TakePooled(f) \/ MakeClient(f)
    BY <1>1 DEF SendHttp
  <2> QED BY <1>1, <2>1, TakeInv, MakeInv
<1>2. ASSUME NEW f \in Fibers, Refuse(f) PROVE MgrInv'
  BY <1>2 DEF Refuse, MgrInv, MgrTypeOK, Exclusive, NoneLost, LimitKept, Using
<1>3. ASSUME NEW f \in Fibers, HttpSent(f) PROVE MgrInv'
  <2>1. CASE SendFailed(f)
    <3>1. Using(f)
      BY <1>3 DEF HttpSent, Using
    <3> QED BY <1>3, <2>1, <3>1, PutBackInv DEF HttpSent, SendFailed
  <2>2. CASE doing' = [doing EXCEPT ![f] = "wait"] /\ UNCHANGED pool
    <3>1. \A g \in Fibers : Using(g)' <=> Using(g)
      BY <1>3, <2>2 DEF HttpSent, Using, MgrInv, MgrTypeOK
    <3>2. MgrTypeOK'
      BY <1>3, <2>2 DEF HttpSent, MgrInv, MgrTypeOK
    <3>3. Exclusive' /\ NoneLost' /\ LimitKept' /\ \A g \in Fibers : Using(g)' => uses'[g] # 0
      BY <1>3, <2>2, <3>1 DEF HttpSent, MgrInv, Exclusive, NoneLost, LimitKept
    <3> QED BY <3>2, <3>3 DEF MgrInv
  <2> QED BY <1>3, <2>1, <2>2 DEF HttpSent
<1>4. ASSUME NEW f \in Fibers, GetResponse(f) PROVE MgrInv'
  <2>1. Using(f)
    BY <1>4 DEF GetResponse, Using
  <2> QED BY <1>4, <2>1, PutBackInv DEF GetResponse
<1>5. ASSUME NEW t \in Shared, SendShared(t) PROVE MgrInv'
  <2>1. MgrTypeOK'
    BY <1>5 DEF SendShared, MgrInv, MgrTypeOK
  <2>2. Exclusive' /\ NoneLost' /\ \A f \in Fibers : Using(f)' => uses'[f] # 0
    BY <1>5 DEF SendShared, MgrInv, Exclusive, NoneLost, Using
  <2>3. LimitKept'
    <3>1. /\ listed \in SUBSET Shared /\ t \in Shared \ listed /\ listed' \in SUBSET Shared
          /\ listed' = listed \cup {t} /\ client_num' = client_num + 1 /\ made' = made
          /\ client_num \in Nat /\ made \in Nat
      BY <1>5 DEF SendShared, MgrInv, MgrTypeOK
    <3>2. /\ Cardinality(listed') = Cardinality(listed) + 1
          /\ Cardinality(listed') <= Cardinality(Shared)
          /\ Cardinality(listed) \in Nat /\ Cardinality(Shared) \in Nat
      BY <3>1, TableSize
    <3> QED BY <3>1, <3>2, ClientAssumption DEF MgrInv, LimitKept
  <2> QED BY <2>1, <2>2, <2>3 DEF MgrInv
<1>6. ASSUME UNCHANGED mgrVars PROVE MgrInv'
  BY <1>6 DEF mgrVars, MgrInv, MgrTypeOK, Exclusive, NoneLost, LimitKept, Using
<1> QED BY <1>1, <1>2, <1>3, <1>4, <1>5, <1>6 DEF MgrNext

\* No HTTP client is ever used by two fibers, or used while it is in the pool:
\* send_request pops it before the first yield and it is pushed back after the
\* last.
THEOREM ClientsAreExclusive == MgrSpec => []Exclusive
<1>1. MgrInv => Exclusive
  BY DEF MgrInv
<1> QED BY ClientsInit, ClientsStep, <1>1, PTL DEF MgrSpec

\* No HTTP client is ever lost: whichever way a call ends, its client goes back to
\* the pool.
THEOREM ClientsAreKept == MgrSpec => []NoneLost
<1>1. MgrInv => NoneLost
  BY DEF MgrInv
<1> QED BY ClientsInit, ClientsStep, <1>1, PTL DEF MgrSpec

\* The HTTP clients of a host are at most MAX_CLIENT_NUM + 1, and client_num_ is
\* exactly the number of clients of all types.
THEOREM LimitIsKept == MgrSpec => []LimitKept
<1>1. MgrInv => LimitKept
  BY DEF MgrInv
<1> QED BY ClientsInit, ClientsStep, <1>1, PTL DEF MgrSpec
-----------------------------------------------------------------------------
(* The calls.                                                              *)

Active == {"queued", "send", "wait"}
Pending == {i \in 1..num : st[i] # "done"}

JoinTypes ==
  /\ num \in 0..MaxNum
  /\ forked \in 0..num
  /\ callnum \in Nat
  /\ phase \in {"idle", "inline", "fork", "wait", "woken", "settle"}
  /\ st \in [Slots -> {"off", "done"} \cup Active]

\* A call that is on its way belongs to the present request.
OnItsWay ==
  /\ \A i \in Slots : st[i] \in Active =>
       i <= num /\ phase \in {"inline", "fork", "wait", "woken"}
  /\ phase = "inline" => num = 1 /\ st[1] \in Active
  /\ phase = "fork" => \A i \in Slots : i > forked => st[i] = "off"

JoinInv == JoinTypes /\ OnItsWay /\ JoinsAll

\* 1..num is finite, and its members are slots.
LEMMA PendingFinite ==
  ASSUME JoinTypes
  PROVE IsFiniteSet(Pending) /\ 1..num \subseteq Slots /\ num \in Nat /\ MaxNum \in Nat \ {0}
<1>1. num \in Nat /\ num <= MaxNum /\ MaxNum \in Nat \ {0}
  BY RequestsAssumption DEF JoinTypes
<1>2. IsFiniteSet(1..num)
  BY <1>1, FS_Interval
<1>3. IsFiniteSet(Pending)
  BY <1>2, FS_Subset DEF Pending
<1> QED
  BY <1>1, <1>3 DEF Slots

\* Init: there is no request.
LEMMA JoinInit == Init => JoinInv
BY RequestsAssumption DEF Init, JoinInv, JoinTypes, OnItsWay, JoinsAll, Active, Slots

\* CallServices: call_num is the number of calls, none of which has ended.
LEMMA CallServicesJoins == ASSUME JoinInv, CallServices PROVE JoinInv'
<1>1. PICK n \in 1..MaxNum : 
        /\ num' = n /\ forked' = 0
        /\ \/ phase' = "idle" /\ callnum' = callnum /\ st' = [i \in Slots |-> "off"]
           \/ /\ n = 1 /\ phase' = "inline" /\ callnum' = 0
              /\ st' = [i \in Slots |-> IF i = 1 THEN "queued" ELSE "off"]
           \/ n > 1 /\ phase' = "fork" /\ callnum' = n /\ st' = [i \in Slots |-> "off"]
  BY DEF CallServices
<1>2. JoinTypes'
  BY <1>1, RequestsAssumption DEF JoinInv, JoinTypes, Active, Slots
<1>3. OnItsWay'
  BY <1>1, RequestsAssumption DEF OnItsWay, Active, Slots
<1>4. JoinsAll'
  <2>1. CASE phase' # "fork"
    BY <1>1, <2>1 DEF JoinsAll
  <2>2. CASE phase' = "fork"
    <3>1. n \in Nat /\ 1..n \subseteq Slots
      BY RequestsAssumption DEF Slots
    <3>2. {i \in 1..num' : st'[i] # "done"} = 1..n
      BY <1>1, <2>2, <3>1
    <3>3. Cardinality(1..n) = n
      BY <3>1, FS_Interval
    <3> QED
      BY <1>1, <2>2, <3>2, <3>3 DEF JoinsAll
  <2> QED
    BY <2>1, <2>2
<1> QED
  BY <1>2, <1>3, <1>4 DEF JoinInv

\* Fork: the call that is handed over was counted before.
LEMMA ForkJoins == ASSUME JoinInv, Fork PROVE JoinInv'
<1>1. /\ phase = "fork" /\ forked < num /\ forked' = forked + 1 /\ phase' = phase
      /\ st' = [st EXCEPT ![forked + 1] = "queued"] /\ num' = num /\ callnum' = callnum
  BY DEF Fork, request
<1>2. forked + 1 \in Slots /\ forked \in Nat /\ st[forked + 1] = "off"
  BY <1>1, RequestsAssumption DEF JoinInv, JoinTypes, OnItsWay, Slots
<1>3. JoinTypes'
  BY <1>1, <1>2, RequestsAssumption DEF JoinInv, JoinTypes, Active
<1>4. OnItsWay'
  BY <1>1, <1>2, RequestsAssumption DEF JoinInv, JoinTypes, OnItsWay, Active, Slots
<1>5. {i \in 1..num' : st'[i] # "done"} = {i \in 1..num : st[i] # "done"}
  BY <1>1, <1>2, PendingFinite DEF JoinInv, JoinTypes
<1>6. JoinsAll'
  BY <1>1, <1>5 DEF JoinInv, JoinsAll
<1> QED
  BY <1>3, <1>4, <1>6 DEF JoinInv

\* Join goes on when call_num is 0, and then no call is left.
LEMMA JoinJoins == ASSUME JoinInv, Join PROVE JoinInv'
<1>1. /\ phase \in {"fork", "woken"} /\ phase' \in {"wait", "settle", "idle"}
      /\ phase' # "wait" => ~(callnum > 0)
      /\ phase' = "wait" => callnum > 0
      /\ UNCHANGED <<num, st, callnum, forked>>
  BY DEF Join, AfterCalls, request
<1>2. phase' # "wait" => Pending = {}
  BY <1>1, PendingFinite, FS_EmptySet DEF JoinInv, JoinTypes, JoinsAll, Pending
<1>3. JoinTypes'
  BY <1>1 DEF JoinInv, JoinTypes
<1>4. OnItsWay'
  BY <1>1, <1>2 DEF JoinInv, OnItsWay, Pending, Slots, Active
<1>5. JoinsAll'
  BY <1>1, <1>2 DEF JoinInv, JoinsAll, Pending
<1> QED
  BY <1>3, <1>4, <1>5 DEF JoinInv

\* A step of a call ends it, or leaves the request alone.
LEMMA CallOutcome ==
  ASSUME NEW i \in Slots, CallStep(i)
  PROVE /\ st[i] \in Active
        /\ UNCHANGED <<req, num, tx, kind, forked>>
        /\ \/ EndCall(i)
           \/ /\ UNCHANGED <<phase, callnum>>
              /\ \E a \in {"send", "wait"} : st' = [st EXCEPT ![i] = a]
<1>1. ASSUME NEW r, NEW b, Attempt(i, r, b)
      PROVE EndCall(i) \/ (UNCHANGED <<phase, callnum>> /\ st' = [st EXCEPT ![i] = "send"])
  BY <1>1 DEF Attempt, GiveUp
<1>2. CASE StartCall(i)
  BY <1>1, <1>2 DEF StartCall, Active, request
<1>3. CASE Sent(i)
  BY <1>1, <1>3 DEF Sent, Active, request
<1>4. CASE Responded(i)
  BY <1>1, <1>4 DEF Responded, GiveUp, Active, request
<1> QED
  BY <1>2, <1>3, <1>4 DEF CallStep

\* A call that ends was counted once; the last one notifies a fiber that waits.
LEMMA EndCallJoins ==
  ASSUME JoinInv, NEW i \in Slots, st[i] \in Active, EndCall(i), UNCHANGED <<num, forked>>
  PROVE JoinInv'
<1>1. /\ IsFiniteSet(Pending) /\ 1..num \subseteq Slots /\ num \in Nat
      /\ i \in Nat \ {0} /\ i <= num /\ i \in Pending
      /\ st \in [Slots -> {"off", "done"} \cup Active] /\ callnum \in Nat
  BY PendingFinite DEF JoinInv, JoinTypes, OnItsWay, Slots, Pending, Active
<1>2. /\ st' = [st EXCEPT ![i] = "done"] /\ num' = num /\ forked' = forked
  BY DEF EndCall
<1>3. Pending' = Pending \ {i}
  BY <1>1, <1>2 DEF Pending
<1>4. Cardinality(Pending') = Cardinality(Pending) - 1 /\ Cardinality(Pending) \in Nat
  BY <1>1, <1>3, FS_RemoveElement, FS_CardinalityType
<1>5. CASE phase = "inline"
  <2>1. num = 1 /\ i = 1 /\ phase' \in {"settle", "idle"} /\ callnum' = callnum
    BY <1>1, <1>5 DEF JoinInv, OnItsWay, EndCall, AfterCalls
  <2>2. \A j \in Slots : st'[j] \notin Active
    BY <1>1, <1>2, <2>1 DEF JoinInv, OnItsWay, Active, Slots
  <2>3. JoinTypes'
    BY <1>1, <1>2, <2>1 DEF JoinInv, JoinTypes
  <2>4. OnItsWay'
    BY <2>1, <2>2 DEF OnItsWay
  <2>5. JoinsAll'
    BY <1>1, <1>2, <2>1 DEF JoinsAll
  <2> QED
    BY <2>3, <2>4, <2>5 DEF JoinInv
<1>6. CASE phase # "inline"
  <2>1. /\ phase \in {"fork", "wait", "woken"} /\ callnum' = callnum - 1
        /\ phase' = IF callnum = 1 /\ phase = "wait" THEN "woken" ELSE phase
    BY <1>1, <1>6 DEF JoinInv, OnItsWay, EndCall, Notified
  <2>2. callnum = Cardinality(Pending) /\ callnum' = Cardinality(Pending') /\ callnum' \in Nat
    <3>1. callnum = Cardinality(Pending)
      BY <2>1 DEF JoinInv, JoinsAll, Pending
    <3>2. Cardinality(Pending) # 0
      BY <1>1, FS_EmptySet
    <3> QED
      BY <1>4, <2>1, <3>1, <3>2
  <2>3. JoinTypes'
    BY <1>1, <1>2, <2>1, <2>2 DEF JoinInv, JoinTypes
  <2>4. OnItsWay'
    BY <1>1, <1>2, <2>1 DEF JoinInv, OnItsWay, Active
  <2>5. JoinsAll'
    BY <1>1, <2>1, <2>2 DEF JoinInv, JoinsAll, Pending
  <2> QED
    BY <2>3, <2>4, <2>5 DEF JoinInv
<1> QED
  BY <1>5, <1>6

\* A call that goes on is still counted.
LEMMA CallStepJoins == ASSUME JoinInv, NEW i \in Slots, CallStep(i) PROVE JoinInv'
<1>1. CASE EndCall(i)
  BY <1>1, CallOutcome, EndCallJoins
<1>2. CASE UNCHANGED <<phase, callnum>> /\ \E a \in {"send", "wait"} : st' = [st EXCEPT ![i] = a]
  <2>1. /\ st[i] \in Active /\ st'[i] \in {"send", "wait"} /\ st' = [st EXCEPT ![i] = st'[i]]
        /\ UNCHANGED <<num, forked, phase, callnum>>
        /\ st \in [Slots -> {"off", "done"} \cup Active]
    BY <1>2, CallOutcome DEF JoinInv, JoinTypes
  <2>2. JoinTypes'
    BY <2>1 DEF JoinInv, JoinTypes, Active
  <2>3. OnItsWay'
    <3>1. \A j \in Slots : (st'[j] \in Active <=> st[j] \in Active)
                          /\ (st[j] = "off" => st'[j] = "off")
      BY <2>1 DEF Active
    <3>2. 1 \in Slots
      BY RequestsAssumption DEF Slots
    <3> QED
      BY <2>1, <3>1, <3>2 DEF JoinInv, OnItsWay
  <2>4. {j \in 1..num' : st'[j] # "done"} = {j \in 1..num : st[j] # "done"}
    BY <2>1, PendingFinite DEF JoinInv, Active
  <2>5. JoinsAll'
    BY <2>1, <2>4 DEF JoinInv, JoinsAll, Active, OnItsWay
  <2> QED
    BY <2>2, <2>3, <2>5 DEF JoinInv
<1> QED
  BY <1>1, <1>2, CallOutcome

\* Every step keeps the invariant.
LEMMA JoinStep == ASSUME JoinInv, [Next]_vars PROVE JoinInv'
<1>1. CASE CallServices
  BY <1>1, CallServicesJoins
<1>2. CASE Fork
  BY <1>2, ForkJoins
<1>3. CASE Join
  BY <1>3, JoinJoins
<1>4. CASE Settle \/ TableChanges \/ UNCHANGED vars
  <2>1. /\ phase' = phase \/ (phase = "settle" /\ phase' = "idle")
        /\ UNCHANGED <<num, st, callnum, forked>>
    BY <1>4 DEF Settle, TableChanges, vars, request
  <2> QED
    BY <2>1 DEF JoinInv, JoinTypes, OnItsWay, JoinsAll
<1>5. CASE \E i \in Slots : CallStep(i)
  BY <1>5, CallStepJoins
<1> QED
  BY <1>1, <1>2, <1>3, <1>4, <1>5 DEF Next

\* call_services_in_fiber goes on only when all calls have ended, and while it waits on
\* cond a call is left whose end will notify it.
THEOREM AllCallsAreJoined == Spec => []JoinsAll
<1>1. JoinInv => JoinsAll
  BY DEF JoinInv
<1> QED
  BY JoinInit, JoinStep, <1>1, PTL DEF Spec
-----------------------------------------------------------------------------
(* What a call ends with.                                                  *)

IsRsp(r) ==
  r = [error |-> r.error, id |-> r.id, by |-> r.by, host |-> r.host, cached |-> r.cached]

Unanswered(r) == r.error = "none" /\ r.id = 0
FromItsHost(r) == r.id # 0 => r.host = r.by
Complete(r) == (r.error = "none" <=> r.id # 0) /\ FromItsHost(r)

RspTypes ==
  /\ req \in Nat /\ (phase # "idle" => req # 0)
  /\ rsp = [i \in Slots |-> rsp[i]] /\ tries = [i \in Slots |-> tries[i]]
  /\ cache = [i \in Slots |-> cache[i]]
  /\ \A i \in Slots : IsRsp(rsp[i]) /\ IsRsp(cache[i])

\* A call on its way has neither an error nor a response, and one that has not begun
\* has all its tries; what is cached is a good response.
InProgress ==
  /\ \A i \in Slots : phase # "idle" /\ st[i] # "done" => Unanswered(rsp[i])
  /\ \A i \in Slots : phase # "idle" /\ st[i] \in {"off", "queued"} => tries[i] = 0
  /\ \A i \in Slots : st[i] \in {"send", "wait"} => kind[i].local = "no"
  /\ \A i \in Slots : cache[i].id # 0 => Complete(cache[i])

Answered ==
  \A i \in Slots : st[i] = "done" =>
    /\ kind[i].local = "no" => Complete(rsp[i])
    /\ FromItsHost(rsp[i])

RspInv == RspTypes /\ InProgress /\ Answered

\* Init and CallServices: no call has ended.
LEMMA RspInit == Init => RspInv
<1> SUFFICES ASSUME Init PROVE RspInv
    OBVIOUS
<1>1. RspTypes
  BY DEF Init, RspTypes, IsRsp, BlankRsp
<1>2. InProgress /\ Answered
  BY DEF Init, InProgress, Answered, BlankRsp
<1> QED
  BY <1>1, <1>2 DEF RspInv

\* CallServices: no call has an error or a response yet.
LEMMA CallServicesRsp == ASSUME RspInv, CallServices PROVE RspInv'
<1>1. /\ req \in Nat /\ req' = req + 1 /\ UNCHANGED cache /\ phase = "idle"
      /\ tries' = [i \in Slots |-> 0]
      /\ \A i \in Slots : st'[i] \in {"off", "queued"}
  BY DEF CallServices, RspInv, RspTypes
<1>2. /\ rsp' = [i \in Slots |-> rsp'[i]] /\ \A i \in Slots : IsRsp(rsp'[i])
      /\ phase' # "idle" => \A i \in Slots : rsp'[i] = BlankRsp
  BY DEF CallServices, BlankRsp, IsRsp
<1>3. RspTypes'
  BY <1>1, <1>2 DEF RspInv, RspTypes
<1>4. InProgress'
  BY <1>1, <1>2 DEF RspInv, InProgress, Unanswered, BlankRsp
<1>5. Answered'
  BY <1>1 DEF Answered
<1> QED
  BY <1>3, <1>4, <1>5 DEF RspInv

\* What a step of a call does to its response: it goes on without an error, or ends.
Outcome(i) ==
  /\ rsp' = [rsp EXCEPT ![i] = rsp'[i]] /\ IsRsp(rsp'[i])
  /\ \/ st'[i] \in {"send", "wait"} /\ kind[i].local = "no" /\ Unanswered(rsp'[i])
     \/ /\ st'[i] = "done" /\ FromItsHost(rsp'[i])
        /\ kind[i].local = "no" => Complete(rsp'[i])
  /\ st' = [st EXCEPT ![i] = st'[i]]
  /\ cache' = [cache EXCEPT ![i] = cache'[i]] /\ IsRsp(cache'[i])
  /\ cache'[i].id # 0 => Complete(cache'[i])
  /\ \A j \in Slots : j # i => tries'[j] = tries[j]
  /\ tries' = [j \in Slots |-> tries'[j]]

\* GiveUp: with an error, unless the cache has a response.
LEMMA GiveUpOutcome ==
  ASSUME JoinInv, RspInv, NEW i \in Slots, NEW r, IsRsp(r), r.id = 0, r.error # "none",
         GiveUp(i, r)
  PROVE /\ rsp' = [rsp EXCEPT ![i] = rsp'[i]] /\ IsRsp(rsp'[i]) /\ Complete(rsp'[i])
        /\ st' = [st EXCEPT ![i] = "done"] /\ UNCHANGED cache
<1>1. /\ st' = [st EXCEPT ![i] = "done"] /\ UNCHANGED cache
      /\ \/ rsp' = [rsp EXCEPT ![i] = r]
         \/ cache[i].id # 0 /\ rsp' = [rsp EXCEPT ![i] = [cache[i] EXCEPT !.cached = "yes"]]
  BY DEF GiveUp, EndCall, CacheGet
<1>2. rsp = [j \in Slots |-> rsp[j]] /\ IsRsp(cache[i]) /\ (cache[i].id # 0 => Complete(cache[i]))
  BY DEF RspInv, RspTypes, InProgress
<1>3. /\ IsRsp([cache[i] EXCEPT !.cached = "yes"])
      /\ cache[i].id # 0 => Complete([cache[i] EXCEPT !.cached = "yes"])
  BY <1>2 DEF IsRsp, Complete, FromItsHost
<1>4. Complete(r)
  BY DEF Complete, FromItsHost
<1>5. CASE rsp' = [rsp EXCEPT ![i] = r]
  <2>1. rsp'[i] = r
    BY <1>2, <1>5
  <2> QED
    BY <1>1, <1>4, <1>5, <2>1
<1>6. CASE cache[i].id # 0 /\ rsp' = [rsp EXCEPT ![i] = [cache[i] EXCEPT !.cached = "yes"]]
  <2>1. rsp'[i] = [cache[i] EXCEPT !.cached = "yes"]
    BY <1>2, <1>6
  <2> QED
    BY <1>1, <1>3, <1>6, <2>1
<1> QED
  BY <1>1, <1>5, <1>6

\* Attempt: the loop is left after the last try only with an error.
LEMMA AttemptOutcome ==
  ASSUME JoinInv, RspInv, NEW i \in Slots, NEW r, NEW b, IsRsp(r), r.id = 0,
         LastTry(i) => r.error # "none", ~LastTry(i) => r.error = "none",
         kind[i].local = "no", Attempt(i, r, b)
  PROVE Outcome(i)
<1>1. /\ rsp = [j \in Slots |-> rsp[j]] /\ cache = [j \in Slots |-> cache[j]]
      /\ tries = [j \in Slots |-> tries[j]] /\ IsRsp(cache[i])
      /\ cache[i].id # 0 => Complete(cache[i])
      /\ st = [j \in Slots |-> st[j]]
  BY DEF RspInv, RspTypes, InProgress, JoinInv, JoinTypes
<1>2. /\ UNCHANGED cache
      /\ \A j \in Slots : j # i => tries'[j] = tries[j]
      /\ tries' = [j \in Slots |-> tries'[j]]
  <2>1. UNCHANGED cache /\ (tries' = tries \/ tries' = [tries EXCEPT ![i] = @ + 1])
    BY DEF Attempt, GiveUp
  <2> QED
    BY <1>1, <2>1
<1>3. cache' = [cache EXCEPT ![i] = cache'[i]]
  BY <1>1, <1>2
<1>4. CASE GiveUp(i, r) /\ r.error # "none"
  <2>1. /\ rsp' = [rsp EXCEPT ![i] = rsp'[i]] /\ IsRsp(rsp'[i]) /\ Complete(rsp'[i])
        /\ st' = [st EXCEPT ![i] = "done"] /\ st'[i] = "done"
    BY <1>1, <1>4, GiveUpOutcome
  <2> QED
    BY <1>1, <1>2, <1>3, <2>1 DEF Outcome, Complete
<1>5. CASE GiveUp(i, [r EXCEPT !.error = "notfound"])
  <2> DEFINE s == [r EXCEPT !.error = "notfound"]
  <2>1. IsRsp(s) /\ s.id = 0 /\ s.error # "none"
    BY DEF IsRsp
  <2>2. /\ rsp' = [rsp EXCEPT ![i] = rsp'[i]] /\ IsRsp(rsp'[i]) /\ Complete(rsp'[i])
        /\ st' = [st EXCEPT ![i] = "done"] /\ st'[i] = "done"
    BY <1>1, <1>5, <2>1, GiveUpOutcome
  <2> QED
    BY <1>1, <1>2, <1>3, <2>2 DEF Outcome, Complete
<1>6. CASE /\ st' = [st EXCEPT ![i] = "send"] /\ ~LastTry(i)
           /\ rsp' = [rsp EXCEPT ![i] = [r EXCEPT !.host = Address(NextIndex(b))]]
  <2>1. IsRsp([r EXCEPT !.host = Address(NextIndex(b))])
        /\ Unanswered([r EXCEPT !.host = Address(NextIndex(b))])
    BY <1>6 DEF IsRsp, Unanswered
  <2>2. st'[i] = "send" /\ rsp'[i] = [r EXCEPT !.host = Address(NextIndex(b))]
    BY <1>1, <1>6
  <2> QED
    BY <1>1, <1>2, <1>3, <1>6, <2>1, <2>2 DEF Outcome
<1> QED
  BY <1>4, <1>5, <1>6 DEF Attempt

\* StartCall: tries are left, so that the loop is entered.
LEMMA StartCallOutcome == ASSUME JoinInv, RspInv, NEW i \in Slots, StartCall(i) PROVE Outcome(i)
<1>1. /\ rsp = [j \in Slots |-> rsp[j]] /\ cache = [j \in Slots |-> cache[j]]
      /\ tries = [j \in Slots |-> tries[j]] /\ st = [j \in Slots |-> st[j]]
      /\ IsRsp(rsp[i]) /\ IsRsp(cache[i]) /\ (cache[i].id # 0 => Complete(cache[i]))
  BY DEF RspInv, RspTypes, InProgress, JoinInv, JoinTypes
<1>2. st[i] = "queued" /\ phase # "idle"
  BY DEF StartCall, JoinInv, OnItsWay, Active
<1>3. Unanswered(rsp[i]) /\ tries[i] = 0
  BY <1>2 DEF RspInv, InProgress
<1>4. CASE kind[i].local = "yes"
  <2>1. st' = [st EXCEPT ![i] = "done"] /\ UNCHANGED <<tries, rsp, cache>>
    BY <1>4 DEF StartCall, EndCall
  <2>2. /\ st'[i] = "done" /\ rsp' = [rsp EXCEPT ![i] = rsp'[i]]
        /\ cache' = [cache EXCEPT ![i] = cache'[i]]
    BY <1>1, <2>1
  <2> QED
    BY <1>1, <1>3, <1>4, <2>1, <2>2 DEF Outcome, Unanswered, FromItsHost
<1>5. CASE kind[i].local = "no"
  <2>1. PICK b : Attempt(i, rsp[i], b)
    BY <1>5 DEF StartCall
  <2>2. ~LastTry(i)
    BY <1>3, RetryAssumption DEF LastTry
  <2> QED
    BY <1>1, <1>3, <1>5, <2>1, <2>2, AttemptOutcome DEF Unanswered
<1> QED
  BY <1>4, <1>5 DEF StartCall

\* Sent: a send that fails at the last try leaves an error.
LEMMA SentOutcome == ASSUME JoinInv, RspInv, NEW i \in Slots, Sent(i) PROVE Outcome(i)
<1>1. /\ rsp = [j \in Slots |-> rsp[j]] /\ cache = [j \in Slots |-> cache[j]]
      /\ tries = [j \in Slots |-> tries[j]] /\ st = [j \in Slots |-> st[j]]
      /\ IsRsp(rsp[i]) /\ IsRsp(cache[i]) /\ (cache[i].id # 0 => Complete(cache[i]))
  BY DEF RspInv, RspTypes, InProgress, JoinInv, JoinTypes
<1>2. st[i] = "send" /\ phase # "idle" /\ kind[i].local = "no"
  BY DEF Sent, JoinInv, OnItsWay, Active, RspInv, InProgress
<1>3. Unanswered(rsp[i])
  BY <1>2 DEF RspInv, InProgress
<1>4. CASE st' = [st EXCEPT ![i] = "wait"] /\ UNCHANGED <<tries, rsp, cache>>
  <2>1. /\ st'[i] = "wait" /\ rsp' = [rsp EXCEPT ![i] = rsp'[i]]
        /\ cache' = [cache EXCEPT ![i] = cache'[i]]
    BY <1>1, <1>4
  <2> QED
    BY <1>1, <1>2, <1>3, <1>4, <2>1 DEF Outcome
<1>5. CASE Attempt(i, [rsp[i] EXCEPT !.error = SendError(i)], index[i])
  <2> DEFINE r == [rsp[i] EXCEPT !.error = SendError(i)]
  <2>1. IsRsp(r) /\ r.id = 0 /\ r.error = SendError(i)
    BY <1>1, <1>3 DEF IsRsp, Unanswered
  <2>2. (LastTry(i) => SendError(i) # "none") /\ (~LastTry(i) => SendError(i) = "none")
    BY <1>3 DEF LastTry, SendError, Unanswered
  <2> QED
    BY <1>2, <1>5, <2>1, <2>2, AttemptOutcome
<1> QED
  BY <1>4, <1>5 DEF Sent

\* The fields of a response that has come from the host.
LEMMA ReceivedRsp ==
  ASSUME NEW s, IsRsp(s), NEW x
  PROVE [s EXCEPT !.id = x, !.by = s.host]
          = [error |-> s.error, id |-> x, by |-> s.host, host |-> s.host, cached |-> s.cached]
<1>1. PICK e, n, y, h, c : s = [error |-> e, id |-> n, by |-> y, host |-> h, cached |-> c]
  BY DEF IsRsp
<1>2. s.error = e /\ s.host = h /\ s.cached = c
  BY <1>1
<1>3. [s EXCEPT !.id = x] = [error |-> e, id |-> x, by |-> y, host |-> h, cached |-> c]
  BY <1>1
<1>4. [[error |-> e, id |-> x, by |-> y, host |-> h, cached |-> c] EXCEPT !.by = h]
        = [error |-> e, id |-> x, by |-> h, host |-> h, cached |-> c]
  OBVIOUS
<1>5. [s EXCEPT !.id = x, !.by = h] = [[s EXCEPT !.id = x] EXCEPT !.by = h]
  OBVIOUS
<1> QED
  BY <1>2, <1>3, <1>4, <1>5, Zenon

\* Responded: a response, an error, or another try where one is left.
LEMMA RespondedOutcome == ASSUME JoinInv, RspInv, NEW i \in Slots, Responded(i) PROVE Outcome(i)
<1>1. /\ rsp = [j \in Slots |-> rsp[j]] /\ cache = [j \in Slots |-> cache[j]]
      /\ tries = [j \in Slots |-> tries[j]] /\ st = [j \in Slots |-> st[j]]
      /\ IsRsp(rsp[i]) /\ IsRsp(cache[i]) /\ (cache[i].id # 0 => Complete(cache[i]))
  BY DEF RspInv, RspTypes, InProgress, JoinInv, JoinTypes
<1>2. st[i] = "wait" /\ phase # "idle" /\ kind[i].local = "no"
  BY DEF Responded, JoinInv, OnItsWay, Active, RspInv, InProgress
<1>3. Unanswered(rsp[i]) /\ req # 0
  BY <1>2 DEF RspInv, InProgress, RspTypes
<1> DEFINE r == [rsp[i] EXCEPT !.id = req, !.by = rsp[i].host]
           f == [rsp[i] EXCEPT !.error = "rspfail"]
<1>4. CASE rsp' = [rsp EXCEPT ![i] = r] /\ CacheSet(i, r) /\ EndCall(i) /\ UNCHANGED tries
  <2>1. IsRsp(r) /\ Complete(r)
    <3>1. r = [error |-> rsp[i].error, id |-> req, by |-> rsp[i].host, host |-> rsp[i].host,
               cached |-> rsp[i].cached]
      BY <1>1, ReceivedRsp
    <3> QED
      BY <1>3, <3>1 DEF IsRsp, Unanswered, Complete, FromItsHost
  <2>2. rsp'[i] = r /\ st' = [st EXCEPT ![i] = "done"] /\ st'[i] = "done"
    BY <1>1, <1>4 DEF EndCall
  <2>3. cache' = cache \/ cache' = [cache EXCEPT ![i] = r]
    BY <1>4 DEF CacheSet
  <2>4. cache' = [cache EXCEPT ![i] = cache'[i]] /\ cache'[i] \in {cache[i], r}
    BY <1>1, <2>3
  <2> HIDE DEF r
  <2> QED
    BY <1>1, <1>2, <1>4, <2>1, <2>2, <2>4 DEF Outcome, Complete
<1>5. CASE GiveUp(i, f) /\ UNCHANGED tries
  <2>1. IsRsp(f) /\ f.id = 0 /\ f.error # "none"
    BY <1>1, <1>3 DEF IsRsp, Unanswered
  <2> HIDE DEF f
  <2>2. /\ rsp' = [rsp EXCEPT ![i] = rsp'[i]] /\ IsRsp(rsp'[i]) /\ Complete(rsp'[i])
        /\ st' = [st EXCEPT ![i] = "done"] /\ UNCHANGED cache
    BY <1>5, <2>1, GiveUpOutcome
  <2>3. st'[i] = "done" /\ cache' = [cache EXCEPT ![i] = cache'[i]]
    BY <1>1, <2>2
  <2> QED
    BY <1>1, <1>5, <2>2, <2>3 DEF Outcome, Complete
<1>6. CASE ~LastTry(i) /\ Attempt(i, rsp[i], index[i])
  BY <1>1, <1>2, <1>3, <1>6, AttemptOutcome DEF Unanswered
<1> QED
  BY <1>4, <1>5, <1>6 DEF Responded

\* A step of a call keeps the invariant.
LEMMA CallStepRsp == ASSUME JoinInv, RspInv, NEW i \in Slots, CallStep(i) PROVE RspInv'
<1>1. Outcome(i)
  BY StartCallOutcome, SentOutcome, RespondedOutcome DEF CallStep
<1>2. UNCHANGED <<req, kind>> /\ st[i] \in Active /\ phase # "idle"
  BY CallOutcome DEF JoinInv, OnItsWay
<1>3. /\ rsp = [j \in Slots |-> rsp[j]] /\ cache = [j \in Slots |-> cache[j]]
      /\ st = [j \in Slots |-> st[j]]
  BY DEF RspInv, RspTypes, JoinInv, JoinTypes
<1>4. \A j \in Slots : j # i => /\ rsp'[j] = rsp[j] /\ cache'[j] = cache[j]
                                /\ st'[j] = st[j] /\ tries'[j] = tries[j]
  BY <1>1, <1>3 DEF Outcome
<1>5. rsp' = [j \in Slots |-> rsp'[j]] /\ cache' = [j \in Slots |-> cache'[j]]
  BY <1>1, <1>3 DEF Outcome
<1>6. RspTypes'
  BY <1>1, <1>2, <1>4, <1>5 DEF RspInv, RspTypes, Outcome
<1>7. InProgress'
  BY <1>1, <1>2, <1>4 DEF RspInv, InProgress, Outcome
<1>8. Answered'
  BY <1>1, <1>2, <1>4 DEF RspInv, Answered, Outcome
<1> QED
  BY <1>6, <1>7, <1>8 DEF RspInv

\* Every step keeps the invariant.
LEMMA RspStep == ASSUME JoinInv, RspInv, [Next]_vars PROVE RspInv'
<1>1. CASE CallServices
  BY <1>1, CallServicesRsp
<1>2. CASE Fork
  <2>1. /\ phase = "fork" /\ phase' = "fork" /\ UNCHANGED <<req, kind, rsp, tries, cache>>
        /\ st' = [st EXCEPT ![forked + 1] = "queued"] /\ st = [j \in Slots |-> st[j]]
    BY <1>2 DEF Fork, request, JoinInv, JoinTypes
  <2>2. forked + 1 \in Slots /\ st[forked + 1] = "off"
    BY <1>2, RequestsAssumption DEF Fork, JoinInv, JoinTypes, OnItsWay, Slots
  <2>3. \A j \in Slots : st'[j] = IF j = forked + 1 THEN "queued" ELSE st[j]
    BY <2>1, <2>2
  <2> QED
    BY <2>1, <2>2, <2>3 DEF RspInv, RspTypes, InProgress, Answered
<1>3. CASE Join \/ Settle \/ TableChanges \/ UNCHANGED vars
  <2>1. /\ phase = "idle" => phase' = "idle"
        /\ UNCHANGED <<req, kind, rsp, tries, cache, st>>
    BY <1>3 DEF Join, AfterCalls, Settle, TableChanges, vars, request
  <2> QED
    BY <2>1 DEF RspInv, RspTypes, InProgress, Answered
<1>4. CASE \E i \in Slots : CallStep(i)
  BY <1>4, CallStepRsp
<1> QED
  BY <1>1, <1>2, <1>3, <1>4 DEF Next

\* No path through the retry loop of call_single_service ends a call with neither an error
\* nor a response, and the host and port of a response are those of the host that gave it.
THEOREM NoCallFailsSilently == Spec => []NoSilentFailure
<1>1. Init => JoinInv /\ RspInv
  BY JoinInit, RspInit
<1>2. JoinInv /\ RspInv /\ [Next]_vars => (JoinInv /\ RspInv)'
  BY JoinStep, RspStep
<1>3. JoinInv /\ RspInv => NoSilentFailure
  BY DEF RspInv, Answered, NoSilentFailure, Ended, Complete, FromItsHost
<1> QED
  BY <1>1, <1>2, <1>3, PTL DEF Spec
-----------------------------------------------------------------------------
(* Retries go to different hosts.                                          *)

SpreadTypes ==
  /\ tries \in [Slots -> Nat] /\ index \in [Slots -> Nat]
  /\ tried = [i \in Slots |-> tried[i]]
  /\ table \in Tables /\ stable \subseteq Slots

\* A call that has not been started has tried nothing.
Fresh ==
  \A i \in Slots : st[i] \in {"off", "queued"} => tries[i] = 0 /\ tried[i] = {} /\ i \notin stable

\* The hosts tried are those of the last indexes, one for each try.
Consecutive ==
  \A i \in stable : table # <<>> =>
    /\ tries[i] <= index[i]
    /\ tried[i] = {Address(j) : j \in (index[i] - tries[i] + 1)..index[i]}

SpreadInv == SpreadTypes /\ Fresh /\ Consecutive

\* What balance_index % size is.
LEMMA Remainder ==
  ASSUME NEW a \in Nat, NEW n \in Nat \ {0}
  PROVE a % n \in 0..(n - 1) /\ a \div n \in Nat /\ a = n * (a \div n) + (a % n)
BY SMT

\* Indexes that differ by less than the number of hosts select different hosts.
LEMMA RemaindersDiffer ==
  ASSUME NEW n \in Nat \ {0}, NEW a \in Nat, NEW b \in Nat, a < b, b < a + n
  PROVE a % n # b % n
<1> SUFFICES ASSUME a % n = b % n PROVE FALSE
  OBVIOUS
<1> DEFINE p == a \div n
           q == b \div n
<1>1. /\ a = n * p + (a % n) /\ b = n * q + (b % n)
      /\ p \in Nat /\ q \in Nat /\ a % n \in 0..(n - 1)
  BY Remainder
<1> HIDE DEF p, q
<1>2. b - a = n * q - n * p
  BY <1>1
<1>3. n * q - n * p = n * (q - p)
  BY <1>1
<1>4. ASSUME NEW k \in Int, k >= 1 PROVE n * k >= n
  BY <1>4
<1>5. ASSUME NEW k \in Int, k <= 0 PROVE n * k <= 0
  BY <1>5
<1>6. CASE q - p >= 1
  BY <1>1, <1>2, <1>3, <1>4, <1>6
<1>7. CASE q - p <= 0
  BY <1>1, <1>2, <1>3, <1>5, <1>7
<1> QED
  BY <1>1, <1>6, <1>7

\* The addresses are a list without repetition.
LEMMA TableFacts ==
  ASSUME NEW t \in Tables
  PROVE /\ Len(t) \in Nat /\ t \in [1..Len(t) -> Hosts]
        /\ \A i, j \in 1..Len(t) : i # j => t[i] # t[j]
        /\ t # <<>> => Len(t) # 0
<1>1. PICK n \in 0..Cardinality(Hosts) : t \in [1..n -> Hosts]
  BY DEF Tables
<1>2. Cardinality(Hosts) \in Nat
  BY HostsAssumption, FS_CardinalityType
<1>3. n \in Nat /\ Len(t) = n /\ DOMAIN t = 1..n
  BY <1>1, <1>2
<1>4. \A i, j \in 1..n : i < j => t[i] < t[j]
  BY <1>3 DEF Tables
<1>5. \A i \in 1..n : t[i] \in Nat
  BY <1>1, HostsAssumption
<1>6. \A i, j \in 1..n : i # j => t[i] # t[j]
  BY <1>3, <1>4, <1>5
<1>7. t # <<>> => n # 0
  BY <1>1
<1> QED
  BY <1>1, <1>3, <1>6, <1>7

\* Consecutive indexes, not more of them than there are hosts, select as many hosts.
LEMMA IndexesApart ==
  ASSUME table \in Tables, table # <<>>,
         NEW a \in Nat, NEW b \in Nat, b - a < Len(table), a <= b + 1
  PROVE LET T == {Address(j) : j \in a..b}
        IN  IsFiniteSet(T) /\ Cardinality(T) = b - a + 1
<1> DEFINE T == {Address(j) : j \in a..b}
           f == [j \in a..b |-> Address(j)]
           n == Len(table)
<1>1. n \in Nat \ {0} /\ \A i, j \in 1..n : i # j => table[i] # table[j]
  BY TableFacts
<1> HIDE DEF n
<1>2. \A j \in Nat : j % n \in 0..(n - 1)
  BY <1>1, Remainder
<1>3. ASSUME NEW i \in a..b, NEW j \in a..b, i < j PROVE Address(i) # Address(j)
  <2>1. i \in Nat /\ j \in Nat /\ j < i + n
    BY <1>1, <1>3 DEF n
  <2>2. i % n # j % n
    BY <1>1, <1>3, <2>1, RemaindersDiffer
  <2>3. i % n \in 0..(n - 1) /\ j % n \in 0..(n - 1)
    BY <1>2, <2>1
  <2>4. ASSUME NEW x \in 0..(n - 1), NEW y \in 0..(n - 1), x # y
        PROVE table[x + 1] # table[y + 1]
    BY <1>1, <2>4
  <2> QED
    BY <2>2, <2>3, <2>4 DEF Address, n
<1>4. \A i, j \in a..b : f[i] = f[j] => i = j
  <2> SUFFICES ASSUME NEW i \in a..b, NEW j \in a..b, i # j PROVE Address(i) # Address(j)
    OBVIOUS
  <2>1. i < j \/ j < i
    OBVIOUS
  <2> QED
    BY <1>3, <2>1
<1>5. f \in Bijection(a..b, T)
  <2>1. f \in [a..b -> T] /\ \A t \in T : \E j \in a..b : f[j] = t
    OBVIOUS
  <2> QED
    BY <1>4, <2>1 DEF Bijection, Injection, Surjection, IsInjective
<1>6. IsFiniteSet(a..b) /\ Cardinality(a..b) = b - a + 1
  <2>1. a \in Int /\ b \in Int /\ (a > b => b - a + 1 = 0)
    OBVIOUS
  <2> QED
    BY <2>1, FS_Interval
<1> HIDE DEF f, T
<1>7. IsFiniteSet(T) /\ Cardinality(T) = b - a + 1
  BY <1>5, <1>6, FS_Bijection DEF ExistsBijection
<1> QED
  BY <1>7 DEF T

\* m consecutive indexes select m hosts, or all.
LEMMA IndexesSpread ==
  ASSUME table \in Tables, table # <<>>, NEW k \in Nat, NEW m \in Nat, m <= k
  PROVE Cardinality({Address(j) : j \in (k - m + 1)..k})
          = IF m < Len(table) THEN m ELSE Len(table)
<1> DEFINE n == Len(table)
           S == {Address(j) : j \in (k - m + 1)..k}
           F == {Address(j) : j \in (k - n + 1)..k}
           A == {Address(j) : j \in 0..(n - 1)}
<1>1. n \in Nat \ {0}
  BY TableFacts
<1>2. ASSUME NEW x \in Nat, x <= n, x <= k
      PROVE Cardinality({Address(j) : j \in (k - x + 1)..k}) = x
  <2>1. /\ k - x + 1 \in Nat /\ k - (k - x + 1) < n /\ k - x + 1 <= k + 1
        /\ k - (k - x + 1) + 1 = x
    BY <1>1, <1>2
  <2> QED
    BY <2>1, IndexesApart
<1>3. CASE m > n
  <2>1. Cardinality(F) = n
    BY <1>1, <1>2, <1>3
  <2>2. IsFiniteSet(A) /\ Cardinality(A) = n
    <3>1. (n - 1) - 0 < n /\ 0 <= (n - 1) + 1 /\ n - 1 \in Nat /\ (n - 1) - 0 + 1 = n
      BY <1>1
    <3> QED
      BY <3>1, IndexesApart
  <2>3. F \subseteq S
    BY <1>1, <1>3
  <2>4. S \subseteq A
    <3> SUFFICES ASSUME NEW j \in (k - m + 1)..k PROVE Address(j) \in A
      OBVIOUS
    <3> j \in Nat
      OBVIOUS
    <3>1. j % n \in 0..(n - 1)
      BY <1>1, Remainder
    <3>2. (j % n) % n = j % n
      BY <1>1, <3>1
    <3>3. Address(j) = Address(j % n)
      BY <3>2 DEF Address
    <3> QED
      BY <3>1, <3>3
  <2> HIDE DEF F, S, A, n
  <2>5. IsFiniteSet(S) /\ Cardinality(S) <= n
    BY <2>2, <2>4, FS_Subset
  <2>6. n <= Cardinality(S)
    BY <2>1, <2>3, <2>5, FS_Subset
  <2>7. Cardinality(S) = n
    BY <1>1, <2>5, <2>6, FS_CardinalityType
  <2> QED
    BY <1>3, <2>7, <1>1 DEF S, n
<1> QED
  BY <1>1, <1>2, <1>3
\* A turn of the retry loop that is entered with index b and finds a try left.
NewTry(i, b) ==
  /\ tries' = [tries EXCEPT ![i] = @ + 1]
  /\ index' = [index EXCEPT ![i] = b + 1]
  /\ \/ table = <<>> /\ tried' = tried
     \/ table # <<>> /\ tried' = [tried EXCEPT ![i] = @ \cup {Address(b + 1)}]

\* One turn of the loop: a new try, or the end of the call.
LEMMA AttemptTries ==
  ASSUME NEW i \in Slots, NEW r, NEW b, Attempt(i, r, b)
  PROVE /\ \E a \in {"done", "send"} : st' = [st EXCEPT ![i] = a]
        /\ \/ LastTry(i) /\ UNCHANGED <<tries, index, tried>>
           \/ NewTry(i, b)
BY DEF Attempt, GiveUp, EndCall, NewTry, NextIndex

\* A step of a call makes a new try, starting at any index or going on from the last one,
\* or makes none.
LEMMA CallTries ==
  ASSUME JoinInv, SpreadInv, NEW i \in Slots, CallStep(i)
  PROVE /\ UNCHANGED table /\ st[i] \in Active
        /\ \E a \in {"done", "send", "wait"} : st' = [st EXCEPT ![i] = a]
        /\ \/ UNCHANGED <<tries, index, tried, stable>>
           \/ st[i] = "queued" /\ stable' = stable \cup {i} /\ \E b \in Nat : NewTry(i, b)
           \/ st[i] # "queued" /\ stable' = stable /\ NewTry(i, index[i])
<1>1. CASE StartCall(i)
  <2>1. st[i] = "queued" /\ tries[i] = 0 /\ UNCHANGED table
    BY <1>1 DEF StartCall, SpreadInv, Fresh
  <2>2. ~LastTry(i)
    BY <2>1, RetryAssumption DEF LastTry
  <2>3. CASE kind[i].local = "yes"
    BY <1>1, <2>1, <2>3 DEF StartCall, EndCall, Active
  <2>4. CASE kind[i].local = "no"
    <3>1. PICK b \in 0..MaxRand : Attempt(i, rsp[i], b) /\ stable' = stable \cup {i}
      BY <1>1, <2>4 DEF StartCall
    <3>2. b \in Nat
      BY RetryAssumption
    <3> QED
      BY <2>1, <2>2, <3>1, <3>2, AttemptTries DEF Active
  <2> QED
    BY <1>1, <2>3, <2>4 DEF StartCall
<1>2. CASE Sent(i)
  <2>1. st[i] = "send" /\ UNCHANGED <<table, stable>>
    BY <1>2 DEF Sent
  <2>2. \/ st' = [st EXCEPT ![i] = "wait"] /\ UNCHANGED <<tries, index, tried>>
        \/ Attempt(i, [rsp[i] EXCEPT !.error = SendError(i)], index[i])
    BY <1>2 DEF Sent
  <2> QED
    BY <2>1, <2>2, AttemptTries DEF Active
<1>3. CASE Responded(i)
  <2>1. st[i] = "wait" /\ UNCHANGED <<table, stable>>
    BY <1>3 DEF Responded
  <2>2. \/ st' = [st EXCEPT ![i] = "done"] /\ UNCHANGED <<tries, index, tried>>
        \/ Attempt(i, rsp[i], index[i])
    BY <1>3 DEF Responded, GiveUp, EndCall
  <2> QED
    BY <2>1, <2>2, AttemptTries DEF Active
<1> QED
  BY <1>1, <1>2, <1>3 DEF CallStep

\* A new try extends the run of indexes by one.
LEMMA NewTrySpread ==
  ASSUME SpreadInv, NEW i \in Slots, NEW b \in Nat, NewTry(i, b), UNCHANGED table,
         \/ tries[i] = 0 /\ tried[i] = {} /\ stable' = stable \cup {i}
         \/ b = index[i] /\ stable' = stable
  PROVE SpreadTypes' /\ Consecutive'
<1>1. /\ tries \in [Slots -> Nat] /\ index \in [Slots -> Nat] /\ stable \subseteq Slots
      /\ tried = [j \in Slots |-> tried[j]]
  BY DEF SpreadInv, SpreadTypes
<1>2. SpreadTypes'
  <2>1. tries' \in [Slots -> Nat] /\ index' \in [Slots -> Nat] /\ stable' \subseteq Slots
    BY <1>1 DEF NewTry
  <2>2. tried' = [j \in Slots |-> tried'[j]]
    BY <1>1 DEF NewTry
  <2> QED
    BY <2>1, <2>2 DEF SpreadInv, SpreadTypes
<1>3. \A j \in Slots : j # i =>
         tries'[j] = tries[j] /\ index'[j] = index[j] /\ tried'[j] = tried[j]
  BY <1>1 DEF NewTry
<1>4. \A x : Address(x)' = Address(x)
  BY DEF Address
<1>5. ASSUME NEW j \in stable', table' # <<>>
      PROVE /\ tries'[j] <= index'[j]
            /\ tried'[j] = {Address(x)' : x \in (index'[j] - tries'[j] + 1)..index'[j]}
  <2>1. CASE j # i
    <3>1. j \in stable /\ j \in Slots
      BY <1>1, <2>1
    <3> QED
      BY <1>3, <1>4, <1>5, <2>1, <3>1 DEF SpreadInv, Consecutive
  <2>2. CASE j = i
    <3>1. /\ tries'[i] = tries[i] + 1 /\ index'[i] = b + 1
          /\ tried'[i] = tried[i] \cup {Address(b + 1)}
      BY <1>1, <1>5 DEF NewTry
    <3>2. tries[i] <= b /\ tried[i] = {Address(x) : x \in (b - tries[i] + 1)..b}
      <4>1. CASE tries[i] = 0 /\ tried[i] = {}
        BY <4>1
      <4>2. CASE b = index[i] /\ stable' = stable
        BY <1>5, <2>2, <4>2 DEF SpreadInv, Consecutive
      <4> QED
        BY <4>1, <4>2
    <3>3. tries[i] \in Nat
      BY <1>1
    <3>4. (index'[i] - tries'[i] + 1)..index'[i] = ((b - tries[i] + 1)..b) \cup {b + 1}
      <4>1. ASSUME NEW k \in Nat, k <= b
            PROVE  ((b + 1) - (k + 1) + 1)..(b + 1) = ((b - k + 1)..b) \cup {b + 1}
        <5>1. (b + 1) - (k + 1) + 1 = b - k + 1 /\ b - k + 1 \in Int /\ b - k + 1 <= b + 1
          BY <4>1
        <5> QED BY <5>1
      <4> QED BY <3>1, <3>2, <3>3, <4>1
    <3>5. {Address(x) : x \in ((b - tries[i] + 1)..b) \cup {b + 1}}
            = {Address(x) : x \in (b - tries[i] + 1)..b} \cup {Address(b + 1)}
      OBVIOUS
    <3>6. tries'[i] <= index'[i]
      BY <3>1, <3>2, <3>3
    <3>7. tried'[i] = {Address(x) : x \in (index'[i] - tries'[i] + 1)..index'[i]}
      BY <3>1, <3>2, <3>4, <3>5
    <3> QED
      BY <1>4, <2>2, <3>6, <3>7
  <2> QED
    BY <2>1, <2>2
<1>6. Consecutive'
  BY <1>5 DEF Consecutive
<1> QED
  BY <1>2, <1>6

\* Steps that make no try.
LEMMA SameTries ==
  ASSUME SpreadInv, UNCHANGED <<tries, index, tried, stable, table>>
  PROVE SpreadTypes' /\ Consecutive'
<1>1. SpreadTypes'
  BY DEF SpreadInv, SpreadTypes
<1>2. \A x : Address(x)' = Address(x)
  BY DEF Address
<1>3. Consecutive'
  BY <1>2 DEF SpreadInv, Consecutive
<1> QED
  BY <1>1, <1>3

\* A step of a call keeps the invariant.
LEMMA CallStepSpread == ASSUME JoinInv, SpreadInv, NEW i \in Slots, CallStep(i) PROVE SpreadInv'
<1>1. st = [j \in Slots |-> st[j]]
  BY DEF JoinInv, JoinTypes
<1>2. PICK a \in {"done", "send", "wait"} : st' = [st EXCEPT ![i] = a]
  BY CallTries
<1>3. st'[i] = a /\ \A j \in Slots : j # i => st'[j] = st[j]
  BY <1>1, <1>2
<1>4. UNCHANGED table /\ st[i] \in Active
  BY CallTries
<1>5. CASE UNCHANGED <<tries, index, tried, stable>>
  <2>1. Fresh'
    BY <1>3, <1>5 DEF SpreadInv, Fresh
  <2> QED
    BY <1>4, <1>5, <2>1, SameTries DEF SpreadInv
<1>6. ASSUME NEW b \in Nat, NewTry(i, b),
             \/ st[i] = "queued" /\ stable' = stable \cup {i}
             \/ b = index[i] /\ stable' = stable
      PROVE SpreadInv'
  <2>1. \/ tries[i] = 0 /\ tried[i] = {} /\ stable' = stable \cup {i}
        \/ b = index[i] /\ stable' = stable
    BY <1>6 DEF SpreadInv, Fresh
  <2>2. SpreadTypes' /\ Consecutive'
    BY <1>4, <1>6, <2>1, NewTrySpread
  <2>3. \A j \in Slots : j # i => tries'[j] = tries[j] /\ tried'[j] = tried[j]
    BY <1>6 DEF NewTry, SpreadInv, SpreadTypes
  <2>4. Fresh'
    BY <1>3, <2>1, <2>3 DEF SpreadInv, Fresh
  <2> QED
    BY <2>2, <2>4 DEF SpreadInv
<1>7. index[i] \in Nat
  BY DEF SpreadInv, SpreadTypes
<1> QED
  BY <1>5, <1>6, <1>7, CallTries

\* Every step keeps the invariant.
LEMMA SpreadStep == ASSUME JoinInv, SpreadInv, [Next]_vars PROVE SpreadInv'
<1>1. CASE CallServices
  <2>1. /\ tries' = [i \in Slots |-> 0] /\ index' = [i \in Slots |-> 0]
        /\ tried' = [i \in Slots |-> {}] /\ stable' = {} /\ table' = table
    BY <1>1 DEF CallServices
  <2> QED
    BY <2>1 DEF SpreadInv, SpreadTypes, Fresh, Consecutive
<1>2. CASE Fork
  <2>1. /\ st' = [st EXCEPT ![forked + 1] = "queued"] /\ st = [j \in Slots |-> st[j]]
        /\ UNCHANGED <<tries, index, tried, stable, table>>
    BY <1>2 DEF Fork, JoinInv, JoinTypes
  <2>2. forked + 1 \in Slots /\ st[forked + 1] = "off"
    BY <1>2, RequestsAssumption DEF Fork, JoinInv, JoinTypes, OnItsWay, Slots
  <2>3. \A j \in Slots : st'[j] = IF j = forked + 1 THEN "queued" ELSE st[j]
    BY <2>1, <2>2
  <2>4. Fresh'
    BY <2>1, <2>2, <2>3 DEF SpreadInv, Fresh
  <2> QED
    BY <2>1, <2>4, SameTries DEF SpreadInv
<1>3. CASE Join \/ Settle \/ UNCHANGED vars
  <2>1. UNCHANGED <<tries, index, tried, stable, table, st>>
    BY <1>3 DEF Join, Settle, vars
  <2>2. Fresh'
    BY <2>1 DEF SpreadInv, Fresh
  <2> QED
    BY <2>1, <2>2, SameTries DEF SpreadInv
<1>4. CASE TableChanges
  <2>1. UNCHANGED <<tries, index, tried, st>> /\ stable' = {} /\ table' \in Tables
    BY <1>4 DEF TableChanges
  <2> QED
    BY <2>1 DEF SpreadInv, SpreadTypes, Fresh, Consecutive
<1>5. CASE \E i \in Slots : CallStep(i)
  BY <1>5, CallStepSpread
<1> QED
  BY <1>1, <1>2, <1>3, <1>4, <1>5 DEF Next

\* As long as the addresses of the service do not change, each retry of
\* call_single_service goes to a host that the call has not tried, until all have been:
\* rand() chooses where the balance_index starts, and consecutive indexes meet a host a
\* second time only after all others.
THEOREM RetriesMoveOn == Spec => []RetriesSpread
<1>1. Init => JoinInv /\ SpreadInv
  <2>1. Init => SpreadInv
    <3> SUFFICES ASSUME Init PROVE SpreadInv
      OBVIOUS
    <3>1. SpreadTypes
      BY DEF Init, SpreadTypes
    <3>2. Fresh
      BY DEF Init, Fresh
    <3>3. Consecutive
      BY DEF Init, Consecutive
    <3> QED BY <3>1, <3>2, <3>3 DEF SpreadInv
  <2> QED
    BY <2>1, JoinInit
<1>2. JoinInv /\ SpreadInv /\ [Next]_vars => (JoinInv /\ SpreadInv)'
  BY JoinStep, SpreadStep
<1>3. SpreadInv => RetriesSpread
  <2> SUFFICES ASSUME SpreadInv, NEW i \in stable, table # <<>>
               PROVE Cardinality(tried[i]) = IF tries[i] < Len(table) THEN tries[i] ELSE Len(table)
    BY DEF RetriesSpread
  <2>1. /\ table \in Tables /\ tries[i] \in Nat /\ index[i] \in Nat /\ tries[i] <= index[i]
        /\ tried[i] = {Address(j) : j \in (index[i] - tries[i] + 1)..index[i]}
    BY DEF SpreadInv, SpreadTypes, Consecutive
  <2> QED
    BY <2>1, IndexesSpread
<1> QED
  BY <1>1, <1>2, <1>3, PTL DEF Spec
=============================================================================
