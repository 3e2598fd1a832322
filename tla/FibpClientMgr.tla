--------------------------- MODULE FibpClientMgr ---------------------------
(***************************************************************************)
(* FibpClientMgr of one thread, for one host and port: the pool of HTTP    *)
(* clients, each used by one fiber at a time, and the RPC and raw clients  *)
(* that all fibers share.  client_num_ counts all of them and is compared  *)
(* with the limit only when an HTTP client is made.                        *)
(*                                                                         *)
(* A fiber yields inside the client's send_request and get_response; what  *)
(* the manager does around them is atomic.                                 *)
(***************************************************************************)
EXTENDS Naturals, Sequences, FiniteSets

CONSTANTS Fibers,     \* fibers that call the host
          MaxClient,  \* MAX_CLIENT_NUM, 100 in the code
          Shared      \* types of the shared clients: rpc, raw

ASSUME ClientAssumption == MaxClient \in Nat /\ IsFiniteSet(Shared)

VARIABLES
  client_num, \* client_num_ of the host
  made,       \* history: HTTP clients made; they are numbered 1..made
  pool,       \* http_client_pool_list_ of the host
  listed,     \* the types of which client_pool_list_ has a client
  doing,      \* each fiber: idle, send or wait (in get_response)
  uses,       \* the HTTP client of a fiber that is not idle
  refused     \* history: fibers whose last request was refused

mgrVars == <<client_num, made, pool, listed, doing, uses, refused>>

MgrTypeOK ==
  /\ client_num \in Nat
  /\ made \in Nat
  /\ pool \in Seq(1..made)
  /\ listed \in SUBSET Shared
  /\ doing \in [Fibers -> {"idle", "send", "wait"}]
  /\ uses \in [Fibers -> 0..made]
  /\ refused \in SUBSET Fibers

MgrInit ==
  /\ client_num = 0 /\ made = 0 /\ pool = <<>> /\ listed = {}
  /\ doing = [f \in Fibers |-> "idle"]
  /\ uses = [f \in Fibers |-> 0]
  /\ refused = {}
-----------------------------------------------------------------------------
\* Mutant of TakePooled: the client is not popped.
TakePooledKept(f) ==
  /\ pool # <<>>
  /\ uses' = [uses EXCEPT ![f] = Head(pool)]
  /\ UNCHANGED <<client_num, made, pool>>

\* The first client of the pool.
TakePooled(f) ==
  /\ pool # <<>>
  /\ uses' = [uses EXCEPT ![f] = Head(pool)]
  /\ pool' = Tail(pool)
  /\ UNCHANGED <<client_num, made>>

\* client_num_[client_id] > MAX_CLIENT_NUM
AtLimit == client_num > MaxClient

\* A new client.
MakeClient(f) ==
  /\ pool = <<>>
  /\ ~AtLimit
  /\ made' = made + 1
  /\ client_num' = client_num + 1
  /\ uses' = [uses EXCEPT ![f] = made + 1]
  /\ UNCHANGED pool

\* send_request of an HTTP call, up to the yield in the client's.
SendHttp(f) ==
  /\ doing[f] = "idle"
  /\ TakePooled(f) \/ MakeClient(f)
  /\ doing' = [doing EXCEPT ![f] = "send"]
  /\ refused' = refused \ {f}
  /\ UNCHANGED listed

\* No client is free and no more may be made.
Refuse(f) ==
  /\ doing[f] = "idle"
  /\ pool = <<>>
  /\ AtLimit
  /\ refused' = refused \cup {f}
  /\ UNCHANGED <<client_num, made, pool, listed, doing, uses>>

\* push_back
PutBack(f) == pool' = Append(pool, uses[f])

\* Mutant of SendFailed: the client is dropped.
SendFailedDrops(f) == doing' = [doing EXCEPT ![f] = "idle"] /\ UNCHANGED pool

\* if (!ret): the client goes back to the pool.
SendFailed(f) == doing' = [doing EXCEPT ![f] = "idle"] /\ PutBack(f)

\* The client's send_request returns; get_response follows unless it failed.
HttpSent(f) ==
  /\ doing[f] = "send"
  /\ \/ doing' = [doing EXCEPT ![f] = "wait"] /\ UNCHANGED pool
     \/ SendFailed(f)
  /\ UNCHANGED <<client_num, made, listed, uses, refused>>

\* get_response: whatever came, the client goes back to the pool.
GetResponse(f) ==
  /\ doing[f] = "wait"
  /\ doing' = [doing EXCEPT ![f] = "idle"]
  /\ PutBack(f)
  /\ UNCHANGED <<client_num, made, listed, uses, refused>>

\* send_request of an RPC or raw call: the client is made with the first call and
\* is in the table before it sends.
SendShared(t) ==
  /\ t \notin listed
  /\ listed' = listed \cup {t}
  /\ client_num' = client_num + 1
  /\ UNCHANGED <<made, pool, doing, uses, refused>>
-----------------------------------------------------------------------------
MgrNext ==
  \/ \E f \in Fibers : SendHttp(f) \/ Refuse(f) \/ HttpSent(f) \/ GetResponse(f)
  \/ \E t \in Shared : SendShared(t)

MgrSpec == MgrInit /\ [][MgrNext]_mgrVars
-----------------------------------------------------------------------------
Using(f) == doing[f] # "idle"

\* No HTTP client is in two hands: not used by two fibers, not used while it is in
\* the pool, not in the pool twice.  Two requests on one connection would mix
\* their responses.
Exclusive ==
  /\ \A f, g \in Fibers : Using(f) /\ Using(g) /\ uses[f] = uses[g] => f = g
  /\ \A f \in Fibers, i \in 1..Len(pool) : Using(f) => pool[i] # uses[f]
  /\ \A i, j \in 1..Len(pool) : pool[i] = pool[j] => i = j

\* No HTTP client is lost: each one that was made is in use or in the pool, since
\* client_num_ never goes down.
NoneLost ==
  \A k \in 1..made : \/ \E f \in Fibers : Using(f) /\ uses[f] = k
                     \/ \E i \in 1..Len(pool) : pool[i] = k

\* The HTTP clients of a host never exceed the limit by more than one (the test is
\* > and not >=), and the shared clients, which are not tested, add to the count
\* at most once for each type.
LimitKept ==
  /\ client_num = made + Cardinality(listed)
  /\ made <= MaxClient + 1
  /\ client_num <= MaxClient + 1 + Cardinality(Shared)

\* The inductive invariant behind these: a client in use was made.
MgrInv ==
  /\ MgrTypeOK
  /\ \A f \in Fibers : Using(f) => uses[f] # 0
  /\ Exclusive
  /\ NoneLost
  /\ LimitKept
=============================================================================
