--------------------------- MODULE FibpServiceMgr ---------------------------
(***************************************************************************)
(* Service discovery: FibpServiceMgr follows consul with one fiber for the *)
(* catalog, one for the nodes of each service it has seen there, and one   *)
(* for the name of the cluster, all on its watching thread.  Threads that  *)
(* serve requests ask get_service_address for a host.                      *)
(*                                                                         *)
(* A fiber gives up the thread only while it polls or sleeps.  The table   *)
(* of addresses is changed under lock_ for one type of service after the   *)
(* other, and readers come between; the cluster name is read without the   *)
(* lock.                                                                   *)
(*                                                                         *)
(* Consul answers a long poll at the latest when the wait is over, so an   *)
(* answer may come at any time; the index, which only tells consul how     *)
(* long to wait, is left out, but not the failure to convert it.  An       *)
(* answer that is not JSON is dropped and changes nothing.                 *)
(***************************************************************************)
EXTENDS Naturals, Sequences, FiniteSetsExt

CONSTANTS
  Names,       \* names of services: sequences, the parts between hyphens
  Clusters,    \* tags that are no types, as sequences of parts as well
  Dev,         \* dev_cluster_str, the cluster at the start
  ServiceType, \* the types in order: <<"http">>, <<"rpc">>, <<"raw">>, Custom
  Answers,     \* the lists of nodes that consul may have for a service
  Consuls,     \* number of consul servers, reg_address_list_.size()
  MaxEvents   \* bound on the events of consul and of the report server

\* What a node is of that has no tag which is a type; custom is no such tag.
Custom == <<"custom">>
Types == Range(ServiceType)
TypeTags == Types \ {Custom}

ASSUME TypesAssumption ==
  /\ ServiceType \in Seq(Types) /\ Custom \in Types
  /\ \A i, j \in 1..Len(ServiceType) : ServiceType[i] = ServiceType[j] => i = j

\* service_name + connector + service_tags[i]
service_key(n, c) == n \o c

Junk == <<"?">>         \* a name made of whatever bytes were read
EmptyName == <<>>       \* an empty name
NotWriting == <<"-">>
Catalog == <<"/v1/catalog/services">>
Cluster == <<"/api/local/get-cluster">>

\* The parts of a key cannot be told apart: no two pairs may give the same.
ASSUME KeysAssumption ==
  \A n, m \in Names, c, d \in Clusters \cup {Junk} :
    service_key(n, c) = service_key(m, d) => n = m /\ c = d
ASSUME ConsulAssumption ==
  /\ Dev \in Clusters /\ Consuls \in Nat \ {0} /\ MaxEvents \in Nat
  /\ Clusters \cap (TypeTags \cup {Junk, EmptyName, NotWriting}) = {} /\ Junk \notin TypeTags
  /\ Names \cap {Catalog, Cluster} = {}

\* A node has a host (0: Node could not be parsed), tags and checks; one without
\* Checks stands as one with a check that fails.
ASSUME AnswersAssumption ==
  /\ <<>> \in Answers
  /\ Answers \subseteq Seq([host : Nat, tags : Seq(Clusters \cup TypeTags),
                            checks : Seq({"passing", "critical"})])

VARIABLES
  health,     \* consul: the nodes of each service; one without is not in the catalog
  announced,  \* what the report server gives as Name; Junk: it gives none
  up,         \* servers that answer
  events,     \* number of events so far
  at,         \* each watcher: off, poll, sleep, answered, dead, ended
  server,     \* balance_index of each watcher, modulo the number of servers
  ans,        \* the answer that a watcher has got last
  before,     \* history: the one that it has handled completely
  handling,   \* the watcher that is changing the table, and the type that is next
  table,      \* reg_service_host_info_: hosts by type and key
  last_names, \* last_service_names of each watcher
  watching,   \* watching_services
  cur,        \* curClusterName_
  writing     \* the name that is being copied to it

registry == <<health, announced, up, events>>
cluster == <<cur, writing>>
vars == <<registry, at, server, ans, before, handling, table, last_names, watching, cluster>>

Watchers == Names \cup {Catalog, Cluster}
Report == Consuls
Servers == 0..Consuls
-----------------------------------------------------------------------------
(* The answers.                                                            *)

parseServiceCheckInfo(checks) == \A i \in 1..Len(checks) : checks[i] = "passing"

\* The last tag that is a type; the others, or dev if there are none.
parseServiceInfo(tags) ==
  LET types == {i \in DOMAIN tags : tags[i] \in TypeTags}
      rest == {t \in Range(tags) : t \notin TypeTags}
  IN [type |-> IF types = {} THEN Custom ELSE tags[Max(types)],
      tags |-> IF rest = {} THEN {Dev} ELSE rest]

\* parseServiceNodeInfo finds an address.
parseServiceNodeInfo(node) == node.host # 0

\* The entries of one type that an answer for service n gives: hosts by key.
parseServiceInfoRsp(n, nodes, type) ==
  LET good == {node \in Range(nodes) : /\ parseServiceNodeInfo(node)
                                       /\ parseServiceCheckInfo(node.checks)
                                       /\ parseServiceInfo(node.tags).type = type}
      Keys(node) == {service_key(n, c) : c \in parseServiceInfo(node.tags).tags}
  IN [k \in UNION {Keys(node) : node \in good} |->
        {node.host : node \in {g \in good : k \in Keys(g)}}]

parseQueryServicesRsp(h) == {n \in Names : h[n] # <<>>}
-----------------------------------------------------------------------------
Init ==
  /\ health = [n \in Names |-> <<>>] /\ announced = Dev /\ up = Servers /\ events = 0
  /\ at = [w \in Watchers |-> IF w \in Names THEN "off" ELSE "poll"]
  /\ server = [w \in Watchers |-> IF w = Cluster THEN Report ELSE 0]
  /\ ans = [w \in Watchers |-> IF w = Catalog THEN {} ELSE <<>>] /\ before = [n \in Names |-> <<>>]
  /\ handling = <<>>
  /\ table = [t \in Types |-> [k \in {} |-> {}]]
  /\ last_names = [n \in Names |-> {}] /\ watching = {}
  /\ cur = Dev /\ writing = NotWriting

\* Nodes come, go and change; another cluster is announced; a server fails, or is back.
Event ==
  /\ events < MaxEvents
  /\ events' = events + 1
  /\ UNCHANGED <<at, server, ans, before, handling, table, last_names, watching, cluster>>

NodesChange ==
  /\ Event
  /\ \E n \in Names, a \in Answers : a # health[n] /\ health' = [health EXCEPT ![n] = a]
  /\ UNCHANGED <<announced, up>>

ClusterChanges ==
  /\ Event
  /\ announced' \in (Clusters \cup {EmptyName, Junk}) \ {announced}
  /\ UNCHANGED <<health, up>>

ServerChanges ==
  /\ Event
  /\ \E s \in Servers : up' = IF s \in up THEN up \ {s} ELSE up \cup {s}
  /\ UNCHANGED <<health, announced>>
-----------------------------------------------------------------------------
(* A watcher.                                                              *)

\* The thread is not in the middle of a change.
Idle == handling = <<>> /\ writing = NotWriting

\* longPollingRequest gets the answer, as it was when the server gave it.
longPollingRequest(w) ==
  /\ at[w] = "poll" /\ server[w] \in up
  /\ at' = [at EXCEPT ![w] = "answered"]
  /\ ans' = [ans EXCEPT ![w] = IF w = Catalog THEN parseQueryServicesRsp(health)
                             ELSE IF w = Cluster THEN announced
                             ELSE health[w]]
  /\ UNCHANGED <<registry, server, before, handling, table, last_names, watching, cluster>>

\* It fails, and the watcher sleeps.
PollFails(w) ==
  /\ Idle /\ at[w] = "poll" /\ server[w] \notin up
  /\ at' = [at EXCEPT ![w] = "sleep"]
  /\ UNCHANGED <<registry, server, ans, before, handling, table, last_names, watching, cluster>>

\* The index of the answer is missing, or has more than 32 bits: lexical_cast throws,
\* and the exception ends the fiber.
BadIndex(w) ==
  /\ Idle /\ w # Cluster /\ at[w] = "poll" /\ server[w] \in up
  /\ events < MaxEvents /\ events' = events + 1
  /\ at' = [at EXCEPT ![w] = "dead"]
  /\ UNCHANGED <<health, announced, up, server, ans, before, handling, table, last_names, watching, cluster>>


\* ++balance_index; the report server is the only one of its kind.
NextServer(s) == IF s = Report THEN s ELSE (s + 1) % Consuls

Retries(w) ==
  /\ Idle /\ at[w] = "sleep"
  /\ server' = [server EXCEPT ![w] = NextServer(@)]
  /\ at' = [at EXCEPT ![w] = "poll"]
  /\ UNCHANGED <<registry, ans, before, handling, table, last_names, watching, cluster>>

\* The catalog: a watcher for each service that has none yet.
watchServiceChangeFunc ==
  LET new == ans[Catalog] \ watching
  IN /\ Idle /\ at[Catalog] = "answered"
     /\ at' = [w \in Watchers |-> IF w \in new \cup {Catalog} THEN "poll" ELSE at[w]]
     /\ watching' = watching \cup new
     /\ UNCHANGED <<registry, server, ans, before, handling, table, last_names, cluster>>

\* Mutant of Replaced: only the names that come again are replaced.
Replaced_over(n, type) ==
  LET new == parseServiceInfoRsp(n, ans[n], type)
  IN [k \in DOMAIN table[type] \cup DOMAIN new |->
        IF k \in DOMAIN new THEN new[k] ELSE table[type][k]]

\* The table of one type, changed in one critical section: the names of earlier
\* answers are erased, those of this one entered.
Replaced(n, type) ==
  LET new == parseServiceInfoRsp(n, ans[n], type)
  IN [k \in (DOMAIN table[type] \ last_names[n]) \cup DOMAIN new |->
        IF k \in DOMAIN new THEN new[k] ELSE table[type][k]]

\* The nodes of a service: the types, one after the other.
BeginsTypes(n) ==
  /\ Idle /\ at[n] = "answered"
  /\ handling' = <<n, 1>>
  /\ UNCHANGED <<registry, at, server, ans, before, table, last_names, watching, cluster>>

watchServiceNodeChangeFunc(n) ==
  /\ handling # <<>> /\ handling[1] = n
  /\ LET type == ServiceType[handling[2]]
     IN /\ table' = [table EXCEPT ![type] = Replaced(n, type)]
        /\ last_names' = [last_names EXCEPT ![n] = @ \cup DOMAIN parseServiceInfoRsp(n, ans[n], type)]
  /\ \/ /\ handling[2] < Len(ServiceType)
        /\ handling' = <<n, handling[2] + 1>>
        /\ UNCHANGED <<at, before>>
     \/ /\ handling[2] = Len(ServiceType)
        /\ handling' = <<>>
        /\ at' = [at EXCEPT ![n] = "poll"]
        /\ before' = [before EXCEPT ![n] = ans[n]]
  /\ UNCHANGED <<registry, server, ans, watching, cluster>>

\* An empty name is refused; another is copied, which readers do not wait for.
changeCluster(c) == writing' = IF c = EmptyName THEN NotWriting ELSE c

\* GetString of the answer, an object, gives junk, that Name replaces if it is there.
watchCurrentClusterName ==
  /\ Idle /\ at[Cluster] = "answered"
  /\ IF ans[Cluster] # cur THEN changeCluster(ans[Cluster]) ELSE UNCHANGED writing
  /\ at' = [at EXCEPT ![Cluster] = "poll"]
  /\ UNCHANGED <<registry, server, ans, before, handling, table, last_names, watching, cur>>

Written ==
  /\ writing # NotWriting
  /\ cur' = writing /\ writing' = NotWriting
  /\ UNCHANGED <<registry, at, server, ans, before, handling, table, last_names, watching>>
-----------------------------------------------------------------------------
\* stop: the thread goes when it is idle, its fibers stay where they are.
stop ==
  /\ Idle
  /\ at' = [w \in Watchers |-> "ended"]
  /\ UNCHANGED <<registry, server, ans, before, handling, table, last_names, watching, cluster>>

\* The step of a watcher that has the thread.
Turn(w) ==
  \/ PollFails(w)
  \/ Retries(w)
  \/ w = Catalog /\ watchServiceChangeFunc
  \/ w = Cluster /\ watchCurrentClusterName
  \/ w \in Names /\ BeginsTypes(w)

Continues == Written \/ \E n \in Names : watchServiceNodeChangeFunc(n)

Next ==
  \/ NodesChange \/ ClusterChanges \/ ServerChanges
  \/ \E w \in Watchers : longPollingRequest(w) \/ BadIndex(w) \/ Turn(w)
  \/ Continues
  \/ stop

Spec == Init /\ [][Next]_vars

\* A poll is answered when its wait is over; the ready queue of the thread is served in
\* turn, so a fiber that is ready again and again runs; a critical section goes on.
FairSpec ==
  /\ Spec
  /\ WF_vars(Continues)
  /\ \A w \in Watchers : WF_vars(longPollingRequest(w)) /\ SF_vars(Turn(w))
-----------------------------------------------------------------------------
(* A reader, on another thread.                                            *)

\* The name of the cluster that get_service_address reads, without the lock.
ReadName == IF writing = NotWriting THEN {cur} ELSE {cur, writing, Junk}

None == 0

\* hosts[balance_index % hosts.size()]: the hosts of a name are in the order of the set
\* that they were collected in.
HostAt(hosts, balance_index) ==
  CHOOSE h \in hosts : Cardinality({g \in hosts : g < h}) = balance_index % Cardinality(hosts)

\* The host for a call with this balance index: None if there is none.
get_service_address(balance_index, n, type, c) ==
  LET k == service_key(n, c)
  IN IF type \notin Types THEN None
     ELSE IF k \notin DOMAIN table[type] THEN None
     ELSE IF table[type][k] = {} THEN None
     ELSE HostAt(table[type][k], balance_index)
-----------------------------------------------------------------------------
\* The type and the clusters of a node, said without the parser.
OfType(tags, type) ==
  IF type = Custom THEN Range(tags) \cap TypeTags = {}
  ELSE \E i \in DOMAIN tags : tags[i] = type /\ \A j \in DOMAIN tags : tags[j] \in TypeTags => j <= i

InCluster(tags, c) == c \in Range(tags) \/ (c = Dev /\ Range(tags) \subseteq TypeTags)

\* What an answer offers: the nodes of the type, in the cluster, with an address and
\* nothing but passing checks.
Offered(nodes, type, c) ==
  {node.host : node \in {x \in Range(nodes) :
     x.host # 0 /\ OfType(x.tags, type) /\ InCluster(x.tags, c) /\ "critical" \notin Range(x.checks)}}

\* The answer that counts for a type of service n: while the types are gone through,
\* the new one for those behind, the one before for those ahead.
Counts(n, type) ==
  LET Behind == handling # <<>> /\ handling[1] = n /\ \E i \in 1..handling[2] - 1 : ServiceType[i] = type
  IN IF Behind THEN ans[n] ELSE before[n]

\* At every moment, whichever watcher is in the middle of a change, get_service_address
\* gives exactly the hosts that the answer which counts offers, one for each balance
\* index in turn, and none if it offers none: no host of an earlier answer is left over
\* in another type or cluster, none is missing for a while, and no watcher touches what
\* another has entered.
AddressesFollow ==
  \A n \in Names, type \in Types, c \in Clusters \cup ReadName :
    LET offered == Offered(Counts(n, type), type, c)
    IN \A b \in 0..3 :
         get_service_address(b, n, type, c) = IF offered = {} THEN None ELSE HostAt(offered, b)

=============================================================================
