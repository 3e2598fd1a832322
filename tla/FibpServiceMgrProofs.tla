------------------------ MODULE FibpServiceMgrProofs ------------------------
(***************************************************************************)
(* Proofs about FibpServiceMgr, for any number of services, clusters and   *)
(* consul servers and any answers of consul: a reader gets exactly the     *)
(* hosts of the answer that counts, at every moment of a change.           *)
(*                                                                         *)
(* TableInv is inductive.  It says that the table of each type holds the   *)
(* entries that the parser finds in the answers that count, and no others, *)
(* and that last_service_names of a watcher has all keys that its service  *)
(* may have in any of the tables (Remembered): the keys of one service are *)
(* those of no other, so what a watcher erases is what it entered.         *)
(***************************************************************************)
EXTENDS FibpServiceMgr, FiniteSetTheorems, TLAPS

\* What the parser finds for service n in the answer that counts for a type.
Found(n, type) == parseServiceInfoRsp(n, Counts(n, type), type)

\* All names that curClusterName_ may have, and that a reader may see.
ClusterNames == Clusters \cup {Junk}

ServiceTypes ==
  /\ health \in [Names -> Answers]
  /\ before \in [Names -> Answers]
  /\ DOMAIN ans = Watchers /\ \A n \in Names : ans[n] \in Answers
  /\ announced \in ClusterNames \cup {EmptyName} /\ ans[Cluster] \in ClusterNames \cup {EmptyName}
  /\ cur \in ClusterNames /\ writing \in ClusterNames \cup {NotWriting}
  /\ DOMAIN table = Types /\ DOMAIN last_names = Names /\ DOMAIN at = Watchers

\* The answer of the watcher that is at work stays as it is.
AtWork ==
  handling # <<>> =>
    /\ \E n \in Names, i \in 1..Len(ServiceType) : handling = <<n, i>>
    /\ at[handling[1]] = "answered"

\* The table of a type is what the parser finds in the answers that count.
Entered(type) ==
  /\ DOMAIN table[type] = UNION {DOMAIN Found(n, type) : n \in Names}
  /\ \A n \in Names : \A k \in DOMAIN Found(n, type) : table[type][k] = Found(n, type)[k]

\* A watcher remembers every key of its service that is in a table.
Remembered(n) ==
  /\ last_names[n] \subseteq {service_key(n, c) : c \in Clusters}
  /\ \A type \in Types : DOMAIN Found(n, type) \subseteq last_names[n]

TableInv ==
  /\ ServiceTypes
  /\ AtWork
  /\ \A type \in Types : Entered(type)
  /\ \A n \in Names : Remembered(n)
-----------------------------------------------------------------------------
(* The parser.                                                             *)

\* A set of numbers up to a bound has a largest element, if it has any: the last tag
\* of a type, for parseServiceInfo.
LEMMA LargestIndex ==
  ASSUME NEW b \in Nat, NEW T \in SUBSET (1..b), T # {}
  PROVE  Max(T) \in T /\ \A y \in T : y <= Max(T)
<1> DEFINE I == {x..b : x \in T}
<1>1. I \subseteq FiniteSubsetsOf(Nat)
  <2>1. \A n \in 1..b : IsFiniteSet(n..b) /\ n..b \subseteq Nat
    BY FS_Interval
  <2> QED BY <2>1 DEF FiniteSubsetsOf
<1>2. I # {}
  OBVIOUS
<1> HIDE DEF I
<1>3. PICK s \in I : \A t \in I : ~ (<<t, s>> \in StrictSubsetOrdering(Nat))
  BY <1>1, <1>2, WFMin, FS_StrictSubsetOrderingWellFounded
<1>4. PICK n \in T : s = n..b
  BY DEF I
<1>5. ASSUME NEW m \in T, m > n
      PROVE  FALSE
  <2>1. m..b \in I
    BY DEF I
  <2>2. ~ (<<m..b, n..b>> \in StrictSubsetOrdering(Nat))
    BY <1>3, <1>4, <2>1
  <2>3. m..b \subseteq n..b /\ m..b # n..b /\ m..b \subseteq Nat /\ n..b \subseteq Nat
    BY <1>5
  <2> QED BY <2>2, <2>3 DEF StrictSubsetOrdering
<1>6. \A y \in T : n >= y
  BY <1>5
<1>7. Max(T) \in T /\ \A y \in T : Max(T) >= y
  BY <1>6 DEF Max
<1> QED BY <1>7

\* parseServiceInfo finds the type and the clusters that a list of tags states.
LEMMA TagsParsed ==
  ASSUME NEW tags \in Seq(Clusters \cup TypeTags), NEW type \in Types, NEW c \in ClusterNames
  PROVE  /\ parseServiceInfo(tags).type = type <=> OfType(tags, type)
         /\ c \in parseServiceInfo(tags).tags <=> InCluster(tags, c)
         /\ parseServiceInfo(tags).tags \subseteq Clusters
         /\ parseServiceInfo(tags).tags # {}
<1> DEFINE found == {i \in DOMAIN tags : tags[i] \in TypeTags}
           rest == {t \in Range(tags) : t \notin TypeTags}
<1>1. /\ parseServiceInfo(tags).type = IF found = {} THEN Custom ELSE tags[Max(found)]
      /\ parseServiceInfo(tags).tags = IF rest = {} THEN {Dev} ELSE rest
  BY DEF parseServiceInfo
<1>2. /\ Len(tags) \in Nat /\ DOMAIN tags = 1..Len(tags)
      /\ \A i \in DOMAIN tags : tags[i] \in Clusters \cup TypeTags
      /\ Range(tags) = {tags[i] : i \in DOMAIN tags}
  BY DEF Range
<1>3. Custom \notin TypeTags
  BY DEF TypeTags
<1>4. parseServiceInfo(tags).type = type <=> OfType(tags, type)
  <2>1. CASE found = {}
    <3>1. Range(tags) \cap TypeTags = {}
      BY <2>1, <1>2
    <3> QED BY <3>1, <2>1, <1>1, <1>2, <1>3 DEF OfType, TypeTags
  <2>2. CASE found # {}
    <3>1. Max(found) \in found /\ \A y \in found : y <= Max(found)
      BY <2>2, <1>2, LargestIndex
    <3>2. Range(tags) \cap TypeTags # {} /\ tags[Max(found)] \in TypeTags
      BY <3>1, <1>2
    <3> HIDE DEF found
    <3>3. \A i \in DOMAIN tags :
            (\A j \in DOMAIN tags : tags[j] \in TypeTags => j <= i) /\ tags[i] \in TypeTags
              <=> i = Max(found)
      <4>1. /\ Max(found) \in 1..Len(tags) /\ tags[Max(found)] \in TypeTags
            /\ \A j \in 1..Len(tags) : tags[j] \in TypeTags => j <= Max(found)
        BY <3>1, <1>2 DEF found
      <4>2. ASSUME NEW i \in 1..Len(tags), tags[i] \in TypeTags,
                   \A j \in 1..Len(tags) : tags[j] \in TypeTags => j <= i
            PROVE  i = Max(found)
        BY <4>1, <4>2, <1>2
      <4> QED BY <4>1, <4>2, <1>2
    <3>4. Max(found) \in DOMAIN tags
      BY <3>1 DEF found
    <3>5. CASE type = Custom
      BY <3>5, <3>2, <2>2, <1>1, <1>3 DEF OfType, found
    <3>6. CASE type # Custom
      <4>1. type \in TypeTags
        BY <3>6 DEF TypeTags
      <4>2. OfType(tags, type) <=> \E i \in DOMAIN tags : tags[i] = type /\ i = Max(found)
        BY <4>1, <3>6, <3>3 DEF OfType
      <4>3. parseServiceInfo(tags).type = tags[Max(found)]
        BY <1>1, <2>2 DEF found
      <4> QED BY <4>2, <4>3, <3>4
    <3> QED BY <3>5, <3>6
  <2> QED BY <2>1, <2>2
<1>5. c \notin TypeTags /\ Dev \notin TypeTags /\ Dev \in Clusters
  BY ConsulAssumption DEF ClusterNames
<1>6. c \in parseServiceInfo(tags).tags <=> InCluster(tags, c)
  BY <1>1, <1>2, <1>5 DEF InCluster
<1>7. parseServiceInfo(tags).tags \subseteq Clusters /\ parseServiceInfo(tags).tags # {}
  BY <1>1, <1>2, <1>5
<1> QED BY <1>4, <1>6, <1>7

\* What the parser finds for a service under the key of a cluster is what the answer
\* offers for that cluster, and every key that it finds is one of the service.
LEMMA AnswerParsed ==
  ASSUME NEW n \in Names, NEW nodes \in Answers, NEW type \in Types
  PROVE  /\ DOMAIN parseServiceInfoRsp(n, nodes, type) \subseteq {service_key(n, c) : c \in Clusters}
         /\ \A c \in ClusterNames :
              IF service_key(n, c) \in DOMAIN parseServiceInfoRsp(n, nodes, type)
              THEN /\ parseServiceInfoRsp(n, nodes, type)[service_key(n, c)] = Offered(nodes, type, c)
                   /\ Offered(nodes, type, c) # {}
              ELSE Offered(nodes, type, c) = {}
<1> DEFINE good == {node \in Range(nodes) : /\ parseServiceNodeInfo(node)
                                            /\ parseServiceCheckInfo(node.checks)
                                            /\ parseServiceInfo(node.tags).type = type}
           Keys(node) == {service_key(n, c) : c \in parseServiceInfo(node.tags).tags}
           rsp == parseServiceInfoRsp(n, nodes, type)
<1>1. rsp = [k \in UNION {Keys(node) : node \in good} |->
               {node.host : node \in {g \in good : k \in Keys(g)}}]
  BY DEF parseServiceInfoRsp
<1>2. \A node \in Range(nodes) : /\ node.tags \in Seq(Clusters \cup TypeTags)
                                 /\ node.checks \in Seq({"passing", "critical"})
  <2> DEFINE Node == [host : Nat, tags : Seq(Clusters \cup TypeTags),
                      checks : Seq({"passing", "critical"})]
  <2>1. nodes \in Seq(Node)
    BY AnswersAssumption
  <2>2. \A node \in Node : /\ node.tags \in Seq(Clusters \cup TypeTags)
                           /\ node.checks \in Seq({"passing", "critical"})
    OBVIOUS
  <2> HIDE DEF Node
  <2>3. Range(nodes) \subseteq Node
    BY <2>1 DEF Range
  <2> QED BY <2>2, <2>3
<1>3. \A node \in Range(nodes) :
        node \in good <=> /\ node.host # 0 /\ OfType(node.tags, type)
                         /\ "critical" \notin Range(node.checks)
  <2> SUFFICES ASSUME NEW node \in Range(nodes)
               PROVE  node \in good <=> /\ node.host # 0 /\ OfType(node.tags, type)
                                       /\ "critical" \notin Range(node.checks)
    OBVIOUS
  <2>1. parseServiceCheckInfo(node.checks) <=> "critical" \notin Range(node.checks)
    <3>1. node.checks \in Seq({"passing", "critical"})
      BY <1>2
    <3> QED BY <3>1 DEF parseServiceCheckInfo, Range
  <2>2. Dev \in ClusterNames
    BY ConsulAssumption DEF ClusterNames
  <2>3. parseServiceInfo(node.tags).type = type <=> OfType(node.tags, type)
    BY <1>2, <2>2, TagsParsed
  <2> QED BY <2>1, <2>3 DEF parseServiceNodeInfo
<1>4. \A node \in good, c \in ClusterNames :
        /\ service_key(n, c) \in Keys(node) <=> InCluster(node.tags, c)
        /\ Keys(node) \subseteq {service_key(n, d) : d \in Clusters}
  <2> SUFFICES ASSUME NEW node \in good, NEW c \in ClusterNames
               PROVE  /\ service_key(n, c) \in Keys(node) <=> InCluster(node.tags, c)
                      /\ Keys(node) \subseteq {service_key(n, d) : d \in Clusters}
    OBVIOUS
  <2>1. /\ c \in parseServiceInfo(node.tags).tags <=> InCluster(node.tags, c)
        /\ parseServiceInfo(node.tags).tags \subseteq Clusters
    BY <1>2, TagsParsed
  <2>2. \A d \in Clusters : service_key(n, c) = service_key(n, d) => c = d
    BY KeysAssumption DEF ClusterNames
  <2> QED BY <2>1, <2>2
<1> HIDE DEF good, Keys
<1>5. DOMAIN rsp \subseteq {service_key(n, c) : c \in Clusters}
  <2>1. Dev \in ClusterNames
    BY ConsulAssumption DEF ClusterNames
  <2> QED BY <1>1, <1>4, <2>1
<1>6. ASSUME NEW c \in ClusterNames
      PROVE  /\ Offered(nodes, type, c) = {node.host : node \in {g \in good : service_key(n, c) \in Keys(g)}}
             /\ service_key(n, c) \in DOMAIN rsp <=> \E g \in good : service_key(n, c) \in Keys(g)
  <2>1. {x \in Range(nodes) : x.host # 0 /\ OfType(x.tags, type) /\ InCluster(x.tags, c)
                             /\ "critical" \notin Range(x.checks)}
          = {g \in good : service_key(n, c) \in Keys(g)}
    <3>1. good \subseteq Range(nodes)
      BY DEF good
    <3> QED BY <3>1, <1>3, <1>4
  <2>2. Offered(nodes, type, c) = {node.host : node \in {g \in good : service_key(n, c) \in Keys(g)}}
    BY <2>1 DEF Offered
  <2> QED BY <2>2, <1>1
<1>7. ASSUME NEW c \in ClusterNames
      PROVE  IF service_key(n, c) \in DOMAIN rsp
             THEN rsp[service_key(n, c)] = Offered(nodes, type, c) /\ Offered(nodes, type, c) # {}
             ELSE Offered(nodes, type, c) = {}
  <2> DEFINE k == service_key(n, c)
             users == {g \in good : k \in Keys(g)}
  <2>1. Offered(nodes, type, c) = {node.host : node \in users}
    BY <1>6
  <2>2. k \in DOMAIN rsp <=> users # {}
    BY <1>6
  <2>3. k \in DOMAIN rsp => rsp[k] = {node.host : node \in users}
    BY <1>1
  <2> HIDE DEF k, users, rsp
  <2>4. {node.host : node \in users} = {} <=> users = {}
    OBVIOUS
  <2> QED BY <2>1, <2>2, <2>3, <2>4 DEF k
<1> QED BY <1>5, <1>7
-----------------------------------------------------------------------------
(* The invariant.                                                          *)

\* Initially no answer has come, and the tables are empty.
LEMMA TableInit == Init => TableInv
<1> SUFFICES ASSUME Init PROVE TableInv
  OBVIOUS
<1>1. ServiceTypes
  BY ConsulAssumption, AnswersAssumption
  DEF Init, ServiceTypes, ClusterNames, Watchers, Catalog, Cluster, EmptyName
<1>2. AtWork
  BY DEF Init, AtWork
<1>3. \A n \in Names, type \in Types : Counts(n, type) = <<>>
  BY DEF Init, Counts
<1>4. \A n \in Names, type \in Types : DOMAIN Found(n, type) = {}
  BY <1>3 DEF Found, parseServiceInfoRsp, Range
<1>5. \A type \in Types : Entered(type)
  BY <1>4 DEF Entered, Init
<1>6. \A n \in Names : Remembered(n)
  BY <1>4 DEF Remembered, Init
<1> QED BY <1>1, <1>2, <1>5, <1>6 DEF TableInv

\* Steps that change neither the tables nor the answers that count: polls, sleeps, the
\* cluster's name, and what happens to consul.
LEMMA TableSame ==
  ASSUME TableInv, ServiceTypes', AtWork', UNCHANGED <<table, last_names>>,
         \A n \in Names, type \in Types : Counts(n, type)' = Counts(n, type)
  PROVE  TableInv'
<1>1. \A n \in Names, type \in Types : Found(n, type)' = Found(n, type)
  BY DEF Found, parseServiceInfoRsp
<1>2. \A type \in Types : Entered(type)'
  BY <1>1 DEF TableInv, Entered
<1>3. \A n \in Names : Remembered(n)'
  BY <1>1 DEF TableInv, Remembered
<1> QED BY <1>2, <1>3 DEF TableInv

\* A poll that is answered: the watcher at work is not the one that polls.
LEMMA PollKeeps ==
  ASSUME TableInv, NEW w \in Watchers, longPollingRequest(w)
  PROVE  TableInv'
<1>1. /\ at[w] = "poll" /\ at' = [at EXCEPT ![w] = "answered"]
      /\ UNCHANGED <<health, announced, before, handling, table, last_names, cur, writing>>
      /\ ans' = [ans EXCEPT ![w] = ans'[w]]
      /\ w = Cluster => ans'[w] = announced
      /\ w \in Names => ans'[w] = health[w]
  <2>1. w = Cluster => w # Catalog
    BY DEF Catalog, Cluster
  <2>2. w \in Names => w # Catalog /\ w # Cluster
    BY ConsulAssumption
  <2> QED BY <2>1, <2>2 DEF longPollingRequest, registry, cluster, TableInv, ServiceTypes
<1>2. ServiceTypes'
  BY <1>1, ConsulAssumption DEF TableInv, ServiceTypes, Watchers
<1>3. AtWork'
  BY <1>1 DEF TableInv, AtWork, ServiceTypes, Watchers
<1>4. handling # <<>> => ans'[handling[1]] = ans[handling[1]]
  BY <1>1 DEF TableInv, AtWork, ServiceTypes, Watchers
<1>5. \A n \in Names, type \in Types : Counts(n, type)' = Counts(n, type)
  BY <1>1, <1>4 DEF Counts
<1> QED BY <1>1, <1>2, <1>3, <1>5, TableSame

\* Steps of the watchers that do not touch the tables or the answers.
LEMMA QuietKeeps ==
  ASSUME TableInv, UNCHANGED <<ans, before, handling, table, last_names>>,
         health' \in [Names -> Answers], announced' \in ClusterNames \cup {EmptyName},
         cur' \in ClusterNames, writing' \in ClusterNames \cup {NotWriting},
         DOMAIN at' = Watchers,
         handling # <<>> => at' = at
  PROVE  TableInv'
<1>1. ServiceTypes'
  BY DEF TableInv, ServiceTypes
<1>2. AtWork'
  BY DEF TableInv, AtWork
<1>3. \A n \in Names, type \in Types : Counts(n, type)' = Counts(n, type)
  BY DEF Counts
<1> QED BY <1>1, <1>2, <1>3, TableSame

\* ServiceType lists each type once.
LEMMA EachTypeOnce ==
  /\ Len(ServiceType) \in Nat
  /\ \A type \in Types : \E i \in 1..Len(ServiceType) : ServiceType[i] = type
  /\ \A i \in 1..Len(ServiceType) : ServiceType[i] \in Types
  /\ \A i, j \in 1..Len(ServiceType) : ServiceType[i] = ServiceType[j] => i = j
<1>1. Len(ServiceType) \in Nat /\ DOMAIN ServiceType = 1..Len(ServiceType)
  BY TypesAssumption
<1>2. Types = {ServiceType[i] : i \in DOMAIN ServiceType}
  BY DEF Types, Range
<1> QED BY <1>1, <1>2, TypesAssumption

\* A watcher begins to enter its answer: no type is behind yet.
LEMMA BeginsKeeps ==
  ASSUME TableInv, NEW n \in Names, BeginsTypes(n)
  PROVE  TableInv'
<1>1. /\ handling = <<>> /\ handling' = <<n, 1>> /\ at[n] = "answered"
      /\ UNCHANGED <<health, announced, at, ans, before, table, last_names, cur, writing>>
  BY DEF BeginsTypes, Idle, registry, cluster
<1>2. ServiceTypes'
  BY <1>1 DEF TableInv, ServiceTypes
<1>3. AtWork'
  <2>1. 1 \in 1..Len(ServiceType)
    BY EachTypeOnce, TypesAssumption
  <2> QED BY <1>1, <2>1 DEF AtWork
<1>4. \A m \in Names, type \in Types : Counts(m, type)' = Counts(m, type)
  BY <1>1 DEF Counts
<1> QED BY <1>1, <1>2, <1>3, <1>4, TableSame

\* One type is entered: from now on the new answer counts for it, and for the other
\* types and services the one that did.
LEMMA CountsMoveOn ==
  ASSUME TableInv, NEW n \in Names, watchServiceNodeChangeFunc(n),
         NEW m \in Names, NEW type \in Types
  PROVE  Counts(m, type)' = IF m = n /\ type = ServiceType[handling[2]] THEN ans[n]
                            ELSE Counts(m, type)
<1>1. PICK i \in 1..Len(ServiceType) : handling = <<n, i>>
  BY DEF TableInv, AtWork, watchServiceNodeChangeFunc
<1>2. handling # <<>> /\ handling[1] = n /\ handling[2] = i
  BY <1>1
<1>3. PICK j \in 1..Len(ServiceType) : ServiceType[j] = type
  BY EachTypeOnce
<1>4. \A k \in 1..Len(ServiceType) : ServiceType[k] = type <=> k = j
  BY <1>3, EachTypeOnce
<1>5. ans' = ans
  BY DEF watchServiceNodeChangeFunc
<1>6. Counts(m, type) = IF m = n /\ j < i THEN ans[n] ELSE before[m]
  <2>1. (\E k \in 1..handling[2] - 1 : ServiceType[k] = type) <=> j < i
    BY <1>2, <1>4
  <2> QED BY <2>1, <1>2 DEF Counts
<1>7. CASE i < Len(ServiceType)
  <2>1. handling' = <<n, i + 1>> /\ before' = before
    BY <1>2, <1>7, EachTypeOnce DEF watchServiceNodeChangeFunc
  <2>2. handling' # <<>> /\ handling'[1] = n /\ handling'[2] = i + 1
    BY <2>1
  <2>3. (\E k \in 1..handling'[2] - 1 : ServiceType[k] = type) <=> j <= i
    BY <2>2, <1>4, <1>7
  <2>4. Counts(m, type)' = IF m = n /\ j <= i THEN ans[n] ELSE before[m]
    BY <2>1, <2>2, <2>3, <1>5 DEF Counts
  <2> QED BY <2>4, <1>6, <1>4, <1>2
<1>8. CASE i = Len(ServiceType)
  <2>1. handling' = <<>> /\ before' = [before EXCEPT ![n] = ans[n]]
    BY <1>2, <1>8, EachTypeOnce DEF watchServiceNodeChangeFunc
  <2>2. Counts(m, type)' = IF m = n THEN ans[n] ELSE before[m]
    BY <2>1, <1>5 DEF Counts, TableInv, ServiceTypes
  <2> QED BY <2>2, <1>6, <1>4, <1>2, <1>8
<1> QED BY <1>7, <1>8

\* The keys of one service are not those of another.
LEMMA KeysApart ==
  ASSUME NEW n \in Names, NEW m \in Names, n # m
  PROVE  {service_key(n, c) : c \in ClusterNames} \cap {service_key(m, c) : c \in ClusterNames} = {}
BY KeysAssumption DEF ClusterNames

\* watchServiceNodeChangeFunc erases in one type what its service had there, and
\* enters what the new answer has; other services keep what they have.
LEMMA TypeKeeps ==
  ASSUME TableInv, NEW n \in Names, watchServiceNodeChangeFunc(n)
  PROVE  TableInv'
<1>1. PICK i \in 1..Len(ServiceType) : handling = <<n, i>> /\ at[n] = "answered"
  BY DEF TableInv, AtWork, watchServiceNodeChangeFunc
<1>2. PICK t \in Types : t = ServiceType[handling[2]]
  BY <1>1, EachTypeOnce
<1> DEFINE new == parseServiceInfoRsp(n, ans[n], t)
<1>3. /\ table' = [table EXCEPT ![t] = Replaced(n, t)]
      /\ last_names' = [last_names EXCEPT ![n] = @ \cup DOMAIN new]
      /\ ans' = ans
      /\ UNCHANGED <<health, announced, cur, writing>>
  BY <1>2 DEF watchServiceNodeChangeFunc, registry, cluster
<1>4. \/ handling' = <<n, i + 1>> /\ i < Len(ServiceType) /\ at' = at /\ before' = before
      \/ handling' = <<>> /\ at' = [at EXCEPT ![n] = "poll"] /\ before' = [before EXCEPT ![n] = ans[n]]
  BY <1>1, EachTypeOnce DEF watchServiceNodeChangeFunc
<1>5. ServiceTypes'
  BY <1>3, <1>4 DEF TableInv, ServiceTypes, Watchers
<1>6. AtWork'
  BY <1>1, <1>4 DEF AtWork
<1>7. \A m \in Names, type \in Types :
        Found(m, type)' = IF m = n /\ type = t THEN new ELSE Found(m, type)
  <2> SUFFICES ASSUME NEW m \in Names, NEW type \in Types
               PROVE  Found(m, type)' = IF m = n /\ type = t THEN new ELSE Found(m, type)
    OBVIOUS
  <2>1. Counts(m, type)' = IF m = n /\ type = t THEN ans[n] ELSE Counts(m, type)
    BY <1>2, CountsMoveOn
  <2>2. Found(m, type)' = parseServiceInfoRsp(m, Counts(m, type)', type)
    BY DEF Found, parseServiceInfoRsp
  <2> QED BY <2>1, <2>2 DEF Found
<1>8. /\ DOMAIN new \subseteq {service_key(n, c) : c \in Clusters}
      /\ last_names[n] \subseteq {service_key(n, c) : c \in Clusters}
      /\ \A m \in Names : DOMAIN Found(m, t) \subseteq {service_key(m, c) : c \in Clusters}
      /\ DOMAIN Found(n, t) \subseteq last_names[n]
  BY <1>2, AnswerParsed DEF TableInv, ServiceTypes, Remembered
<1>9. \A m \in Names : m # n => /\ DOMAIN Found(m, t) \cap last_names[n] = {}
                                /\ DOMAIN Found(m, t) \cap DOMAIN new = {}
  BY <1>8, KeysApart DEF ClusterNames
<1>10. /\ DOMAIN table[t] = UNION {DOMAIN Found(m, t) : m \in Names}
       /\ \A m \in Names : \A k \in DOMAIN Found(m, t) : table[t][k] = Found(m, t)[k]
  BY <1>2 DEF TableInv, Entered
<1>11. table'[t] = [k \in (DOMAIN table[t] \ last_names[n]) \cup DOMAIN new |->
                      IF k \in DOMAIN new THEN new[k] ELSE table[t][k]]
  BY <1>2, <1>3 DEF Replaced, TableInv, ServiceTypes
<1>12. \A type \in Types : type # t => table'[type] = table[type]
  BY <1>2, <1>3 DEF TableInv, ServiceTypes
<1> HIDE DEF new
<1>13. Entered(t)'
  <2>1. Found(n, t)' = new /\ \A m \in Names : m # n => Found(m, t)' = Found(m, t)
    BY <1>2, <1>7
  <2>2. DOMAIN table'[t] = UNION {DOMAIN Found(m, t)' : m \in Names}
    <3>1. DOMAIN table'[t] = (DOMAIN table[t] \ last_names[n]) \cup DOMAIN new
      BY <1>11
    <3>2. ASSUME NEW k PROVE k \in DOMAIN table[t] \ last_names[n]
                               <=> \E m \in Names : m # n /\ k \in DOMAIN Found(m, t)
      BY <1>8, <1>9, <1>10
    <3> QED BY <3>1, <3>2, <2>1
  <2>3. ASSUME NEW m \in Names, NEW k \in DOMAIN Found(m, t)'
        PROVE  table'[t][k] = Found(m, t)'[k]
    <3>1. CASE m = n
      BY <3>1, <2>1, <1>11
    <3>2. CASE m # n
      <4>1. k \in DOMAIN Found(m, t) /\ Found(m, t)' = Found(m, t)
        BY <3>2, <2>1
      <4>2. k \in DOMAIN table[t] \ last_names[n] /\ k \notin DOMAIN new
        BY <3>2, <4>1, <1>9, <1>10
      <4> QED BY <4>1, <4>2, <1>10, <1>11
    <3> QED BY <3>1, <3>2
  <2> QED BY <2>2, <2>3 DEF Entered
<1>14. \A type \in Types : type # t => Entered(type)'
  BY <1>7, <1>12 DEF TableInv, Entered
<1>15. \A m \in Names : Remembered(m)'
  <2> SUFFICES ASSUME NEW m \in Names PROVE Remembered(m)'
    OBVIOUS
  <2>1. last_names'[m] = IF m = n THEN last_names[n] \cup DOMAIN new ELSE last_names[m]
    BY <1>3 DEF TableInv, ServiceTypes
  <2>2. Remembered(m)
    BY DEF TableInv
  <2>3. \A type \in Types : DOMAIN Found(m, type)' \subseteq last_names'[m]
    BY <1>7, <2>1, <2>2 DEF Remembered
  <2>4. last_names'[m] \subseteq {service_key(m, c) : c \in Clusters}
    BY <1>8, <2>1, <2>2 DEF Remembered
  <2> QED BY <2>3, <2>4 DEF Remembered
<1> QED BY <1>5, <1>6, <1>13, <1>14, <1>15 DEF TableInv

\* Every step keeps the invariant.
LEMMA TableStep == ASSUME TableInv, [Next]_vars PROVE TableInv'
<1> USE DEF registry, cluster
<1>1. CASE UNCHANGED vars
  BY <1>1, QuietKeeps DEF vars, TableInv, ServiceTypes
<1>2. CASE NodesChange \/ ClusterChanges \/ ServerChanges
  <2>1. /\ UNCHANGED <<at, ans, before, handling, table, last_names, cur, writing>>
        /\ health' \in [Names -> Answers]
        /\ announced' \in ClusterNames \cup {EmptyName}
    BY <1>2 DEF NodesChange, ClusterChanges, ServerChanges, Event, TableInv, ServiceTypes, ClusterNames
  <2> QED BY <2>1, QuietKeeps DEF TableInv, ServiceTypes
<1>3. ASSUME NEW w \in Watchers, BadIndex(w) \/ PollFails(w) \/ Retries(w) PROVE TableInv'
  <2>1. /\ UNCHANGED <<health, announced, ans, before, handling, table, last_names, cur, writing>>
        /\ handling = <<>> /\ DOMAIN at' = DOMAIN at
    BY <1>3 DEF BadIndex, PollFails, Retries, Idle
  <2> QED BY <2>1, QuietKeeps DEF TableInv, ServiceTypes
<1>4. CASE watchServiceChangeFunc \/ stop
  <2>1. /\ UNCHANGED <<health, announced, ans, before, handling, table, last_names, cur, writing>>
        /\ handling = <<>> /\ DOMAIN at' = Watchers
    BY <1>4 DEF watchServiceChangeFunc, stop, Idle
  <2> QED BY <2>1, QuietKeeps DEF TableInv, ServiceTypes
<1>5. CASE watchCurrentClusterName
  <2>1. /\ UNCHANGED <<health, announced, ans, before, handling, table, last_names, cur>>
        /\ handling = <<>> /\ DOMAIN at' = DOMAIN at
        /\ writing' \in ClusterNames \cup {NotWriting}
    BY <1>5 DEF watchCurrentClusterName, changeCluster, Idle, TableInv, ServiceTypes
  <2> QED BY <2>1, QuietKeeps DEF TableInv, ServiceTypes
<1>6. CASE Written
  <2>1. /\ UNCHANGED <<health, announced, at, ans, before, handling, table, last_names>>
        /\ cur' \in ClusterNames /\ writing' = NotWriting
    BY <1>6 DEF Written, TableInv, ServiceTypes
  <2> QED BY <2>1, QuietKeeps DEF TableInv, ServiceTypes
<1>7. ASSUME NEW w \in Watchers, Turn(w) PROVE TableInv'
  BY <1>3, <1>4, <1>5, <1>7, BeginsKeeps DEF Turn
<1>8. CASE Continues
  BY <1>6, <1>8, TypeKeeps DEF Continues
<1> QED BY <1>1, <1>2, <1>3, <1>4, <1>7, <1>8, PollKeeps DEF Next

\* get_service_address gives a reader exactly the hosts of the answer that counts, one
\* for each balance index in turn: whichever types have been entered, whichever names
\* earlier answers had, and whatever the reader sees of a cluster name that is being
\* written.
THEOREM ReadersGetOneAnswer == Spec => []AddressesFollow
<1>1. TableInv => AddressesFollow
  <2> SUFFICES ASSUME TableInv, NEW n \in Names, NEW type \in Types,
                      NEW c \in Clusters \cup ReadName, NEW b \in 0..3
               PROVE  get_service_address(b, n, type, c) =
                        IF Offered(Counts(n, type), type, c) = {} THEN None
                        ELSE HostAt(Offered(Counts(n, type), type, c), b)
    BY DEF AddressesFollow
  <2> DEFINE k == service_key(n, c)
  <2>1. c \in ClusterNames
    BY DEF ReadName, TableInv, ServiceTypes, ClusterNames
  <2>2. \A m \in Names : Counts(m, type) \in Answers
    BY DEF Counts, TableInv, ServiceTypes
  <2>3. k \in DOMAIN table[type] <=> k \in DOMAIN Found(n, type)
    <3>1. \A m \in Names : DOMAIN Found(m, type) \subseteq {service_key(m, d) : d \in Clusters}
      BY <2>2, AnswerParsed DEF Found
    <3>2. \A m \in Names : m # n => k \notin DOMAIN Found(m, type)
      BY <2>1, <3>1, KeysApart DEF ClusterNames
    <3> QED BY <3>2 DEF TableInv, Entered
  <2>4. k \in DOMAIN Found(n, type) => table[type][k] = Found(n, type)[k]
    BY DEF TableInv, Entered
  <2>5. IF k \in DOMAIN Found(n, type)
        THEN /\ Found(n, type)[k] = Offered(Counts(n, type), type, c)
             /\ Offered(Counts(n, type), type, c) # {}
        ELSE Offered(Counts(n, type), type, c) = {}
    BY <2>1, <2>2, AnswerParsed DEF Found
  <2> QED BY <2>3, <2>4, <2>5 DEF get_service_address
<1> QED BY TableInit, TableStep, <1>1, PTL DEF Spec
=============================================================================
