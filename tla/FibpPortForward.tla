-------------------------- MODULE FibpPortForward --------------------------
(***************************************************************************)
(* Port forwarding: FibpServiceMgr::watchPortForwardChangeFunc follows the *)
(* keys under fibp-forward-port in consul, each of an agent and with a     *)
(* service as its value, and keeps one local port open for each service.   *)
(* FibpPortForwardMgr keeps the servers of the ports and the services they *)
(* forward to; agents ask for their ports through ports_used_by_agent_.    *)
(*                                                                         *)
(* A service stands for a name and a type: service_uniquestr appends the   *)
(* one digit of the type, so two pairs never share one.                    *)
(***************************************************************************)
EXTENDS Naturals, Sequences, FiniteSets, Functions, SequencesExt

CONSTANTS Keys,        \* keys, as numbers in the order of consul's answer
          ShortKeys,   \* keys of at most AGENT_ID_LEN characters
          KeyAgent,    \* agent whose key it is: the first AGENT_ID_LEN characters
          Services,    \* services
          Ports,       \* ports that the kernel hands out
          MaxChanges   \* bound on the events in consul

ASSUME ForwardAssumption ==
  /\ Keys \subseteq Nat /\ ShortKeys \subseteq Keys /\ MaxChanges \in Nat
  /\ DOMAIN KeyAgent = Keys
  /\ Cardinality(Ports) > Cardinality(Services)   \* a port can be had

Agents == Range(KeyAgent)

VARIABLES
  kv,        \* consul: the service of each key that is there
  changes,   \* number of its changes
  pc,        \* the watcher: poll, keys, update, or ended
  todo,      \* current_forward_services that are left
  prev,      \* previous_keys
  newk,      \* new_keys
  last,      \* last_ports: the agents of each port
  spm,       \* service_port_map
  started,   \* the port, service and agent between startPortForward and
             \* updateForwardService
  servers,   \* forward_server_list_
  services,  \* forward_service_list_
  used,      \* ports_used_by_agent_
  stop       \* FibpForwardManager::stop: no, ports (after stopAll), done

vars == <<kv, changes, pc, todo, prev, newk, last, spm, started, servers, services, used, stop>>
consul == <<kv, changes>>
manager == <<servers, services>>

Empty == [x \in {} |-> x]
Put(f, x, v) == [y \in DOMAIN f \union {x} |-> IF y = x THEN v ELSE f[y]]
Without(f, S) == [y \in DOMAIN f \ S |-> f[y]]

Init ==
  /\ kv = Empty /\ changes = 0
  /\ pc = "poll" /\ todo = <<>>
  /\ prev = Empty /\ newk = Empty /\ last = Empty /\ spm = Empty /\ started = Empty
  /\ servers = {} /\ services = Empty
  /\ used = [a \in Agents |-> {}]
  /\ stop = "no"
-----------------------------------------------------------------------------
(* Consul.                                                                 *)

Change ==
  /\ changes < MaxChanges
  /\ changes' = changes + 1
  /\ \/ \E k \in Keys, s \in Services : kv' = Put(kv, k, s)
     \/ \E k \in DOMAIN kv : kv' = Without(kv, {k})
  /\ UNCHANGED <<pc, todo, prev, newk, last, spm, started, manager, used, stop>>
-----------------------------------------------------------------------------
(* The watcher.                                                            *)


\* The agents of every port are collected anew.
Cleared == [p \in DOMAIN last |-> {}]

\* The keys of the answer, without their prefix.
parseForwardPortListRsp == SetToSortSeq(DOMAIN kv, <)

\* The long poll ends with a list of keys, changed or not: consul answers after
\* 120 s at the latest.  A poll that fails or cannot be parsed changes nothing.
Polled ==
  /\ pc = "poll" /\ kv # Empty
  /\ todo' = parseForwardPortListRsp
  /\ last' = Cleared
  /\ newk' = Empty
  /\ pc' = "keys"
  /\ UNCHANGED <<consul, prev, spm, started, manager, used, stop>>

\* It ends with no keys: the ports stay.
PolledNone ==
  /\ pc = "poll" /\ kv = Empty
  /\ prev' = Empty
  /\ UNCHANGED <<consul, pc, todo, newk, last, spm, started, manager, used, stop>>

\* forwardkey.length() <= AGENT_ID_LEN
Invalid(k) == k \in ShortKeys

\* A key that is too short, or whose value could not be had: it may be gone.
SkipKey ==
  /\ pc = "keys" /\ todo # <<>>
  /\ Invalid(Head(todo)) \/ Head(todo) \notin DOMAIN prev
  /\ todo' = Tail(todo)
  /\ UNCHANGED <<consul, pc, prev, newk, last, spm, started, manager, used, stop>>

\* Mutant of Joined: a service that has a port already is passed over.
JoinedNot(s, a) == last

\* The agent a uses the port of s.
Joined(s, a) ==
  Put(last, spm[s], {a} \union (IF spm[s] \in DOMAIN last THEN last[spm[s]] ELSE {}))

HasPort(s) == s \in DOMAIN spm

\* startPortForward: a server on a port that the kernel chooses.
StartPortForward(s, a) ==
  \E p \in Ports \ servers :
    /\ servers' = servers \union {p}
    /\ started' = [port |-> p, service |-> s, agent |-> a]

\* The service of a key is known: it has a port, or startPortForward gets one.
Assign(k, s) ==
  /\ newk' = Put(newk, k, s)
  /\ todo' = Tail(todo)
  /\ \/ /\ HasPort(s)
        /\ last' = Joined(s, KeyAgent[k])
        /\ UNCHANGED <<pc, started, servers>>
     \/ /\ ~HasPort(s)
        /\ StartPortForward(s, KeyAgent[k])
        /\ pc' = "update"
        /\ UNCHANGED last

\* getForwardPortInfo: the value the key has now, if it is still there.
Fetched(k, s) == k \in DOMAIN kv /\ s = kv[k]

\* One turn of the loop over the keys: an old key has the service it had, a new one
\* is asked for.
HandleKey(k) ==
  /\ pc = "keys" /\ todo # <<>> /\ Head(todo) = k
  /\ ~Invalid(k)
  /\ \/ k \in DOMAIN prev /\ Assign(k, prev[k])
     \/ k \notin DOMAIN prev /\ \E s \in Services : Fetched(k, s) /\ Assign(k, s)
  /\ UNCHANGED <<consul, prev, spm, services, used, stop>>

\* An answer of consul has no index, or one of more than 32 bits: longPollingRequest
\* throws, for the list or for a value, and the fiber is over.
WatcherDies ==
  /\ changes < MaxChanges
  /\ pc = "poll" \/ (pc = "keys" /\ todo # <<>> /\ Head(todo) \notin DOMAIN prev)
  /\ changes' = changes + 1
  /\ pc' = "ended"
  /\ UNCHANGED <<kv, todo, prev, newk, last, spm, started, manager, used, stop>>

\* updateForwardService, a critical section of its own, and the watcher's tables.
Update ==
  /\ pc = "update"
  /\ services' = Put(services, started.port, started.service)
  /\ spm' = Put(spm, started.service, started.port)
  /\ last' = Put(last, started.port,
                 {started.agent}
                   \union (IF started.port \in DOMAIN last THEN last[started.port] ELSE {}))
  /\ started' = Empty
  /\ pc' = "keys"
  /\ UNCHANGED <<consul, todo, prev, newk, servers, used, stop>>

\* Ports that no agent uses any more.
Removed == {p \in DOMAIN last : last[p] = {}}

\* Services whose ports are removed, as FibpPortForwardMgr knows them.
Forgotten == {services[p] : p \in Removed \intersect DOMAIN services}

\* stopPortForward for each port of P: one that has no server is left alone.
StopPortForward(P) ==
  /\ servers' = servers \ P
  /\ services' = Without(services, P \intersect servers)

\* The end of the loop: ports without agents are stopped, and the agents' ports
\* are published.
Finish ==
  /\ pc = "keys" /\ todo = <<>>
  /\ pc' = "poll"
  /\ prev' = newk
  /\ spm' = Without(spm, Forgotten)
  /\ StopPortForward(Removed)
  /\ last' = Without(last, Removed)
  /\ used' = [a \in Agents |-> used[a] \union {p \in DOMAIN last' : a \in last'[p]}]
  /\ UNCHANGED <<consul, todo, newk, started, stop>>
-----------------------------------------------------------------------------
(* FibpForwardManager::stop, on another thread: first the ports, then the  *)
(* watcher, which ends where it waits for consul.                          *)

StopAll ==
  /\ stop = "no"
  /\ stop' = "ports"
  /\ servers' = {} /\ services' = Empty
  /\ UNCHANGED <<consul, pc, todo, prev, newk, last, spm, started, used>>

StopWatcher ==
  /\ stop = "ports"
  /\ pc \in {"poll", "ended"} \/ (pc = "keys" /\ todo # <<>> /\ Head(todo) \notin DOMAIN prev)
  /\ stop' = "done"
  /\ pc' = "ended"
  /\ UNCHANGED <<consul, todo, prev, newk, last, spm, started, manager, used>>
-----------------------------------------------------------------------------
Watcher ==
  \/ Polled \/ PolledNone \/ SkipKey \/ Update \/ Finish
  \/ \E k \in Keys : HandleKey(k)

\* An agent asks for its ports.
get_related_forward_ports(agentid) == used[agentid]

Next == Change \/ Watcher \/ WatcherDies \/ StopAll \/ StopWatcher

Spec == Init /\ [][Next]_vars

\* The watcher's requests end (consul bounds the wait; a failed poll is repeated), and
\* asking for a key's value again and again succeeds in the end.
Fairness == WF_vars(Watcher) /\ (\A k \in Keys : SF_vars(HandleKey(k)))

FairSpec == Spec /\ Fairness
-----------------------------------------------------------------------------
Running == stop = "no"

\* No service has two ports, also while a port is being started.
OnePortPerService ==
  /\ \A p, q \in DOMAIN services : services[p] = services[q] => p = q
  /\ started # Empty => started.service \notin Range(services)

\* The watcher's tables and those of FibpPortForwardMgr agree: the same ports, each with
\* agents, and the port of each service forwards to it.
TablesAgree ==
  /\ DOMAIN last = servers /\ DOMAIN services = servers
  /\ \A p \in servers : last[p] # {}
  /\ DOMAIN spm = Range(services)
  /\ \A s \in DOMAIN spm : spm[s] \in servers /\ services[spm[s]] = s

\* No service ever has two ports.  Between two polls the watcher's tables and those of
\* FibpPortForwardMgr agree, and every key that was taken over has a port for its
\* service, open and published to its agent.
AgentsServed ==
  Running =>
    /\ OnePortPerService
    /\ pc = "poll" =>
         /\ TablesAgree
         /\ \A k \in DOMAIN prev :
              \E p \in get_related_forward_ports(KeyAgent[k]) \intersect servers :
                services[p] = prev[k]

=============================================================================
