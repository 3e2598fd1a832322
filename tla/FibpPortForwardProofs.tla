----------------------- MODULE FibpPortForwardProofs -----------------------
(***************************************************************************)
(* Proof about FibpPortForward, for any keys, agents, services and ports,  *)
(* however the keys in consul change while the watcher reads them: no      *)
(* service ever has two ports, and between two polls every agent is served *)
(* and the tables agree.                                                   *)
(*                                                                         *)
(* ForwardInv is inductive.  Most of it is about the loop over the keys,   *)
(* where AgentsServed says little: service_port_map and                    *)
(* forward_service_list_ stay inverse to each other (PortMaps), a port     *)
(* that is being started is in neither (Starting), and each key seen so    *)
(* far has its agent at the port of its service (KeysSeen).                *)
(***************************************************************************)
EXTENDS FibpPortForward, TLAPS

ForwardTypes ==
  /\ DOMAIN prev \subseteq Keys /\ DOMAIN newk \subseteq Keys
  /\ DOMAIN used = Agents
  /\ DOMAIN last = DOMAIN services

\* service_port_map is the inverse of forward_service_list_.
PortMaps ==
  /\ \A p \in DOMAIN services : services[p] \in DOMAIN spm /\ spm[services[p]] = p
  /\ \A s \in DOMAIN spm : spm[s] \in DOMAIN services /\ services[spm[s]] = s

\* Between startPortForward and updateForwardService the port has a server only, and its
\* service no port.
Starting ==
  IF pc = "update"
  THEN /\ started.port \in servers /\ started.port \notin DOMAIN services
       /\ DOMAIN services = servers \ {started.port}
       /\ started.service \notin DOMAIN spm
  ELSE started = Empty /\ DOMAIN services = servers

\* In the loop, the agent of each key in new_keys is at the port of its service, or is
\* the one for whom a port is being started.
KeysSeen ==
  pc \in {"keys", "update"} =>
    \A k \in DOMAIN newk :
      \/ newk[k] \in DOMAIN spm /\ KeyAgent[k] \in last[spm[newk[k]]]
      \/ pc = "update" /\ newk[k] = started.service /\ KeyAgent[k] = started.agent

\* Between two polls the keys that were taken over are served.
KeysServed ==
  pc = "poll" =>
    /\ \A p \in servers : last[p] # {}
    /\ \A k \in DOMAIN prev : \E p \in used[KeyAgent[k]] \cap servers : services[p] = prev[k]

ForwardInv == Running => ForwardTypes /\ PortMaps /\ Starting /\ KeysSeen /\ KeysServed
\* Init: no ports.
LEMMA ForwardInit == Init => ForwardInv
BY DEF Init, ForwardInv, ForwardTypes, PortMaps, Starting, KeysSeen, KeysServed, Empty

\* The steps of consul, of a watcher that ends, and those that take over nothing.
LEMMA OtherForward ==
  ASSUME ForwardInv, Change \/ PolledNone \/ SkipKey \/ WatcherDies \/ UNCHANGED vars
  PROVE ForwardInv'
<1>1. /\ UNCHANGED <<newk, last, spm, started, servers, services, used, stop>>
      /\ prev' = prev \/ prev' = Empty
      /\ pc' = pc \/ (pc' = "ended" /\ pc # "update")
  BY DEF Change, PolledNone, SkipKey, WatcherDies, vars, manager, consul
<1> SUFFICES ASSUME Running PROVE (ForwardTypes /\ PortMaps /\ Starting /\ KeysSeen /\ KeysServed)'
  BY <1>1 DEF ForwardInv, Running
<1>2. ForwardTypes /\ PortMaps /\ Starting /\ KeysSeen /\ KeysServed
  BY DEF ForwardInv
<1>3. DOMAIN Empty = {}
  BY DEF Empty
<1>4. ForwardTypes' /\ PortMaps'
  BY <1>1, <1>2, <1>3 DEF ForwardTypes, PortMaps
<1>5. Starting' /\ KeysSeen'
  BY <1>1, <1>2 DEF Starting, KeysSeen
<1>6. KeysServed'
  BY <1>1, <1>2, <1>3 DEF KeysServed
<1> QED
  BY <1>4, <1>5, <1>6

\* Polled: the agents are collected anew, the ports stay.
LEMMA PolledForward == ASSUME ForwardInv, Polled PROVE ForwardInv'
<1>1. /\ UNCHANGED <<prev, spm, started, servers, services, used, stop>>
      /\ pc = "poll" /\ pc' = "keys" /\ newk' = Empty /\ DOMAIN last' = DOMAIN last
  BY DEF Polled, Cleared, manager
<1> SUFFICES ASSUME Running PROVE (ForwardTypes /\ PortMaps /\ Starting /\ KeysSeen /\ KeysServed)'
  BY <1>1 DEF ForwardInv, Running
<1>2. ForwardTypes /\ PortMaps /\ Starting /\ DOMAIN Empty = {}
  BY DEF ForwardInv, Empty
<1> QED
  BY <1>1, <1>2 DEF ForwardTypes, PortMaps, Starting, KeysSeen, KeysServed

\* A key whose service has a port: its agent joins those of the port.
LEMMA JoinPort ==
  ASSUME ForwardInv, Running, NEW k \in Keys, NEW s, pc = "keys", pc' = "keys",
         newk' = Put(newk, k, s), HasPort(s), last' = Joined(s, KeyAgent[k]),
         UNCHANGED <<prev, spm, started, servers, services, used, stop>>
  PROVE ForwardInv'
<1>1. ForwardTypes /\ PortMaps /\ Starting /\ KeysSeen
  BY DEF ForwardInv
<1>2. s \in DOMAIN spm /\ spm[s] \in DOMAIN last
  BY <1>1 DEF HasPort, PortMaps, ForwardTypes
<1>3. last' = Put(last, spm[s], {KeyAgent[k]} \cup last[spm[s]])
  BY <1>2 DEF Joined
<1>4. /\ DOMAIN last' = DOMAIN last /\ KeyAgent[k] \in last'[spm[s]]
      /\ \A p \in DOMAIN last : last[p] \subseteq last'[p]
  BY <1>2, <1>3 DEF Put
<1>5. /\ DOMAIN newk' = DOMAIN newk \cup {k} /\ newk'[k] = s
      /\ \A j \in DOMAIN newk : j # k => newk'[j] = newk[j]
  BY DEF Put
<1>6. ForwardTypes' /\ PortMaps' /\ Starting' /\ KeysServed'
  BY <1>1, <1>4, <1>5 DEF ForwardTypes, PortMaps, Starting, KeysServed
<1>7. ASSUME NEW j \in DOMAIN newk' PROVE newk'[j] \in DOMAIN spm /\ KeyAgent[j] \in last'[spm[newk'[j]]]
  <2>1. CASE j = k
    BY <1>2, <1>4, <1>5, <2>1
  <2>2. CASE j # k
    <3>1. j \in DOMAIN newk /\ newk'[j] = newk[j]
      BY <1>5, <2>2
    <3>2. newk[j] \in DOMAIN spm /\ KeyAgent[j] \in last[spm[newk[j]]]
      BY <1>1, <3>1 DEF KeysSeen
    <3>3. spm[newk[j]] \in DOMAIN last
      BY <1>1, <3>2 DEF PortMaps, ForwardTypes
    <3> QED
      BY <1>4, <3>1, <3>2, <3>3
  <2> QED
    BY <2>1, <2>2
<1>8. KeysSeen'
  BY <1>7 DEF KeysSeen
<1> QED
  BY <1>6, <1>8 DEF ForwardInv

\* A key whose service has no port: the new port is one that no server has.
LEMMA StartPort ==
  ASSUME ForwardInv, Running, NEW k \in Keys, NEW s, pc = "keys", pc' = "update",
         newk' = Put(newk, k, s), ~HasPort(s), StartPortForward(s, KeyAgent[k]),
         UNCHANGED <<prev, spm, last, services, used, stop>>
  PROVE ForwardInv'
<1>1. ForwardTypes /\ PortMaps /\ Starting /\ KeysSeen
  BY DEF ForwardInv
<1>2. PICK p \in Ports \ servers : /\ servers' = servers \cup {p}
                                   /\ started' = [port |-> p, service |-> s, agent |-> KeyAgent[k]]
  BY DEF StartPortForward
<1>3. started'.port = p /\ started'.service = s /\ started'.agent = KeyAgent[k]
  BY <1>2
<1>4. /\ DOMAIN newk' = DOMAIN newk \cup {k} /\ newk'[k] = s
      /\ \A j \in DOMAIN newk : j # k => newk'[j] = newk[j]
  BY DEF Put
<1>5. ForwardTypes' /\ PortMaps' /\ KeysServed'
  BY <1>1, <1>4 DEF ForwardTypes, PortMaps, KeysServed
<1>6. Starting'
  BY <1>1, <1>2, <1>3 DEF Starting, HasPort
<1>7. KeysSeen'
  BY <1>1, <1>3, <1>4 DEF KeysSeen
<1> QED
  BY <1>5, <1>6, <1>7 DEF ForwardInv

\* A turn of the loop is one of the two.
LEMMA HandleKeyForward == ASSUME ForwardInv, NEW k \in Keys, HandleKey(k) PROVE ForwardInv'
<1>1. pc = "keys" /\ UNCHANGED <<prev, spm, services, used, stop>>
  BY DEF HandleKey
<1>2. CASE ~Running
  BY <1>1, <1>2 DEF ForwardInv, Running
<1>3. CASE Running
  <2>1. PICK s : Assign(k, s)
    BY DEF HandleKey
  <2>2. CASE HasPort(s)
    BY <1>1, <1>3, <2>1, <2>2, JoinPort DEF Assign
  <2>3. CASE ~HasPort(s)
    BY <1>1, <1>3, <2>1, <2>3, StartPort DEF Assign
  <2> QED
    BY <2>2, <2>3
<1> QED
  BY <1>2, <1>3

\* Update: the new port enters both tables.
LEMMA UpdateForward == ASSUME ForwardInv, Update PROVE ForwardInv'
<1> DEFINE q == started.port
           s == started.service
<1>1. /\ pc = "update" /\ pc' = "keys" /\ started' = Empty
      /\ services' = Put(services, q, s) /\ spm' = Put(spm, s, q)
      /\ UNCHANGED <<prev, newk, servers, used, stop>>
  BY DEF Update
<1> SUFFICES ASSUME Running PROVE (ForwardTypes /\ PortMaps /\ Starting /\ KeysSeen /\ KeysServed)'
  BY <1>1 DEF ForwardInv, Running
<1>2. ForwardTypes /\ PortMaps /\ Starting /\ KeysSeen
  BY DEF ForwardInv
<1>3. q \in servers /\ q \notin DOMAIN services /\ s \notin DOMAIN spm /\ DOMAIN services = servers \ {q}
  BY <1>1, <1>2 DEF Starting
<1>4. last' = Put(last, q, {started.agent})
  BY <1>2, <1>3 DEF Update, ForwardTypes
<1> HIDE DEF q, s
<1>5. /\ DOMAIN services' = DOMAIN services \cup {q} /\ services'[q] = s
      /\ \A p \in DOMAIN services : services'[p] = services[p]
  BY <1>1, <1>3 DEF Put
<1>6. /\ DOMAIN spm' = DOMAIN spm \cup {s} /\ spm'[s] = q
      /\ \A t \in DOMAIN spm : spm'[t] = spm[t]
  BY <1>1, <1>3 DEF Put
<1>7. /\ DOMAIN last' = DOMAIN last \cup {q} /\ started.agent \in last'[q]
      /\ \A p \in DOMAIN last : last'[p] = last[p]
  BY <1>2, <1>3, <1>4 DEF Put, ForwardTypes
<1>8. ForwardTypes'
  BY <1>1, <1>2, <1>5, <1>7 DEF ForwardTypes
<1>9. PortMaps'
  BY <1>2, <1>3, <1>5, <1>6 DEF PortMaps
<1>10. Starting' /\ KeysServed'
  BY <1>1, <1>3, <1>5 DEF Starting, KeysServed
<1>11. KeysSeen'
  <2> SUFFICES ASSUME NEW k \in DOMAIN newk
               PROVE newk[k] \in DOMAIN spm' /\ KeyAgent[k] \in last'[spm'[newk[k]]]
    BY <1>1 DEF KeysSeen
  <2>1. CASE newk[k] \in DOMAIN spm /\ KeyAgent[k] \in last[spm[newk[k]]]
    <3>1. spm[newk[k]] \in DOMAIN last
      BY <1>2, <2>1 DEF PortMaps, ForwardTypes
    <3> QED
      BY <1>6, <1>7, <2>1, <3>1
  <2>2. CASE newk[k] = s /\ KeyAgent[k] = started.agent
    BY <1>6, <1>7, <2>2
  <2> QED
    BY <1>1, <1>2, <2>1, <2>2 DEF KeysSeen, s
<1> QED
  BY <1>8, <1>9, <1>10, <1>11
\* Finish: a port that loses its server has no agent left, and it leaves all tables; the
\* ports of the keys that were seen have an agent, and are published to it.
LEMMA FinishForward == ASSUME ForwardInv, Finish PROVE ForwardInv'
<1>1. /\ pc = "keys" /\ pc' = "poll" /\ prev' = newk
      /\ spm' = Without(spm, Forgotten) /\ last' = Without(last, Removed)
      /\ servers' = servers \ Removed /\ services' = Without(services, Removed \cap servers)
      /\ UNCHANGED <<newk, started, stop>>
  BY DEF Finish, StopPortForward
<1> SUFFICES ASSUME Running PROVE (ForwardTypes /\ PortMaps /\ Starting /\ KeysSeen /\ KeysServed)'
  BY <1>1 DEF ForwardInv, Running
<1>2. ForwardTypes /\ PortMaps /\ Starting /\ KeysSeen
  BY DEF ForwardInv
<1>3. DOMAIN services = servers /\ DOMAIN last = servers /\ started = Empty
  BY <1>1, <1>2 DEF Starting, ForwardTypes
<1>4. Removed \subseteq servers
  BY <1>3 DEF Removed
<1>5. /\ DOMAIN services' = servers \ Removed
      /\ \A p \in servers \ Removed : services'[p] = services[p]
  BY <1>1, <1>3 DEF Without
<1>6. /\ DOMAIN last' = servers \ Removed
      /\ \A p \in servers \ Removed : last'[p] = last[p] /\ last[p] # {}
  BY <1>1, <1>3 DEF Without, Removed
<1>7. \A t \in DOMAIN spm : t \in Forgotten <=> spm[t] \in Removed
  <2>1. Forgotten = {services[p] : p \in Removed}
    BY <1>3, <1>4 DEF Forgotten
  <2> QED
    BY <1>2, <1>3, <1>4, <2>1 DEF PortMaps
<1>8. /\ DOMAIN spm' = {t \in DOMAIN spm : spm[t] \notin Removed}
      /\ \A t \in DOMAIN spm : spm[t] \notin Removed => spm'[t] = spm[t]
  BY <1>1, <1>7 DEF Without
<1>9. /\ DOMAIN used' = Agents
      /\ \A a \in Agents : \A p \in servers \ Removed : a \in last[p] => p \in used'[a]
  BY <1>6 DEF Finish
<1>10. ForwardTypes'
  BY <1>1, <1>2, <1>5, <1>6, <1>9 DEF ForwardTypes
<1>11. PortMaps'
  BY <1>2, <1>3, <1>5, <1>8 DEF PortMaps
<1>12. Starting' /\ KeysSeen'
  BY <1>1, <1>3, <1>5 DEF Starting, KeysSeen
<1>13. KeysServed'
  <2>1. ASSUME NEW k \in DOMAIN newk
        PROVE \E p \in used'[KeyAgent[k]] \cap servers' : services'[p] = newk[k]
    <3> DEFINE p == spm[newk[k]]
    <3>1. newk[k] \in DOMAIN spm /\ KeyAgent[k] \in last[p]
      BY <1>1, <1>2 DEF KeysSeen
    <3>2. p \in servers /\ services[p] = newk[k]
      BY <1>2, <1>3, <3>1 DEF PortMaps
    <3>3. p \notin Removed
      BY <3>1 DEF Removed
    <3>4. KeyAgent[k] \in Agents
      BY <1>2, ForwardAssumption DEF ForwardTypes, Agents, Range
    <3>5. p \in used'[KeyAgent[k]] \cap servers'
      BY <1>1, <1>9, <3>1, <3>2, <3>3, <3>4
    <3> QED
      BY <1>5, <3>2, <3>3, <3>5
  <2> QED
    BY <1>1, <1>6, <2>1 DEF KeysServed
<1> QED
  BY <1>10, <1>11, <1>12, <1>13

\* Every step keeps the invariant; once the process stops it says nothing.
LEMMA ForwardStep == ASSUME ForwardInv, [Next]_vars PROVE ForwardInv'
<1>1. CASE StopAll \/ StopWatcher
  BY <1>1 DEF StopAll, StopWatcher, ForwardInv, Running
<1>2. CASE Watcher
  BY <1>2, OtherForward, PolledForward, UpdateForward, FinishForward, HandleKeyForward DEF Watcher
<1>3. CASE Change \/ WatcherDies \/ UNCHANGED vars
  BY <1>3, OtherForward
<1> QED
  BY <1>1, <1>2, <1>3 DEF Next

\* What the tables say between two polls, from the invariant.
LEMMA ForwardImplies == ASSUME ForwardInv, Running PROVE AgentsServed
<1>1. ForwardTypes /\ PortMaps /\ Starting /\ KeysServed
  BY DEF ForwardInv
<1>2. Range(services) = DOMAIN spm
  BY <1>1 DEF PortMaps, Range
<1>3. OnePortPerService
  <2>1. \A p, q \in DOMAIN services : services[p] = services[q] => p = q
    BY <1>1 DEF PortMaps
  <2>2. started # Empty => started.service \notin DOMAIN spm
    BY <1>1 DEF Starting
  <2> QED
    BY <1>2, <2>1, <2>2 DEF OnePortPerService
<1>4. ASSUME pc = "poll" PROVE TablesAgree
  <2>1. DOMAIN services = servers
    BY <1>1, <1>4 DEF Starting
  <2> QED
    BY <1>1, <1>2, <1>4, <2>1 DEF TablesAgree, ForwardTypes, PortMaps, KeysServed
<1> QED
  BY <1>1, <1>3, <1>4 DEF AgentsServed, KeysServed, get_related_forward_ports

\* watchPortForwardChangeFunc never opens two ports for a service, and between two polls its
\* tables and those of FibpPortForwardMgr agree and every key that was taken over has a port
\* for its service, open and published to its agent.
THEOREM EveryAgentServed == Spec => []AgentsServed
<1>1. ForwardInv => AgentsServed
  BY ForwardImplies DEF AgentsServed
<1>2. ForwardInv /\ [Next]_vars => ForwardInv'
  BY ForwardStep
<1> QED
  BY <1>1, <1>2, ForwardInit, PTL DEF Spec
=============================================================================
