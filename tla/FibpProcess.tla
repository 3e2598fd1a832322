----------------------------- MODULE FibpProcess -----------------------------
(***************************************************************************)
(* The process: main starts the thread that waits for signals, sets up the *)
(* servers, registers the hook that stops them, and runs them; a signal    *)
(* makes the signal thread run the hook, once.  The driver server and the  *)
(* HTTP server are AsyncMultiIOServicesServers: a thread for the acceptor  *)
(* (io_service 0) and one for each of the other io_services, to which the  *)
(* connections are given in turn.                                          *)
(*                                                                         *)
(* The hook sets normal_stop_ and stops the io_services one by one while   *)
(* the server's thread may be anywhere in run.                             *)
(***************************************************************************)
EXTENDS Naturals, Sequences, FiniteSets, Functions, SequencesExt

CONSTANTS ServerList,  \* the driver server and the HTTP server
          Services,    \* io_services of a server, beside the acceptor's
          MaxConns     \* bound on the connections that a server accepts

ASSUME ProcessAssumption == Services \in Nat \ {0, 1} /\ MaxConns \in Nat

Servers == Range(ServerList)

VARIABLES
  main,        \* main: config, servers, hooked, run, joined, exited
  sig,         \* signal thread: wait, hook, over
  hooks,       \* the hook is registered
  todo,        \* what the hook has still to do
  thread,      \* each server: none, created, listening, running, ended
  normal_stop, \* normal_stop_
  stopped,     \* io_services of each server that are stopped
  rpc,         \* RPC server: idle, started, ended
  manager,     \* FibpForwardManager: idle, started, stopped
  next,        \* next_io_service_ of each server
  accepting,   \* async_accept is pending: the io_service of newConnection_, or None
  posted,      \* runConnection is posted: number of connections by io_service
  started,     \* connections that are started, by io_service
  late         \* history: the hook began after both servers had cleared normal_stop_

process == <<main, sig, hooks, todo, rpc, manager, late>>
accept == <<next, accepting, posted, started>>
processVars == <<process, thread, normal_stop, stopped, accept>>

None == 0
AllServices == 0..Services     \* 0 is main_io_service_

ProcessInit ==
  /\ main = "config" /\ sig = "wait" /\ hooks = FALSE /\ todo = <<>>
  /\ thread = [s \in Servers |-> "none"]
  /\ normal_stop = [s \in Servers |-> FALSE]
  /\ stopped = [s \in Servers |-> {}]
  /\ rpc = "idle" /\ manager = "idle"
  /\ next = [s \in Servers |-> 0] /\ accepting = [s \in Servers |-> None]
  /\ posted = [s \in Servers |-> [i \in 1..Services |-> 0]]
  /\ started = [s \in Servers |-> [i \in 1..Services |-> 0]]
  /\ late = FALSE
-----------------------------------------------------------------------------
(* main                                                                    *)

\* A configuration or a report address that cannot be used ends the process.
Fails ==
  /\ main = "config"
  /\ main' = "exited"
  /\ UNCHANGED <<sig, hooks, todo, rpc, manager, late, thread, normal_stop, stopped, accept>>

\* initialize, initConnectionServer up to FibpForwardManager::init.
initConnectionServer ==
  /\ main = "config"
  /\ main' = "servers"
  /\ manager' = "started"
  /\ UNCHANGED <<sig, hooks, todo, rpc, late, thread, normal_stop, stopped, accept>>

addExitHook ==
  /\ main = "servers"
  /\ main' = "hooked"
  /\ hooks' = TRUE
  /\ UNCHANGED <<sig, todo, rpc, manager, late, thread, normal_stop, stopped, accept>>

\* FibpProcess::run creates the threads of the servers and starts the RPC server.
run ==
  /\ main = "hooked"
  /\ main' = "run"
  /\ thread' = [s \in Servers |-> "created"]
  /\ rpc' = "started"
  /\ UNCHANGED <<sig, hooks, todo, manager, late, normal_stop, stopped, accept>>

\* The RPC server's port is taken: run returns with an error, and main with it.
RpcFails ==
  /\ main = "hooked"
  /\ main' = "exited"
  /\ UNCHANGED <<sig, hooks, todo, rpc, manager, late, thread, normal_stop, stopped, accept>>

join_all ==
  /\ main = "run" /\ \A s \in Servers : thread[s] = "ended"
  /\ main' = "joined"
  /\ UNCHANGED <<sig, hooks, todo, rpc, manager, late, thread, normal_stop, stopped, accept>>

waitSignalThread ==
  /\ main = "joined" /\ sig = "over"
  /\ main' = "exited"
  /\ UNCHANGED <<sig, hooks, todo, rpc, manager, late, thread, normal_stop, stopped, accept>>
-----------------------------------------------------------------------------
(* The signal thread.                                                      *)

Cleared == \A s \in Servers : thread[s] \in {"listening", "running", "ended"}

\* What stopConnectionServer does, step by step: for each server normal_stop_, then its
\* io_services, that of the acceptor last.
stopConnectionServer ==
  LET StopOf(s) == <<<<"flag", s>>>> \o [i \in 1..Services |-> <<"stop", s, i>>] \o <<<<"stop", s, 0>>>>
  IN FlattenSeq([k \in DOMAIN ServerList |-> StopOf(ServerList[k])]) \o <<<<"rpc">>, <<"manager">>>>

\* SIGINT, SIGHUP, SIGTERM or SIGQUIT; SIGPIPE is passed over.
Signal ==
  /\ sig = "wait" /\ main # "exited"
  /\ \/ hooks /\ sig' = "hook" /\ todo' = stopConnectionServer /\ late' = Cleared
     \/ ~hooks /\ sig' = "over" /\ UNCHANGED <<todo, late>>
  /\ UNCHANGED <<main, hooks, rpc, manager, thread, normal_stop, stopped, accept>>

Hook ==
  /\ sig = "hook" /\ todo # <<>> /\ main # "exited"
  /\ todo' = Tail(todo)
  /\ LET h == Head(todo)
     IN CASE h[1] = "flag" ->
               /\ normal_stop' = [normal_stop EXCEPT ![h[2]] = TRUE]
               /\ UNCHANGED <<stopped, rpc, manager>>
          [] h[1] = "stop" ->
               /\ stopped' = [stopped EXCEPT ![h[2]] = @ \cup {h[3]}]
               /\ UNCHANGED <<normal_stop, rpc, manager>>
          [] h[1] = "rpc" -> rpc' = "ended" /\ UNCHANGED <<normal_stop, stopped, manager>>
          [] OTHER -> manager' = "stopped" /\ UNCHANGED <<normal_stop, stopped, rpc>>
  /\ UNCHANGED <<main, sig, hooks, late, thread, accept>>

HookOver ==
  /\ sig = "hook" /\ todo = <<>>
  /\ sig' = "over"
  /\ UNCHANGED <<main, hooks, todo, rpc, manager, late, thread, normal_stop, stopped, accept>>
-----------------------------------------------------------------------------
(* The thread of a server.                                                 *)

\* get_io_service: the next one; it is created with the connection to come.
get_io_service(s) == ((next[s] + 1) % Services) + 1

asyncAccept(s) ==
  /\ next' = [next EXCEPT ![s] = (@ + 1) % Services]
  /\ accepting' = [accepting EXCEPT ![s] = get_io_service(s)]

\* run clears normal_stop_, then listens and waits for the first connection.
ServerRun(s) ==
  /\ thread[s] = "created"
  /\ thread' = [thread EXCEPT ![s] = "listening"]
  /\ normal_stop' = [normal_stop EXCEPT ![s] = FALSE]
  /\ UNCHANGED <<process, stopped, accept>>

ServerInit(s) ==
  /\ thread[s] = "listening"
  /\ thread' = [thread EXCEPT ![s] = "running"]
  /\ asyncAccept(s)
  /\ UNCHANGED <<process, normal_stop, stopped, posted, started>>

\* The server's port is taken: the exception leaves the thread and ends the process.
ListenFails(s) ==
  /\ thread[s] = "listening"
  /\ main' = "exited"
  /\ UNCHANGED <<sig, hooks, todo, rpc, manager, late, thread, normal_stop, stopped, accept>>

\* Mutant of ServerStops: the io_services are run again in any case.
ServerStops_again(s) ==
  /\ thread[s] = "running" /\ stopped[s] = AllServices
  /\ stopped' = [stopped EXCEPT ![s] = {}]
  /\ UNCHANGED <<process, thread, normal_stop, accept>>

\* The threads of all io_services are joined: the end, if it was asked for.
ServerStops(s) ==
  /\ thread[s] = "running" /\ stopped[s] = AllServices
  /\ \/ normal_stop[s] /\ thread' = [thread EXCEPT ![s] = "ended"] /\ UNCHANGED stopped
     \/ ~normal_stop[s] /\ stopped' = [stopped EXCEPT ![s] = {}] /\ UNCHANGED thread
  /\ UNCHANGED <<process, normal_stop, accept>>
-----------------------------------------------------------------------------
(* Connections.                                                            *)

Runs(s, i) == thread[s] = "running" /\ i \notin stopped[s]

Accepted(s) == [i \in 1..Services |-> posted[s][i] + started[s][i]]
MoreClients(s) == FoldFunction(+, 0, Accepted(s)) < MaxConns

\* A client has come: its connection goes to its io_service, and the next one is awaited.
onAccept(s) ==
  /\ Runs(s, 0) /\ accepting[s] # None /\ MoreClients(s)
  /\ posted' = [posted EXCEPT ![s][accepting[s]] = @ + 1]
  /\ asyncAccept(s)
  /\ UNCHANGED <<process, thread, normal_stop, stopped, started>>

\* accept fails: no error handler is set, and nothing is awaited any more.
onError(s) ==
  /\ Runs(s, 0) /\ accepting[s] # None
  /\ accepting' = [accepting EXCEPT ![s] = None]
  /\ UNCHANGED <<process, thread, normal_stop, stopped, next, posted, started>>

\* A fiber of the io_service's thread for the connection.
runConnection(s, i) ==
  /\ Runs(s, i) /\ posted[s][i] > 0
  /\ posted' = [posted EXCEPT ![s][i] = @ - 1]
  /\ started' = [started EXCEPT ![s][i] = @ + 1]
  /\ UNCHANGED <<process, thread, normal_stop, stopped, next, accepting>>
-----------------------------------------------------------------------------
MainSteps == initConnectionServer \/ addExitHook \/ run \/ join_all \/ waitSignalThread
SignalSteps == Hook \/ HookOver
ServerSteps(s) == main # "exited" /\ (ServerRun(s) \/ ServerInit(s) \/ ServerStops(s))
Connect(s) == main # "exited" /\ (onAccept(s) \/ onError(s) \/ ListenFails(s))
RunsConnection(s, i) == main # "exited" /\ runConnection(s, i)

ProcessNext ==
  \/ Fails \/ RpcFails \/ MainSteps \/ Signal \/ SignalSteps
  \/ \E s \in Servers : ServerSteps(s) \/ Connect(s) \/ \E i \in 1..Services : RunsConnection(s, i)
-----------------------------------------------------------------------------
\* A signal that comes when both servers have begun to run, at whatever point they and
\* their connections are, stops both and ends the process.
StopEndsProcess == late ~> main = "exited"

\* A connection that was handed over is started, unless its io_service is stopped or the
\* process is over.
AcceptedIsStarted ==
  \A s \in Servers, i \in 1..Services :
    posted[s][i] > 0 ~> (posted[s][i] = 0 \/ i \in stopped[s] \/ main = "exited")
=============================================================================
