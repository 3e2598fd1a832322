----------------------------- MODULE FiberPool -----------------------------
(***************************************************************************)
(* FiberPool: fibers of one thread that take tasks from fiber_task_list_.  *)
(*                                                                         *)
(* A lazy pool (that of FibpForwardManager) starts with the first task and *)
(* grows.  Its tasks come from fibers; the task of a request may hand over *)
(* further tasks, its calls, and keeps its fiber while it waits for them.  *)
(* A fixed pool (that of the servers) gets its tasks from other threads,   *)
(* through thread_task_list_ and the fiber check_task_fiber_fun.           *)
(*                                                                         *)
(* Nobody stops a lazy pool: its destructor would, but every fiber holds a *)
(* reference to the pool.                                                  *)
(*                                                                         *)
(* The fibers of the pool are alike, so they are counted.  A fiber that    *)
(* has begun or ended a task is given a step of its own for what it does   *)
(* next; in the code no other fiber runs between.                          *)
(***************************************************************************)
EXTENDS Integers, Sequences, FiniteSets

CONSTANTS Requests,   \* requests
          MaxCalls,   \* bound on the calls of a request
          PoolSize,   \* fibers of a fixed pool, 500 in the code
          GrowSize,   \* GROW_SIZE, 10 in the code
          MaxGrow     \* MAX_GROW_SIZE, 15000 in the code

ASSUME PoolAssumption ==
  /\ PoolSize \in Nat \ {0} /\ GrowSize \in Nat \ {0} /\ MaxGrow \in Nat
  /\ MaxCalls \in Nat \ {0}
  /\ IsFiniteSet(Requests)

VARIABLES
  mode,      \* lazy or fixed
  size,      \* fiber_pool_.size()
  tasks,     \* fiber_task_list_
  ready,     \* fibers that will look at the list when they run
  idle,      \* fibers that wait on cond_
  ended,     \* fibers that have returned
  running,   \* running_fiber_num_
  stop,      \* need_stop_
  threadq,   \* thread_task_list_
  tmp,       \* tmp_list of check_task_fiber_fun
  checker,   \* check_task_fiber_fun: at the head of its loop or handing over (on),
             \* after a wait on thread_cond_ (loop), in one (blocked), or off
  st,        \* each request: off, queued, running (one call, or the server's
             \* handler), fork, wait, done
  calls,     \* its number of calls
  forked,    \* calls that it has handed over
  left,      \* calls that have not ended
  active     \* calls that run

vars == <<mode, size, tasks, ready, idle, ended, running, stop, threadq, tmp, checker,
          st, calls, forked, left, active>>
requests == <<st, calls, forked, left, active>>
thread == <<threadq, tmp, checker>>

Task == [req: Requests, child: {"no", "yes"}]

TypeOK ==
  /\ mode \in {"lazy", "fixed"}
  /\ size \in Nat
  /\ tasks \in Seq(Task)
  /\ ready \in Nat /\ idle \in Nat /\ ended \in Nat /\ running \in Nat
  /\ stop \in {"no", "yes"}
  /\ threadq \in Seq(Task) /\ tmp \in Seq(Task)
  /\ checker \in {"on", "loop", "blocked", "off"}
  /\ st \in [Requests -> {"off", "queued", "running", "fork", "wait", "done"}]
  /\ calls \in [Requests -> 1..MaxCalls]
  /\ forked \in [Requests -> 0..MaxCalls]
  /\ left \in [Requests -> 0..MaxCalls]
  /\ active \in [Requests -> 0..MaxCalls]

Init ==
  /\ \/ mode = "lazy" /\ size = 0 /\ ready = 0 /\ checker = "off"
     \/ mode = "fixed" /\ size = PoolSize + 1 /\ ready = PoolSize /\ checker = "on"
  /\ tasks = <<>> /\ idle = 0 /\ ended = 0 /\ running = 0 /\ stop = "no"
  /\ threadq = <<>> /\ tmp = <<>>
  /\ st = [r \in Requests |-> "off"]
  /\ calls = [r \in Requests |-> 1]
  /\ forked = [r \in Requests |-> 0]
  /\ left = [r \in Requests |-> 0]
  /\ active = [r \in Requests |-> 0]
-----------------------------------------------------------------------------
(* Handing over a task.                                                    *)

\* Mutant of Growth: the pool grows only when more run than it has fibers.
GrowthLate ==
  IF size = 0
  THEN GrowSize
  ELSE IF running > size /\ size <= MaxGrow THEN size ELSE 0

\* The fibers added by schedule_task_from_fiber: the first ones, or as many again
\* when all but one run tasks, up to the limit.
Growth ==
  IF size = 0
  THEN GrowSize
  ELSE IF running >= size - 1 /\ size <= MaxGrow THEN size ELSE 0

\* Mutant of Woken: nobody is notified.
WokenNone == 0

\* cond_.notify_one()
Woken == IF idle > 0 THEN 1 ELSE 0

\* A task goes to the list, the pool gets new fibers, and one is notified.
Push(t, new) ==
  /\ tasks' = Append(tasks, t)
  /\ size' = size + new
  /\ ready' = ready + new + Woken
  /\ idle' = idle - Woken
  /\ UNCHANGED <<mode, ended, running, stop>>

\* post_to_fiber_pool, on the thread of the pool.
Post(r) ==
  /\ mode = "lazy"
  /\ st[r] = "off"
  /\ \E n \in 1..MaxCalls : calls' = [calls EXCEPT ![r] = n]
  /\ st' = [st EXCEPT ![r] = "queued"]
  /\ Push([req |-> r, child |-> "no"], Growth)
  /\ UNCHANGED <<forked, left, active, thread>>

\* schedule_task, on any thread.
ScheduleTask(r) ==
  /\ mode = "fixed"
  /\ st[r] = "off"
  /\ st' = [st EXCEPT ![r] = "queued"]
  /\ threadq' = Append(threadq, [req |-> r, child |-> "no"])
  /\ UNCHANGED <<mode, size, tasks, ready, idle, ended, running, stop, tmp, checker,
                 calls, forked, left, active>>

\* check_task_fiber_fun hands over one task, and yields.
HandOver ==
  /\ tmp # <<>>
  /\ Push(Head(tmp), 0)
  /\ tmp' = Tail(tmp)
  /\ UNCHANGED <<threadq, checker>>

\* It takes all that the other threads have queued, and hands over the first.
TakeTasks ==
  /\ checker \in {"on", "loop"} /\ tmp = <<>> /\ threadq # <<>>
  /\ Push(Head(threadq), 0)
  /\ tmp' = Tail(threadq)
  /\ threadq' = <<>>
  /\ checker' = "on"

\* It finds nothing and waits on thread_cond_, which blocks the whole thread; the
\* wait lasts 100 ms at most.  While fiber_task_list_ is not empty it yields instead.
WaitForThreads ==
  /\ tmp = <<>> /\ threadq = <<>>
  /\ checker = "loop" \/ (checker = "on" /\ tasks = <<>>)
  /\ checker' = "blocked"
  /\ UNCHANGED <<mode, size, tasks, ready, idle, ended, running, stop, threadq, tmp>>

WaitEnds ==
  /\ checker = "blocked"
  /\ checker' = IF stop = "yes" THEN "off" ELSE "loop"
  /\ UNCHANGED <<mode, size, tasks, ready, idle, ended, running, stop, threadq, tmp>>

\* need_stop_ is seen while it yields.
StopSeen ==
  /\ checker = "on" /\ tmp = <<>> /\ threadq = <<>> /\ tasks # <<>> /\ stop = "yes"
  /\ checker' = "off"
  /\ UNCHANGED <<mode, size, tasks, ready, idle, ended, running, stop, threadq, tmp>>

CheckTask ==
  /\ HandOver \/ TakeTasks \/ WaitForThreads \/ WaitEnds \/ StopSeen
  /\ UNCHANGED requests
-----------------------------------------------------------------------------
(* A fiber of the pool: run_fiber.                                         *)

\* The task begins: a call, or a request.
Begin(t) ==
  IF t.child = "yes"
  THEN /\ active' = [active EXCEPT ![t.req] = @ + 1]
       /\ UNCHANGED <<st, left>>
  ELSE /\ st' = [st EXCEPT ![t.req] = IF calls[t.req] = 1 THEN "running" ELSE "fork"]
       /\ left' = [left EXCEPT ![t.req] = IF calls[t.req] = 1 THEN 0 ELSE calls[t.req]]
       /\ UNCHANGED active

\* The thread of the pool is not blocked by check_task_fiber_fun.
ThreadRuns == checker # "blocked"

RunFiber ==
  /\ ThreadRuns
  /\ ready > 0
  /\ ready' = ready - 1
  /\ \/ /\ stop = "yes"
        /\ ended' = ended + 1
        /\ UNCHANGED <<tasks, idle, running, st, left, active>>
     \/ /\ stop = "no" /\ tasks = <<>>
        /\ idle' = idle + 1
        /\ UNCHANGED <<tasks, ended, running, st, left, active>>
     \/ /\ stop = "no" /\ tasks # <<>>
        /\ tasks' = Tail(tasks)
        /\ running' = running + 1
        /\ Begin(Head(tasks))
        /\ UNCHANGED <<idle, ended>>
  /\ UNCHANGED <<mode, size, stop, calls, forked, thread>>

\* task() returns, and the fiber goes round its loop.
TaskEnds == ready' = ready + 1 /\ running' = running - 1

\* A request hands over its next call.
Fork(r) ==
  /\ st[r] = "fork"
  /\ forked[r] < calls[r]
  /\ forked' = [forked EXCEPT ![r] = @ + 1]
  /\ Push([req |-> r, child |-> "yes"], Growth)
  /\ UNCHANGED <<st, calls, left, active, thread>>

\* A call ends.
CallEnds(r) ==
  /\ active[r] > 0
  /\ active' = [active EXCEPT ![r] = @ - 1]
  /\ left' = [left EXCEPT ![r] = @ - 1]
  /\ TaskEnds
  /\ UNCHANGED <<mode, size, tasks, idle, ended, stop, st, calls, forked, thread>>

\* The request waits for its calls, in its fiber.
Wait(r) ==
  /\ st[r] = "fork" /\ forked[r] = calls[r] /\ left[r] > 0
  /\ st' = [st EXCEPT ![r] = "wait"]
  /\ UNCHANGED <<mode, size, tasks, ready, idle, ended, running, stop, calls, forked,
                 left, active, thread>>

\* A request ends: it has no calls of its own to wait for, or they have ended.
RequestEnds(r) ==
  /\ \/ st[r] = "running"
     \/ st[r] = "fork" /\ forked[r] = calls[r] /\ left[r] = 0
     \/ st[r] = "wait" /\ left[r] = 0
  /\ st' = [st EXCEPT ![r] = "done"]
  /\ TaskEnds
  /\ UNCHANGED <<mode, size, tasks, idle, ended, stop, calls, forked, left, active,
                 thread>>


\* cond_.notify_all()
NotifyAll == ready' = ready + idle /\ idle' = 0

\* stop(), on the thread that stops the server.
Stop ==
  /\ mode = "fixed" /\ stop = "no"
  /\ stop' = "yes"
  /\ NotifyAll
  /\ UNCHANGED <<mode, size, tasks, ended, running, thread, requests>>
-----------------------------------------------------------------------------
RequestStep(r) == ThreadRuns /\ (Fork(r) \/ CallEnds(r) \/ Wait(r) \/ RequestEnds(r))

Next ==
  \/ \E r \in Requests : Post(r) \/ ScheduleTask(r) \/ RequestStep(r)
  \/ CheckTask \/ RunFiber \/ Stop

Spec == Init /\ [][Next]_vars

\* Tasks end (their sends and waits have deadlines), and ready fibers run, also when
\* the thread is blocked again and again: check_task_fiber_fun yields after each
\* wait, and the scheduler is round robin.
Fairness ==
  /\ SF_vars(RunFiber) /\ WF_vars(CheckTask)
  /\ \A r \in Requests : SF_vars(RequestStep(r))

FairSpec == Spec /\ Fairness
-----------------------------------------------------------------------------
\* No task is stranded: while a fiber sleeps on cond_, at least as many fibers as
\* there are tasks are on their way to the list.  One notify_one per task is
\* enough, although it is lost when no fiber waits.
NoTaskStranded == stop = "no" => idle = 0 \/ Len(tasks) <= ready

\* Every fiber of the pool looks for a task, waits, has returned, or is one of the
\* running_fiber_num_: schedule_task_from_fiber compares that number with the size
\* of the pool to decide whether to grow.
FibersCounted ==
  ready + idle + running + ended = IF mode = "fixed" THEN size - 1 ELSE size

Waiting == {r \in Requests : st[r] = "wait"}

\* No fiber of the pool can make a step, and tasks are left.
Stuck ==
  /\ mode = "lazy" /\ tasks # <<>> /\ ready = 0
  /\ \A r \in Requests :
       /\ active[r] = 0
       /\ st[r] \in {"off", "queued", "done"} \/ (st[r] = "wait" /\ left[r] > 0)

\* Requests keep their fibers while they wait for calls that need fibers too.  The
\* pool locks up only at its limit, and only when each of its fibers is held by a
\* request that waits: before, whoever hands over the last task sees that all other
\* fibers run tasks, and adds some.
GrowsInTime == Stuck => size > MaxGrow /\ Cardinality(Waiting) = size


=============================================================================
