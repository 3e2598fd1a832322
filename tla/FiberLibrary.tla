---------------------------- MODULE FiberLibrary ----------------------------
(***************************************************************************)
(* The fiber library as the functions of a few fibers of one thread use it: *)
(* the scheduler with a mutex, a condition, a barrier, a queue and a future *)
(* of each kind.  A use says what the fibers' functions choose from, with   *)
(* the main fiber's among them, and on which objects.                       *)
(***************************************************************************)
EXTENDS FiberSync, FiberQueue, FiberFuture

CONSTANTS
  Uses,      \* order of the fibers, prog, and the kinds of the objects
  Deadline   \* the times that a timed call waits for

ASSUME UsesAssumption ==
  \A u \in Uses : /\ u.queue \in {"unbounded", "bounded", "bounded, low"}
                  /\ u.state \in {"R", "R&", "void"}

VARIABLE turns   \* how often each fiber was passed over since it could run

vars == <<turns, fvars, svars, qvars, tvars>>

QueueOf(k) ==
  CASE k = "unbounded" -> NewQueue(FALSE, 0, 0)
    [] k = "bounded" -> NewQueue(TRUE, 2, 2)
    [] k = "bounded, low" -> NewQueue(TRUE, 2, 1)

Init ==
  \E u \in Uses :
    /\ sched = NewManager(u.order)
    /\ turns = [f \in Fiber |-> 0]
    /\ pc = [n \in Node |-> "run"]
    /\ dl = [n \in Node |-> Never]
    /\ arg = [n \in Node |-> Main]
    /\ prog = u.prog
    /\ ops = [n \in Node |-> 0]
    /\ mtx = NewMutex(u.mutex)
    /\ depth = [n \in Node |-> 0]
    /\ cond = <<>>
    /\ bar = NewBarrier(u.barrier)
    /\ passes = [come |-> [n \in Node |-> 0], left |-> [n \in Node |-> 0]]
    /\ queue = QueueOf(u.queue)
    /\ pushed = <<>>
    /\ popped = <<>>
    /\ st = NewState(u.state)
    /\ own = NewOwner(u.owner)
    /\ fut = [n \in Node |-> "none"]
    /\ obj = 0
    /\ results = <<>>
    /\ seen = [n \in Node |-> Unseen]

\* Every time another fiber gets the thread, those that could run have been passed over.
Passed ==
  turns' = [f \in Fiber |->
             CASE ~Due(sched', f) \/ sched'.active = f -> 0
               [] Due(sched', f) /\ sched'.active # f ->
                    IF sched'.active \in Fiber \ {sched.active} THEN turns[f] + 1 ELSE turns[f]]

Scheduling(n) ==
  /\ \/ yield(n) \/ yield_returns(n) \/ sleep_returns(n) \/ join_returns(n)
     \/ \E t \in Deadline : sleep_until(n, t)
     \/ \E f \in Fiber : join(n, f) \/ detach(n, f) \/ interrupt(n, f)
     \/ depth[n] = 0 /\ end(n)
  /\ UNCHANGED <<svars, qvars, tvars>>
  /\ Passed

Locking(n) ==
  /\ \/ lock(n) \/ lock_goes_on(n) \/ try_lock(n) \/ unlock(n)
     \/ try_lock_until_goes_on(n) \/ cond_wait_goes_on(n)
     \/ \E t \in Deadline : try_lock_until(n, t)
     \/ \E t \in Deadline \cup {Never} : cond_wait(n, t)
     \/ notify_one(n) \/ notify_all(n)
     \/ barrier_wait(n) \/ barrier_wait_goes_on(n)
  /\ UNCHANGED <<qvars, tvars>>
  /\ Passed

Queueing(n) ==
  /\ \/ push_(n) \/ push_goes_on(n) \/ try_push_(n)
     \/ pop(n) \/ pop_goes_on(n) \/ try_pop(n) \/ close(n)
     \/ \E t \in Deadline : push_wait_until_(n, t) \/ pop_wait_until(n, t)
  /\ UNCHANGED <<svars, tvars>>
  /\ Passed

Futures(n) ==
  /\ \/ get_future(n) \/ share(n) \/ \E g \in Node : hand_over(n, g)
     \/ set_value(n) \/ set_exception(n) \/ destroy(n) \/ write(n)
     \/ call(n) \/ run(n) \/ reset(n)
     \/ \E what \in {"get", "get_exception_ptr", "wait_result"} : get(n, what)
     \/ \E what \in {"wait_result_until", "wait_result_for"}, t \in Deadline : timed_wait(n, what, t)
     \/ get_goes_on(n) \/ timed_wait_goes_on(n)
  /\ UNCHANGED <<svars, qvars>>
  /\ Passed

MainRuns == Run /\ Passed /\ UNCHANGED <<svars, qvars, tvars>>
TimePasses == Tick /\ Passed /\ UNCHANGED <<svars, qvars, tvars>>

Next ==
  \/ MainRuns
  \/ TimePasses
  \/ \E n \in Node : Scheduling(n) \/ Locking(n) \/ Queueing(n) \/ Futures(n)

Spec == Init /\ [][Next]_vars
-----------------------------------------------------------------------------
\* waiting_queue::move_to stops at the first fiber that cannot run, because "the
\* wait time is ordered": no fiber behind that one can run, whoever has been
\* notified, interrupted or timed out since it was pushed.
WaitingQueueOrdered ==
  \A i, j \in 1..Len(sched.wq) : i < j /\ Due(sched, sched.wq[j]) => Due(sched, sched.wq[i])

\* Where a fiber that is suspended in a call has left its name.
Registered(n) ==
  CASE pc[n] \in {"lock", "tlock"} -> mtx.waiting
    [] pc[n] \in {"cond", "tcond"} -> cond
    [] pc[n] = "barrier" -> bar.waiting
    [] pc[n] \in {"pop", "tpop"} -> queue.not_empty
    [] pc[n] \in {"push", "tpush"} -> queue.not_full
    [] pc[n] \in {"get", "tget"} -> st.waiters
    [] pc[n] = "join" -> sched.joining[arg[n]]
    [] OTHER -> <<>>


\* The lock counts: a mutex is locked exactly when one fiber holds it, a recursive
\* one as often as its owner has locked it.
MutualExclusion ==
  /\ Cardinality({n \in Node : depth[n] > 0}) = (IF mtx.locked THEN 1 ELSE 0)
  /\ \A n \in Node : depth[n] > 0 =>
       /\ mtx.owner = n
       /\ depth[n] = IF Recursive(mtx) THEN mtx.count ELSE 1

\* Nobody gives up waiting, and the main fiber, which enters itself again and again
\* once it has been notified, does not lock.
Patient ==
  /\ prog[Main] \cap {"lock", "try_lock"} = {}
  /\ \A n \in Node : prog[n] \cap {"try_lock_until", "pop_wait_until", "push_wait_until"} = {}

\* As long as nobody gives up waiting, an unlock and a push are never wasted: if
\* fibers wait for a mutex that is free, or for a queue that has a value, then one
\* of them has been notified and is on its way.
NoLostWakeup ==
  Patient =>
    /\ ~mtx.locked /\ mtx.waiting # <<>> =>
         \E n \in Node : pc[n] = "lock" /\ n \notin Range(mtx.waiting)
    /\ ~Empty(queue) /\ queue.not_empty # <<>> =>
         \E n \in Node : pc[n] = "pop" /\ n \notin Range(queue.not_empty)

Total(p) == FoldFunction(LAMBDA a, b : a + b, 0, p)

\* Fibers leave a barrier in groups of the size it was made for: no more have left
\* than whole groups have come.
BarrierGroups ==
  Total(passes.left) <= bar.initial * (Total(passes.come) \div bar.initial)

\* The values come out of a queue in the order in which they went in, each once.
QueueFifo == popped \o queue.items = pushed

\* A get returns only once a result is stored, and without a reset the first one:
\* the value as it was then, the object as it is now for R&, or the exception.
GetsTheResult ==
  \A n \in Node : seen[n] # Unseen /\ (\A k \in Node : "reset" \notin prog[k]) =>
    /\ seen[n].at = 1 /\ Len(results) = 1
    /\ IF results[1].is = "value"
       THEN seen[n].got = CASE st.type = "R" -> results[1]
                            [] st.type = "void" -> None
                            [] st.type = "R&" -> Value(seen[n].got.of)
       ELSE seen[n].got = results[1]

\* The scheduler is fair: a fiber that can run is passed over at most once by each
\* other fiber, whatever they do and whoever is notified in the meantime; and the
\* waiting queue stays ordered, which move_to relies on.
TakesTurns ==
  /\ \A f \in Fiber : turns[f] < Cardinality(Fiber)
  /\ WaitingQueueOrdered

=============================================================================
