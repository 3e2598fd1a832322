----------------------------- MODULE FiberSync -----------------------------
(***************************************************************************)
(* mutex, timed_mutex, recursive_mutex and recursive_timed_mutex, which     *)
(* differ by kind only, condition, and barrier.                             *)
(*                                                                         *)
(* The spinlocks are left out: a fiber does not suspend while it holds one. *)
(***************************************************************************)
EXTENDS FiberManager

CONSTANTS
  MaxDepth,    \* locks of a recursive mutex that a fiber holds at once
  MaxWaiting   \* entries of a mutex's waiting_

VARIABLES
  mtx,      \* the mutex: its kind, state_, owner_ (Main: no id), count_, waiting_
  depth,    \* how many locks of it each fiber holds
  cond,     \* the condition's waiting_
  bar,      \* the barrier
  passes    \* times each fiber has come to the barrier, and times it has left it

svars == <<mtx, depth, cond, bar, passes>>

Recursive(m) == m.kind \in {"recursive_mutex", "recursive_timed_mutex"}
NewMutex(k) == [kind |-> k, locked |-> FALSE, owner |-> Main, count |-> 0, waiting |-> <<>>]

\* Mutant of CanLock: whoever holds a recursive mutex.
CanLock_any(m, n) == ~m.locked \/ Recursive(m)

CanLock(m, n) == ~m.locked \/ (Recursive(m) /\ m.owner = n)

lock_if_unlocked_(m, n) ==
  [m EXCEPT !.locked = TRUE, !.owner = n, !.count = IF Recursive(m) THEN @ + 1 ELSE @]

\* The levels that are left after one unlock.
Left(m) == IF Recursive(m) THEN m.count - 1 ELSE 0
Next_(m) == IF Left(m) = 0 /\ m.waiting # <<>> THEN <<Head(m.waiting)>> ELSE <<>>

\* The mutex after unlock.
unlock_(m) ==
  [m EXCEPT !.locked = Left(m) > 0, !.owner = IF Left(m) > 0 THEN @ ELSE Main, !.count = Left(m),
            !.waiting = IF Left(m) = 0 /\ @ # <<>> THEN Tail(@) ELSE @]
-----------------------------------------------------------------------------
Take(n) ==
  /\ mtx' = lock_if_unlocked_(mtx, n)
  /\ depth' = [depth EXCEPT ![n] = @ + 1]

\* The body of the loop in lock() and, with a deadline, in try_lock_until().  Its
\* main_fiber is made before the loop: once notified it stays ready, and the main
\* fiber enters itself again in every turn of the loop (of which MaxWaiting are told
\* apart) without running another fiber.
LockLoop(n, c, t, again) ==
  \/ /\ CanLock(mtx, n)
     /\ Take(n)
     /\ ReturnWith(sched, n)
  \/ /\ ~CanLock(mtx, n)
     /\ mtx' = [mtx EXCEPT !.waiting = IF Len(@) < MaxWaiting THEN Append(@, n) ELSE @]
     /\ IF n = Main /\ again THEN UNCHANGED fvars ELSE SuspendIn(sched, n, c, t, Main)
     /\ UNCHANGED depth

\* A plain mutex is not locked again by its owner.
MayLock(n) == IF Recursive(mtx) THEN depth[n] < MaxDepth ELSE depth[n] = 0

lock(n) ==
  /\ Does(n, "lock") /\ MayLock(n)
  /\ LockLoop(n, "lock", Never, FALSE)
  /\ UNCHANGED <<cond, bar, passes>>

lock_goes_on(n) ==
  /\ pc[n] = "lock" /\ Awake(n)
  /\ LockLoop(n, "lock", Never, TRUE)
  /\ UNCHANGED <<cond, bar, passes>>

try_lock(n) ==
  /\ Does(n, "try_lock") /\ MayLock(n)
  /\ \/ /\ CanLock(mtx, n)
        /\ Take(n)
        /\ ReturnWith(sched, n)
     \/ /\ ~CanLock(mtx, n)
        /\ IF n = Main THEN Run ELSE yield(n)
        /\ UNCHANGED <<mtx, depth>>
  /\ UNCHANGED <<cond, bar, passes>>

try_lock_until(n, t) ==
  /\ Does(n, "try_lock_until") /\ MayLock(n)
  /\ LockLoop(n, "tlock", t, FALSE)
  /\ UNCHANGED <<cond, bar, passes>>

try_lock_until_goes_on(n) ==
  /\ pc[n] = "tlock" /\ Awake(n)
  /\ \/ /\ dl[n] > 0
        /\ LockLoop(n, "tlock", dl[n], TRUE)
     \/ /\ dl[n] = 0
        /\ mtx' = [mtx EXCEPT !.waiting = SelectSeq(@, LAMBDA k : k # n)]
        /\ ReturnWith(sched, n)
        /\ UNCHANGED depth
  /\ UNCHANGED <<cond, bar, passes>>

\* Also called while an exception leaves the function.
unlock(n) ==
  /\ sched.active = n /\ depth[n] > 0
  /\ \/ pc[n] = "run" /\ ops[n] < MaxOps /\ ops' = Count(n)
     \/ pc[n] = "thrown" /\ UNCHANGED ops
  /\ mtx' = unlock_(mtx)
  /\ sched' = ReadyAll(sched, Next_(mtx))
  /\ depth' = [depth EXCEPT ![n] = @ - 1]
  /\ UNCHANGED <<pc, dl, arg, prog, cond, bar, passes>>
-----------------------------------------------------------------------------
(* condition, with the mutex as the external lock.                         *)

cond_wait(n, t) ==
  /\ Does(n, IF t = Never THEN "wait" ELSE "wait_until") /\ depth[n] = 1
  /\ cond' = Append(cond, n)
  /\ mtx' = unlock_(mtx)
  /\ depth' = [depth EXCEPT ![n] = 0]
  /\ SuspendIn(ReadyAll(sched, Next_(mtx)), n, IF t = Never THEN "cond" ELSE "tcond", t, Main)
  /\ UNCHANGED <<bar, passes>>

\* The wait is over: the entry in waiting_ is removed at the deadline and when
\* the wait is left by an exception; then the mutex is locked again.
cond_wait_goes_on(n) ==
  /\ pc[n] \in {"cond", "tcond"} /\ Awake(n)
  /\ cond' = IF TimedOut(n) \/ Interrupted(n) THEN SelectSeq(cond, LAMBDA k : k # n) ELSE cond
  /\ \/ interruption_point(n) /\ UNCHANGED <<mtx, depth>>
     \/ ~Interrupted(n) /\ LockLoop(n, "lock", Never, FALSE)
  /\ UNCHANGED <<bar, passes>>

notify_one(n) ==
  /\ Does(n, "notify_one")
  /\ cond' = IF cond = <<>> THEN cond ELSE Tail(cond)
  /\ ReturnWith(IF cond = <<>> THEN sched ELSE set_ready(sched, Head(cond)), n)
  /\ UNCHANGED <<mtx, depth, bar, passes>>

notify_all(n) ==
  /\ Does(n, "notify_all")
  /\ cond' = <<>>
  /\ ReturnWith(ReadyAll(sched, cond), n)
  /\ UNCHANGED <<mtx, depth, bar, passes>>
-----------------------------------------------------------------------------
(* barrier.  Its own mutex is never held by a fiber that is suspended, so   *)
(* locking it never waits; its condition is waiting.                        *)

NewBarrier(k) == [initial |-> k, current |-> k, cycle |-> TRUE, waiting |-> <<>>]

Leaves(n) == passes' = [passes EXCEPT !.left[n] = @ + 1]

\* Mutant of barrier_wait: the count is not set back for the next cycle.
barrier_wait_once(n) ==
  /\ Does(n, "barrier") /\ passes.come[n] < MaxDepth
  /\ \/ /\ bar.current # 1
        /\ bar' = [bar EXCEPT !.current = IF @ = 0 THEN 0 ELSE @ - 1, !.waiting = Append(@, n)]
        /\ SuspendIn(sched, n, "barrier", Never, bar.cycle)
        /\ passes' = [passes EXCEPT !.come[n] = @ + 1]
     \/ /\ bar.current = 1
        /\ bar' = [bar EXCEPT !.cycle = ~@, !.waiting = <<>>]
        /\ ReturnWith(ReadyAll(sched, bar.waiting), n)
        /\ passes' = [passes EXCEPT !.come[n] = @ + 1, !.left[n] = @ + 1]
  /\ UNCHANGED <<mtx, depth, cond>>

barrier_wait(n) ==
  /\ Does(n, "barrier") /\ passes.come[n] < MaxDepth
  /\ \/ /\ bar.current > 1
        /\ bar' = [bar EXCEPT !.current = @ - 1, !.waiting = Append(@, n)]
        /\ SuspendIn(sched, n, "barrier", Never, bar.cycle)
        /\ passes' = [passes EXCEPT !.come[n] = @ + 1]
     \/ /\ bar.current = 1
        /\ bar' = [bar EXCEPT !.cycle = ~@, !.current = bar.initial, !.waiting = <<>>]
        /\ ReturnWith(ReadyAll(sched, bar.waiting), n)
        /\ passes' = [passes EXCEPT !.come[n] = @ + 1, !.left[n] = @ + 1]
  /\ UNCHANGED <<mtx, depth, cond>>

barrier_wait_goes_on(n) ==
  /\ pc[n] = "barrier" /\ Awake(n)
  /\ \/ /\ arg[n] = bar.cycle
        /\ bar' = [bar EXCEPT !.waiting = Append(@, n)]
        /\ SuspendIn(sched, n, "barrier", Never, arg[n])
        /\ UNCHANGED passes
     \/ /\ arg[n] # bar.cycle
        /\ ReturnWith(sched, n)
        /\ Leaves(n)
        /\ UNCHANGED bar
  /\ UNCHANGED <<mtx, depth, cond>>
=============================================================================
