---------------------------- MODULE FiberManager ----------------------------
(***************************************************************************)
(* The scheduler of the fiber library (fiber_manager.cpp, worker_fiber,     *)
(* waiting_queue, fifo, round_robin) for the fibers of one thread, and the  *)
(* operations of a fiber on itself and on another one: yield, sleep, join,  *)
(* interrupt and its end.                                                   *)
(*                                                                         *)
(* sched is the fiber_manager with the scheduling fields of its fibers; the *)
(* library's functions on it are operators.  Main is the thread's main      *)
(* fiber, which stands for active_fiber_ = 0: it has no queue entry, waits  *)
(* by calling fm_run until its main_fiber is ready, and runs whenever no    *)
(* other fiber does.                                                        *)
(*                                                                         *)
(* A fiber gives up the thread only where it suspends.  An action is what a *)
(* fiber does from there, or from one operation to the next; pc says where  *)
(* it goes on.  Time is what is left until a deadline: 0 once reached.      *)
(***************************************************************************)
EXTENDS Naturals, Sequences, FiniteSets, Functions

CONSTANTS
  Fiber,    \* the worker fibers
  Main,
  Never,    \* time_point::max(): more than any deadline
  MaxOps    \* operations of a fiber between two suspensions

VARIABLES
  sched,
  pc,       \* run, or the call in which a fiber is suspended, or done
  dl,       \* what is left until the deadline of the call
  arg,      \* what else the call keeps on its stack
  prog,     \* the operations that a fiber's function may choose from
  ops       \* operations since the fiber was resumed

fvars == <<sched, pc, dl, arg, prog, ops>>

Node == Fiber \cup {Main}
-----------------------------------------------------------------------------
(* waiting_queue.                                                          *)

\* move_to_run: only a fiber that has another before it in the waiting queue
\* is moved.
move_to_run(s, f) ==
  IF f \in Range(s.wq) THEN [s EXCEPT !.wq = <<f>> \o SelectSeq(@, LAMBDA g : g # f)] ELSE s

\* worker_fiber::set_ready and main_fiber::set_ready
set_ready(s, f) ==
  IF f = Main THEN [s EXCEPT !.main_ready = TRUE]
  ELSE move_to_run([s EXCEPT !.state[f] = "READY"], f)

push(s, f) ==
  LET later == {i \in 1..Len(s.wq) : s.state[s.wq[i]] # "READY" /\ s.tp[f] <= s.tp[s.wq[i]]}
      before(i) == SubSeq(s.wq, 1, i - 1) \o <<f>> \o SubSeq(s.wq, i, Len(s.wq))
  IN CASE f \in Range(s.wq) -> s
       [] f \notin Range(s.wq) /\ s.state[f] = "READY" -> [s EXCEPT !.wq = <<f>> \o @]
       [] f \notin Range(s.wq) /\ s.state[f] # "READY" ->
            [s EXCEPT !.wq = IF s.tp[f] = Never \/ later = {} THEN Append(@, f)
                             ELSE before(CHOOSE i \in later : \A j \in later : i <= j)]

\* fetch_ready
Due(s, f) == s.tp[f] = 0 \/ f \in s.requested \/ s.state[f] = "READY"

\* Mutant of awakened: last in, first out.
awakened_first(s, fs) == [s EXCEPT !.rq = fs \o @]

\* round_robin: a fifo, which these fibers enter one after the other.
awakened(s, fs) == [s EXCEPT !.rq = @ \o fs]
pick_next(s) == Head(s.rq)

\* move_to stops at the first fiber that is not ready.
move_to(s) ==
  LET n == CHOOSE k \in 0..Len(s.wq) : /\ \A i \in 1..k : Due(s, s.wq[i])
                                       /\ k < Len(s.wq) => ~Due(s, s.wq[k + 1])
      moved == SubSeq(s.wq, 1, n)
  IN awakened([s EXCEPT !.wq = SubSeq(@, n + 1, Len(@)),
                        !.state = [f \in Fiber |-> IF f \in Range(moved) THEN "READY" ELSE @[f]],
                        !.tp = [f \in Fiber |-> IF f \in Range(moved) THEN Never ELSE @[f]]],
              moved)
-----------------------------------------------------------------------------
(* fiber_manager.                                                          *)

\* The fibers are spawned in this order.
fm_spawn(s, fs) == awakened(s, fs)

\* The manager of a thread on which the fibers have been started in this order.
NewManager(order) ==
  fm_spawn([state |-> [f \in Fiber |-> "READY"], wq |-> <<>>, rq |-> <<>>,
            tp |-> [f \in Fiber |-> Never], active |-> Main, main_ready |-> FALSE,
            requested |-> {}, joining |-> [f \in Fiber |-> <<>>], joinable |-> Fiber,
            joined |-> {}, except |-> {}], order)

fm_resume_(s, f) == [s EXCEPT !.active = f, !.state[f] = "RUNNING"]

\* Called by the main fiber.  When no fiber can run it sleeps.
fm_run(s) ==
  LET t == move_to(s)
  IN IF t.rq = <<>> THEN t ELSE fm_resume_([t EXCEPT !.rq = Tail(@)], pick_next(t))

suspend(s) == [s EXCEPT !.active = Main]

fm_wait_until(s, t) ==
  LET f == s.active
  IN suspend(push([s EXCEPT !.state[f] = "WAITING", !.tp[f] = t], f))

fm_yield(s) == suspend(push(set_ready(s, s.active), s.active))

fm_join(s, g) ==
  LET f == s.active
      p == push([s EXCEPT !.state[f] = "WAITING"], f)
  IN suspend(IF s.state[g] = "TERMINATED" THEN set_ready(p, f)
             ELSE [p EXCEPT !.joining[g] = Append(@, f)])

\* These fibers are notified, one after the other.
ReadyAll(s, fs) ==
  LET after[i \in 0..Len(fs)] == IF i = 0 THEN s ELSE set_ready(after[i - 1], fs[i])
  IN after[Len(fs)]


release(s, f) == ReadyAll([s EXCEPT !.joining[f] = <<>>], s.joining[f])

\* The end of trampoline.
Terminated(s, f) == suspend(release([s EXCEPT !.state[f] = "TERMINATED"], f))

request_interruption(s, f) == set_ready([s EXCEPT !.requested = @ \cup {f}], f)
-----------------------------------------------------------------------------
(* A fiber's steps.                                                        *)

\* n's function runs and does op next.
Does(n, op) ==
  /\ sched.active = n
  /\ pc[n] = "run"
  /\ op \in prog[n]
  /\ ops[n] < MaxOps

Timed == {"tlock", "tcond", "tpop", "tpush", "tget"}

\* The call in which n is suspended goes on.  The main fiber's loop ends when it
\* is notified, or at the deadline if there is one.
Awake(n) ==
  /\ sched.active = n
  /\ n = Main => CASE pc[Main] = "join" -> sched.state[arg[Main]] = "TERMINATED"
                   [] pc[Main] = "sleep" -> dl[Main] = 0
                   [] pc[Main] \in Timed -> sched.main_ready \/ dl[Main] = 0
                   [] OTHER -> sched.main_ready

\* fm_wait_until has returned false, or the main fiber's loop has seen the deadline.
TimedOut(n) == dl[n] = 0 /\ (n = Main => ~sched.main_ready)

\* s, with n waiting in it for as long as t.  The main fiber's loop calls fm_run
\* at once.
Block(s, n, t) ==
  IF n = Main THEN fm_run([s EXCEPT !.main_ready = FALSE]) ELSE fm_wait_until(s, t)

Count(n) == [ops EXCEPT ![n] = @ + 1]

\* n suspends in call c, with deadline t and state v.
SuspendIn(s, n, c, t, v) ==
  /\ sched' = Block(s, n, t)
  /\ pc' = [pc EXCEPT ![n] = c]
  /\ dl' = [dl EXCEPT ![n] = t]
  /\ arg' = [arg EXCEPT ![n] = v]
  /\ ops' = [ops EXCEPT ![n] = 0]
  /\ UNCHANGED prog

\* n's operation returns, with the scheduler in state s.
ReturnWith(s, n) ==
  /\ sched' = s
  /\ pc' = [pc EXCEPT ![n] = "run"]
  /\ dl' = [dl EXCEPT ![n] = Never]
  /\ arg' = [arg EXCEPT ![n] = Main]
  /\ ops' = Count(n)
  /\ UNCHANGED prog

\* An exception leaves the fiber's function.
Throw(s, n) ==
  /\ sched' = [s EXCEPT !.except = @ \cup {n}]
  /\ pc' = [pc EXCEPT ![n] = "thrown"]
  /\ dl' = [dl EXCEPT ![n] = Never]
  /\ arg' = [arg EXCEPT ![n] = Main]
  /\ UNCHANGED <<prog, ops>>

\* interruption_point
Interrupted(n) == n \in sched.requested
interruption_point(n) ==
  Interrupted(n) /\ Throw([sched EXCEPT !.requested = @ \ {n}], n)

\* The main fiber calls fm_run: to yield, or in the loop in which it waits.
Run ==
  /\ sched.active = Main
  /\ pc[Main] = "run" \/ ~Awake(Main)
  /\ sched' = fm_run(sched)
  /\ ops' = [ops EXCEPT ![Main] = 0]
  /\ UNCHANGED <<pc, dl, arg, prog>>

yield(n) ==
  /\ n # Main /\ sched.active = n /\ pc[n] = "run"
  /\ sched' = fm_yield(sched)
  /\ pc' = [pc EXCEPT ![n] = "yield"]
  /\ ops' = [ops EXCEPT ![n] = 0]
  /\ UNCHANGED <<dl, arg, prog>>

yield_returns(n) ==
  /\ pc[n] = "yield" /\ sched.active = n
  /\ pc' = [pc EXCEPT ![n] = "run"]
  /\ UNCHANGED <<sched, dl, arg, prog, ops>>

sleep_until(n, t) == Does(n, "sleep") /\ SuspendIn(sched, n, "sleep", t, Main)

sleep_returns(n) ==
  /\ pc[n] = "sleep" /\ Awake(n)
  /\ \/ interruption_point(n)
     \/ ~Interrupted(n) /\ ReturnWith(sched, n)

\* fiber::join.  arg is the fiber that is joined.
join(n, g) ==
  /\ Does(n, "join") /\ g # n /\ g \in sched.joinable /\ \A k \in Node : arg[k] # g
  /\ sched' = CASE n # Main -> fm_join(sched, g)
                [] n = Main /\ sched.state[g] = "TERMINATED" -> sched
                [] n = Main /\ sched.state[g] # "TERMINATED" -> fm_run(sched)
  /\ pc' = [pc EXCEPT ![n] = "join"]
  /\ arg' = [arg EXCEPT ![n] = g]
  /\ ops' = [ops EXCEPT ![n] = 0]
  /\ UNCHANGED <<dl, prog>>

\* The exception that ended the other fiber is thrown again, and leaves this one's
\* function too; the main fiber catches it.
join_returns(n) ==
  /\ pc[n] = "join" /\ Awake(n)
  /\ LET s == [sched EXCEPT !.joinable = @ \ {arg[n]}, !.joined = @ \cup {arg[n]}]
     IN IF n # Main /\ arg[n] \in sched.except THEN Throw(s, n) ELSE ReturnWith(s, n)

detach(n, g) ==
  /\ Does(n, "detach") /\ g # n /\ g \in sched.joinable /\ \A k \in Node : arg[k] # g
  /\ ReturnWith([sched EXCEPT !.joinable = @ \ {g}], n)

\* fiber::interrupt of a fiber that sleeps or waits for a condition.
interrupt(n, f) ==
  /\ Does(n, "interrupt") /\ f # n /\ pc[f] \in {"sleep", "cond", "tcond"}
  /\ ReturnWith(request_interruption(sched, f), n)

\* The fiber's function returns, or has been left by an exception.
end(n) ==
  /\ n # Main /\ sched.active = n /\ pc[n] \in {"run", "thrown"} /\ "end" \in prog[n]
  /\ sched' = Terminated(sched, n)
  /\ pc' = [pc EXCEPT ![n] = "done"]
  /\ UNCHANGED <<dl, arg, prog, ops>>

Tick ==
  LET down(t) == IF t \in 1..(Never - 1) THEN t - 1 ELSE t
  IN /\ \E n \in Node : dl[n] \in 1..(Never - 1)
     /\ dl' = [n \in Node |-> down(dl[n])]
     /\ sched' = [sched EXCEPT !.tp = [f \in Fiber |-> down(@[f])]]
     /\ UNCHANGED <<pc, arg, prog, ops>>
=============================================================================
