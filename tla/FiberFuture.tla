---------------------------- MODULE FiberFuture ----------------------------
(***************************************************************************)
(* promise, packaged_task, async, future and shared_future, over one        *)
(* shared_state.                                                            *)
(*                                                                         *)
(* own is the promise or the packaged_task, fut[n] what fiber n holds of    *)
(* the result.  The shared_state is the template's for R, R& or void; obj   *)
(* is the object that the producer hands to set_value and may write to      *)
(* again.  An exception that a call throws at its caller for wrong use is   *)
(* caught there.  As in the queues, the shared_state's mutex is never held  *)
(* by a fiber that is suspended.                                            *)
(***************************************************************************)
EXTENDS FiberManager

CONSTANT MaxResults   \* results that are stored

VARIABLES
  st, own, fut, obj,
  results,   \* every result that was stored, in order
  seen       \* what each fiber's last get returned, and the results there were

tvars == <<st, own, fut, obj, results, seen>>

None == [is |-> "none", of |-> 0]
Exception == [is |-> "exception", of |-> 0]
Broken == [is |-> "broken_promise", of |-> 0]
Value(v) == [is |-> "value", of |-> v]
Ref == [is |-> "ref", of |-> 0]
Unseen == [got |-> [is |-> "unseen", of |-> 0], at |-> 0]

NewState(type) ==
  [type |-> type, ready |-> FALSE, value |-> None, except |-> None, waiters |-> <<>>]

NewOwner(kind) == [kind |-> kind, has |-> TRUE, obtained |-> FALSE]
-----------------------------------------------------------------------------
(* shared_state.                                                           *)

mark_ready_and_notify_(s) == [s EXCEPT !.ready = TRUE, !.waiters = <<>>]

set_value_(s, o) == mark_ready_and_notify_([s EXCEPT !.value = Value(o)])
set_value_ref(s) == mark_ready_and_notify_([s EXCEPT !.value = Ref])
set_value_void(s) == mark_ready_and_notify_(s)

SetValue(s, o) ==
  CASE s.type = "R" -> set_value_(s, o)
    [] s.type = "R&" -> set_value_ref(s)
    [] s.type = "void" -> set_value_void(s)

set_exception_(s, e) == mark_ready_and_notify_([s EXCEPT !.except = e])

owner_destroyed_(s) == IF s.ready THEN s ELSE set_exception_(s, Broken)

\* get_ once the result is there: the exception first.
get_(s, o) == IF s.except # None THEN s.except ELSE s.value
get_ref(s, o) == IF s.except # None THEN s.except ELSE Value(o)
get_void(s) == IF s.except # None THEN s.except ELSE None

Get(s, o) ==
  CASE s.type = "R" -> get_(s, o)
    [] s.type = "R&" -> get_ref(s, o)
    [] s.type = "void" -> get_void(s)

\* packaged_task::reset: only ready_ is set back.
reset_state(s) == [s EXCEPT !.ready = FALSE]

\* n stores a result, s being the shared_state with it, and wakes the waiters.
Stores(n, s, r) ==
  /\ st' = s
  /\ results' = Append(results, r)
  /\ ReturnWith(ReadyAll(sched, st.waiters), n)

\* n's operation throws at it, or has nothing else to do.
NoChange(n) == ReturnWith(sched, n) /\ UNCHANGED tvars

Room == Len(results) < MaxResults
-----------------------------------------------------------------------------
(* promise and packaged_task.                                              *)

\* Throws future_already_retrieved the second time.
get_future(n) ==
  /\ Does(n, "get_future")
  /\ IF own.obtained \/ ~own.has THEN NoChange(n)
     ELSE /\ own' = [own EXCEPT !.obtained = TRUE]
          /\ fut' = [fut EXCEPT ![n] = "future"]
          /\ ReturnWith(sched, n)
          /\ UNCHANGED <<st, obj, results, seen>>

\* Mutant of set_value: a result that is there already is replaced.
set_value_again(n) ==
  /\ Does(n, "set_value") /\ own.kind = "promise" /\ Room
  /\ IF ~own.has THEN NoChange(n)
     ELSE /\ Stores(n, SetValue(st, obj), Value(obj))
          /\ UNCHANGED <<own, fut, obj, seen>>

\* Throws promise_uninitialized or promise_already_satisfied.
set_value(n) ==
  /\ Does(n, "set_value") /\ own.kind = "promise" /\ Room
  /\ IF ~own.has \/ st.ready THEN NoChange(n)
     ELSE /\ Stores(n, SetValue(st, obj), Value(obj))
          /\ UNCHANGED <<own, fut, obj, seen>>

set_exception(n) ==
  /\ Does(n, "set_exception") /\ own.kind = "promise" /\ Room
  /\ IF ~own.has \/ st.ready THEN NoChange(n)
     ELSE /\ Stores(n, set_exception_(st, Exception), Exception)
          /\ UNCHANGED <<own, fut, obj, seen>>

\* ~promise and ~packaged_task, when no fiber is in one of its calls.
destroy(n) ==
  /\ Does(n, "destroy") /\ own.has /\ \A k \in Node : pc[k] # "call"
  /\ own' = [own EXCEPT !.has = FALSE]
  /\ st' = owner_destroyed_(st)
  /\ results' = IF st.ready THEN results ELSE Append(results, Broken)
  /\ ReturnWith(ReadyAll(sched, st.waiters), n)
  /\ UNCHANGED <<fut, obj, seen>>

\* packaged_task::operator(): the task may suspend.
call(n) ==
  /\ Does(n, "call") /\ n # Main /\ own.kind = "task"
  /\ IF ~own.has THEN NoChange(n)
     ELSE /\ sched' = fm_yield(sched)
          /\ pc' = [pc EXCEPT ![n] = "call"]
          /\ ops' = [ops EXCEPT ![n] = 0]
          /\ UNCHANGED <<dl, arg, prog, st, own, fut, obj, results, seen>>

\* The task returns a value or throws; if another call was first, set_value throws
\* in run, and so does set_exception after it.
run(n) ==
  /\ pc[n] = "call" /\ sched.active = n
  /\ IF st.ready THEN NoChange(n)
     ELSE /\ \/ Stores(n, SetValue(st, obj), Value(obj))
             \/ Stores(n, set_exception_(st, Exception), Exception)
          /\ UNCHANGED <<own, fut, obj, seen>>

reset(n) ==
  /\ Does(n, "reset") /\ own.kind = "task" /\ Room
  /\ IF ~own.has THEN NoChange(n)
     ELSE /\ own' = [own EXCEPT !.obtained = FALSE]
          /\ st' = reset_state(st)
          /\ ReturnWith(sched, n)
          /\ UNCHANGED <<fut, obj, results, seen>>

\* The producer writes to its object.
write(n) ==
  /\ Does(n, "write")
  /\ obj' = 1 - obj
  /\ ReturnWith(sched, n)
  /\ UNCHANGED <<st, own, fut, results, seen>>
-----------------------------------------------------------------------------
(* future and shared_future.                                               *)

\* n's future is moved to g, or its shared_future copied.
hand_over(n, g) ==
  /\ Does(n, "hand_over") /\ g # n /\ fut[n] # "none" /\ fut[g] = "none"
  /\ fut' = [fut EXCEPT ![n] = IF @ = "future" THEN "none" ELSE @, ![g] = fut[n]]
  /\ ReturnWith(sched, n)
  /\ UNCHANGED <<st, own, obj, results, seen>>

\* Throws future_uninitialized without a future.
share(n) ==
  /\ Does(n, "share")
  /\ IF fut[n] # "future" THEN NoChange(n)
     ELSE /\ fut' = [fut EXCEPT ![n] = "shared"]
          /\ ReturnWith(sched, n)
          /\ UNCHANGED <<st, own, obj, results, seen>>

\* get of a future gives its state up before it waits.
Given(n, what) == IF what = "get" /\ fut[n] = "future" THEN "none" ELSE fut[n]

Returns(n, what) ==
  /\ seen' = IF what = "get" THEN [seen EXCEPT ![n] = [got |-> Get(st, obj), at |-> Len(results)]]
             ELSE seen
  /\ ReturnWith(sched, n)
  /\ UNCHANGED st

\* wait_, wait_for_ and wait_until_, in a call of the function what.
WaitLoop(n, c, t, what, for) ==
  \/ st.ready /\ Returns(n, what)
  \/ /\ ~st.ready
     /\ st' = [st EXCEPT !.waiters = Append(@, n)]
     /\ SuspendIn(sched, n, c, t, <<what, for>>)
     /\ UNCHANGED seen

\* get, get_exception_ptr and wait.
get(n, what) ==
  /\ Does(n, what) /\ what \in {"get", "get_exception_ptr", "wait_result"}
  /\ IF fut[n] = "none" THEN NoChange(n)
     ELSE /\ fut' = [fut EXCEPT ![n] = Given(n, what)]
          /\ WaitLoop(n, "get", Never, what, Never)
          /\ UNCHANGED <<own, obj, results>>

get_goes_on(n) ==
  /\ pc[n] = "get" /\ Awake(n)
  /\ WaitLoop(n, "get", Never, arg[n][1], Never)
  /\ UNCHANGED <<own, fut, obj, results>>

\* wait_until and wait_for.  A wait_for that has been woken for nothing waits for
\* the whole duration again.
timed_wait(n, what, t) ==
  /\ Does(n, what) /\ what \in {"wait_result_until", "wait_result_for"}
  /\ IF fut[n] = "none" THEN NoChange(n)
     ELSE WaitLoop(n, "tget", t, what, t) /\ UNCHANGED <<own, fut, obj, results>>

timed_wait_goes_on(n) ==
  /\ pc[n] = "tget" /\ Awake(n)
  /\ \/ /\ TimedOut(n) /\ ~st.ready
        /\ st' = [st EXCEPT !.waiters = SelectSeq(@, LAMBDA k : k # n)]
        /\ ReturnWith(sched, n)
        /\ UNCHANGED seen
     \/ /\ ~TimedOut(n) \/ st.ready
        /\ WaitLoop(n, "tget", IF arg[n][1] = "wait_result_for" THEN arg[n][2] ELSE dl[n],
                    arg[n][1], arg[n][2])
  /\ UNCHANGED <<own, fut, obj, results>>
=============================================================================
