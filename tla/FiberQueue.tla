----------------------------- MODULE FiberQueue -----------------------------
(***************************************************************************)
(* bounded_queue and unbounded_queue.                                       *)
(*                                                                         *)
(* The queue's mutex is never held by a fiber that is suspended, so locking *)
(* it never waits: a call is one step up to the wait on a condition.        *)
(* pushed and popped record the values in the order in which they entered   *)
(* and left.                                                                *)
(***************************************************************************)
EXTENDS FiberManager

CONSTANT MaxItems   \* values that enter the queue

VARIABLES queue, pushed, popped

qvars == <<queue, pushed, popped>>

NewQueue(b, hwm, lwm) ==
  [bounded |-> b, open |-> TRUE, items |-> <<>>, count |-> 0, hwm |-> hwm, lwm |-> lwm,
   not_empty |-> <<>>, not_full |-> <<>>]

is_full_(q) == q.bounded /\ q.count >= q.hwm
Empty(q) == q.items = <<>>

Without(s, n) == SelectSeq(s, LAMBDA k : k # n)
First(s) == IF s = <<>> THEN <<>> ELSE <<Head(s)>>
Rest(s) == IF s = <<>> THEN <<>> ELSE Tail(s)

\* Both sides of the queue are told that it is closed.
close_(q) == [q EXCEPT !.open = FALSE, !.not_empty = <<>>, !.not_full = <<>>]

\* Only a bounded queue counts its values.
push_tail_(q, v) ==
  [q EXCEPT !.items = Append(@, v), !.count = IF q.bounded THEN @ + 1 ELSE @]

\* Mutant of push_and_notify_: only the push into an empty queue notifies.
push_and_notify_first(n, v) ==
  /\ queue' = [push_tail_(queue, v) EXCEPT !.not_empty = IF Empty(queue) THEN Rest(@) ELSE @]
  /\ pushed' = Append(pushed, v)
  /\ ReturnWith(ReadyAll(sched, IF Empty(queue) THEN First(queue.not_empty) ELSE <<>>), n)
  /\ UNCHANGED popped

push_and_notify_(n, v) ==
  /\ queue' = [push_tail_(queue, v) EXCEPT !.not_empty = Rest(@)]
  /\ pushed' = Append(pushed, v)
  /\ ReturnWith(ReadyAll(sched, First(queue.not_empty)), n)
  /\ UNCHANGED popped

\* The producers that a pop notifies: pop_head_ leaves count_ as it is.
Producers(q) ==
  CASE ~q.bounded \/ q.count > q.lwm -> <<>>
    [] q.bounded /\ q.count <= q.lwm /\ q.lwm = q.hwm -> First(q.not_full)
    [] q.bounded /\ q.count <= q.lwm /\ q.lwm # q.hwm -> q.not_full

\* Mutant of pop_head_: the newest value leaves first.
pop_tail_(q) == [q EXCEPT !.items = SubSeq(@, 1, Len(@) - 1)]

pop_head_(q) == [q EXCEPT !.items = Tail(@)]

value_pop_(n) ==
  /\ queue' = [pop_head_(queue) EXCEPT !.not_full = SubSeq(@, Len(Producers(queue)) + 1, Len(@))]
  /\ popped' = Append(popped, Head(queue.items))
  /\ ReturnWith(ReadyAll(sched, Producers(queue)), n)
  /\ UNCHANGED pushed

\* n's operation returns closed, empty, full or timeout.
Refused(n) == ReturnWith(sched, n) /\ UNCHANGED qvars
-----------------------------------------------------------------------------
\* The next value of a producer.
NextValue == Len(pushed) + Cardinality({k \in Node : pc[k] \in {"push", "tpush"}}) + 1

\* The loop of push_ and push_wait_until_; v is the value of the new node.
PushLoop(n, c, t, v) ==
  \/ /\ ~is_full_(queue)
     /\ push_and_notify_(n, v)
  \/ /\ is_full_(queue)
     /\ queue' = [queue EXCEPT !.not_full = Append(@, n)]
     /\ SuspendIn(sched, n, c, t, v)
     /\ UNCHANGED <<pushed, popped>>

push_(n) ==
  /\ Does(n, "push") /\ NextValue <= MaxItems
  /\ IF queue.open THEN PushLoop(n, "push", Never, NextValue) ELSE Refused(n)

push_wait_until_(n, t) ==
  /\ Does(n, "push_wait_until") /\ queue.bounded /\ NextValue <= MaxItems
  /\ IF queue.open THEN PushLoop(n, "tpush", t, NextValue) ELSE Refused(n)

\* A queue that has been closed in the meantime is not looked at.
push_goes_on(n) ==
  /\ pc[n] \in {"push", "tpush"} /\ Awake(n)
  /\ \/ /\ TimedOut(n)
        /\ queue' = [queue EXCEPT !.not_full = Without(@, n)]
        /\ ReturnWith(sched, n)
        /\ UNCHANGED <<pushed, popped>>
     \/ /\ ~TimedOut(n)
        /\ PushLoop(n, pc[n], dl[n], arg[n])

try_push_(n) ==
  /\ Does(n, "try_push") /\ queue.bounded /\ NextValue <= MaxItems
  /\ IF ~queue.open \/ is_full_(queue) THEN Refused(n) ELSE push_and_notify_(n, NextValue)
-----------------------------------------------------------------------------
\* The loop of pop, value_pop and pop_wait_until.
PopLoop(n, c, t) ==
  \/ /\ ~Empty(queue)
     /\ value_pop_(n)
  \/ /\ Empty(queue) /\ ~queue.open
     /\ Refused(n)
  \/ /\ Empty(queue) /\ queue.open
     /\ queue' = [queue EXCEPT !.not_empty = Append(@, n)]
     /\ SuspendIn(sched, n, c, t, Main)
     /\ UNCHANGED <<pushed, popped>>

pop(n) == Does(n, "pop") /\ PopLoop(n, "pop", Never)

pop_wait_until(n, t) == Does(n, "pop_wait_until") /\ PopLoop(n, "tpop", t)

pop_goes_on(n) ==
  /\ pc[n] \in {"pop", "tpop"} /\ Awake(n)
  /\ \/ /\ TimedOut(n)
        /\ queue' = [queue EXCEPT !.not_empty = Without(@, n)]
        /\ ReturnWith(sched, n)
        /\ UNCHANGED <<pushed, popped>>
     \/ /\ ~TimedOut(n)
        /\ PopLoop(n, pc[n], dl[n])

try_pop(n) ==
  /\ Does(n, "try_pop")
  /\ IF Empty(queue) THEN Refused(n) ELSE value_pop_(n)

close(n) ==
  /\ Does(n, "close")
  /\ queue' = close_(queue)
  /\ ReturnWith(ReadyAll(sched, queue.not_empty \o queue.not_full), n)
  /\ UNCHANGED <<pushed, popped>>
=============================================================================
