------------------------- MODULE FiberLibraryProofs -------------------------
(***************************************************************************)
(* Proofs about the objects of the fiber library, for any fibers and any   *)
(* use of them: a mutex has one owner, whose locks it counts; a queue      *)
(* gives out its values in order, each once; and a future gets the result  *)
(* that was stored first.                                                  *)
(*                                                                         *)
(* Each of the three has an inductive invariant of its own (LockInv,       *)
(* FifoInv, ResultInv), about the object and what the fibers hold of it.   *)
(* None says anything of the scheduler: a fiber gives up the thread only   *)
(* where the object is whole, so that the order in which fibers run, and   *)
(* whoever is woken for nothing, cannot matter.                            *)
(***************************************************************************)
EXTENDS FiberLibrary, SequenceTheorems, FiniteSetTheorems, TLAPS

IsMutex(m) == DOMAIN m = {"kind", "locked", "owner", "count", "waiting"} /\ m.locked \in BOOLEAN

\* The one fiber that holds the mutex is its owner_, and count_ is how often.
LockInv ==
  /\ IsMutex(mtx) /\ mtx.count \in Nat
  /\ depth \in [Node -> Nat]
  /\ ~mtx.locked => mtx.count = 0 /\ \A n \in Node : depth[n] = 0
  /\ mtx.locked =>
       /\ mtx.owner \in Node /\ depth[mtx.owner] > 0
       /\ depth[mtx.owner] = IF Recursive(mtx) THEN mtx.count ELSE 1
       /\ \A n \in Node : n # mtx.owner => depth[n] = 0

\* The fields of a mutex that is locked once more.
LEMMA LockFields ==
  ASSUME NEW m, NEW n, IsMutex(m)
  PROVE LET k == lock_if_unlocked_(m, n)
        IN /\ IsMutex(k) /\ k.kind = m.kind /\ k.locked = TRUE /\ k.owner = n
           /\ k.count = IF Recursive(m) THEN m.count + 1 ELSE m.count
BY DEF lock_if_unlocked_, IsMutex

\* The fields of a mutex that is unlocked once.
LEMMA UnlockFields ==
  ASSUME NEW m, IsMutex(m)
  PROVE LET k == unlock_(m)
        IN /\ IsMutex(k) /\ k.kind = m.kind /\ k.locked = (Left(m) > 0)
           /\ k.owner = IF Left(m) > 0 THEN m.owner ELSE Main
           /\ k.count = Left(m)
BY DEF unlock_, IsMutex

Locks(n) == CanLock(mtx, n) /\ Take(n)

Unlocks(n) ==
  /\ depth[n] > 0
  /\ mtx' = unlock_(mtx)
  /\ depth' = [depth EXCEPT ![n] = @ - 1]

OnlyWaiting ==
  /\ UNCHANGED depth
  /\ \E w : mtx' = [mtx EXCEPT !.waiting = w]

\* The loop in lock locks the mutex or enters the fiber in waiting_.
LEMMA LockLoopSteps ==
  ASSUME NEW n, NEW c, NEW t, NEW again, LockLoop(n, c, t, again)
  PROVE Locks(n) \/ OnlyWaiting
BY DEF LockLoop, Locks, OnlyWaiting

\* What the operations of mutex, condition and barrier do to the mutex: they lock it where
\* lock_if_unlocked_ lets them, unlock it where they hold it, or change waiting_ only.
LEMMA LockingSteps ==
  ASSUME depth \in [Node -> Nat], NEW n \in Node, Locking(n)
  PROVE Locks(n) \/ Unlocks(n) \/ OnlyWaiting \/ UNCHANGED <<mtx, depth>>
<1>1. CASE lock(n) \/ lock_goes_on(n)
  BY <1>1, LockLoopSteps DEF lock, lock_goes_on
<1>2. CASE try_lock(n)
  BY <1>2 DEF try_lock, Locks
<1>3. CASE unlock(n)
  BY <1>3 DEF unlock, Unlocks
<1>4. CASE try_lock_until_goes_on(n)
  BY <1>4, LockLoopSteps DEF try_lock_until_goes_on, OnlyWaiting
<1>5. CASE cond_wait_goes_on(n)
  BY <1>5, LockLoopSteps DEF cond_wait_goes_on
<1>6. ASSUME NEW t, try_lock_until(n, t) PROVE Locks(n) \/ OnlyWaiting
  BY <1>6, LockLoopSteps DEF try_lock_until
<1>7. ASSUME NEW t, cond_wait(n, t) PROVE Unlocks(n)
  <2>1. depth[n] = 1 /\ mtx' = unlock_(mtx) /\ depth' = [depth EXCEPT ![n] = 0]
    BY <1>7 DEF cond_wait
  <2> QED
    BY <2>1 DEF Unlocks
<1>8. CASE notify_one(n) \/ notify_all(n) \/ barrier_wait(n) \/ barrier_wait_goes_on(n)
  BY <1>8 DEF notify_one, notify_all, barrier_wait, barrier_wait_goes_on
<1> QED
  BY <1>1, <1>2, <1>3, <1>4, <1>5, <1>6, <1>7, <1>8 DEF Locking

\* Whoever locks holds the mutex alone.
LEMMA LocksAlone == ASSUME LockInv, NEW n \in Node, Locks(n) PROVE LockInv'
<1>1. /\ mtx' = lock_if_unlocked_(mtx, n) /\ depth' = [depth EXCEPT ![n] = @ + 1]
      /\ depth \in [Node -> Nat] /\ IsMutex(mtx) /\ mtx.count \in Nat
  BY DEF Locks, Take, LockInv
<1>2. /\ IsMutex(mtx') /\ mtx'.kind = mtx.kind /\ mtx'.locked = TRUE /\ mtx'.owner = n
      /\ mtx'.count = IF Recursive(mtx) THEN mtx.count + 1 ELSE mtx.count
  BY <1>1, LockFields
<1>3. /\ depth' \in [Node -> Nat] /\ depth'[n] = depth[n] + 1
      /\ \A k \in Node : k # n => depth'[k] = depth[k]
  BY <1>1
<1>4. Recursive(mtx') <=> Recursive(mtx)
  BY <1>2 DEF Recursive
<1>5. mtx.locked => Recursive(mtx) /\ mtx.owner = n
  BY DEF Locks, CanLock
<1>6. /\ depth[n] = IF mtx.locked THEN mtx.count ELSE 0
      /\ ~mtx.locked => mtx.count = 0
      /\ \A k \in Node : k # n => depth[k] = 0
  BY <1>5 DEF LockInv
<1>7. mtx'.locked /\ mtx'.count \in Nat /\ depth'[n] > 0
  BY <1>1, <1>2, <1>3
<1>8. depth'[n] = IF Recursive(mtx') THEN mtx'.count ELSE 1
  BY <1>2, <1>3, <1>4, <1>5, <1>6
<1> QED
  BY <1>2, <1>3, <1>6, <1>7, <1>8 DEF LockInv

\* Whoever unlocks was the owner; the mutex is free when the levels are used up.
LEMMA UnlocksOwn == ASSUME LockInv, NEW n \in Node, Unlocks(n) PROVE LockInv'
<1>1. /\ mtx' = unlock_(mtx) /\ depth' = [depth EXCEPT ![n] = @ - 1] /\ depth[n] > 0
      /\ depth \in [Node -> Nat] /\ IsMutex(mtx) /\ mtx.count \in Nat
  BY DEF Unlocks, LockInv
<1>2. /\ IsMutex(mtx') /\ mtx'.kind = mtx.kind /\ mtx'.locked = (Left(mtx) > 0)
      /\ mtx'.owner = IF Left(mtx) > 0 THEN mtx.owner ELSE Main
      /\ mtx'.count = Left(mtx)
  BY <1>1, UnlockFields
<1>3. /\ depth' \in [Node -> Nat] /\ depth'[n] = depth[n] - 1
      /\ \A k \in Node : k # n => depth'[k] = depth[k]
  BY <1>1
<1>4. /\ mtx.locked /\ mtx.owner = n /\ depth[n] = IF Recursive(mtx) THEN mtx.count ELSE 1
      /\ \A k \in Node : k # n => depth[k] = 0
  BY <1>1 DEF LockInv
<1>5. Left(mtx) = depth[n] - 1
  BY <1>4 DEF Left
<1>6. Recursive(mtx') <=> Recursive(mtx)
  BY <1>2 DEF Recursive
<1>7. mtx'.locked <=> depth[n] > 1
  <2>1. Left(mtx) > 0 <=> depth[n] > 1
    BY <1>1, <1>5
  <2>2. mtx'.locked = (Left(mtx) > 0)
    BY <1>2
  <2> QED
    BY <2>1, <2>2, Zenon
<1>8. mtx'.count = depth'[n] /\ mtx'.count \in Nat
  BY <1>2, <1>3, <1>5
<1>9. CASE depth[n] = 1
  <2>1. ~mtx'.locked /\ mtx'.count = 0 /\ \A k \in Node : depth'[k] = 0
    BY <1>3, <1>4, <1>7, <1>8, <1>9
  <2> QED
    BY <1>2, <1>3, <2>1 DEF LockInv
<1>10. CASE depth[n] > 1
  <2>1. mtx'.locked /\ mtx'.owner = n /\ depth'[n] > 0 /\ Recursive(mtx')
    BY <1>1, <1>2, <1>3, <1>4, <1>5, <1>6, <1>7, <1>10
  <2> QED
    BY <1>2, <1>3, <1>4, <1>8, <2>1 DEF LockInv
<1> QED
  BY <1>1, <1>9, <1>10

\* An entry in waiting_ changes nothing else.
LEMMA WaitingKeeps == ASSUME LockInv, OnlyWaiting PROVE LockInv'
<1>1. PICK w : mtx' = [mtx EXCEPT !.waiting = w]
  BY DEF OnlyWaiting
<1>2. /\ IsMutex(mtx') /\ mtx'.kind = mtx.kind /\ mtx'.locked = mtx.locked
      /\ mtx'.owner = mtx.owner /\ mtx'.count = mtx.count
  BY <1>1 DEF LockInv, IsMutex
<1> QED
  BY <1>2 DEF LockInv, OnlyWaiting, Recursive

\* Every step keeps the invariant: only Locking touches the mutex.
LEMMA LockStep == ASSUME LockInv, [Next]_vars PROVE LockInv'
<1>1. CASE UNCHANGED <<mtx, depth>>
  BY <1>1 DEF LockInv, Recursive
<1>2. ASSUME NEW n \in Node, Locking(n) PROVE LockInv'
  BY <1>1, <1>2, LockingSteps, LocksAlone, UnlocksOwn, WaitingKeeps DEF LockInv
<1>3. CASE MainRuns \/ TimePasses \/ UNCHANGED vars
  BY <1>1, <1>3 DEF MainRuns, TimePasses, vars, svars
<1>4. ASSUME NEW n \in Node, Scheduling(n) \/ Queueing(n) \/ Futures(n) PROVE LockInv'
  BY <1>1, <1>4 DEF Scheduling, Queueing, Futures, svars
<1> QED
  BY <1>2, <1>3, <1>4 DEF Next

\* mutex and recursive_mutex exclude each other's fibers: state_ says that one fiber holds
\* the mutex, owner_ which, and count_ how often, whatever conditions, deadlines and
\* exceptions do in between.
THEOREM OneOwner == Spec => []MutualExclusion
<1>1. Init => LockInv
  <2> SUFFICES ASSUME Init PROVE LockInv
    OBVIOUS
  <2>1. depth = [n \in Node |-> 0] /\ \E kind : mtx = NewMutex(kind)
    BY DEF Init
  <2>2. PICK kind : mtx = NewMutex(kind)
    BY <2>1
  <2>3. IsMutex(mtx) /\ mtx.count = 0 /\ mtx.locked = FALSE
    BY <2>2 DEF NewMutex, IsMutex
  <2> QED BY <2>1, <2>3 DEF LockInv
<1>2. LockInv /\ [Next]_vars => LockInv'
  BY LockStep
<1>3. LockInv => MutualExclusion
  <2> SUFFICES ASSUME LockInv PROVE MutualExclusion
    OBVIOUS
  <2>1. CASE mtx.locked
    <3>1. {n \in Node : depth[n] > 0} = {mtx.owner}
      BY <2>1 DEF LockInv
    <3>2. Cardinality({mtx.owner}) = 1
      BY FS_Singleton
    <3> QED
      BY <2>1, <3>1, <3>2 DEF LockInv, MutualExclusion
  <2>2. CASE ~mtx.locked
    <3>1. {n \in Node : depth[n] > 0} = {}
      BY <2>2 DEF LockInv
    <3> QED
      BY <2>2, <3>1, FS_EmptySet DEF LockInv, MutualExclusion
  <2> QED
    BY <2>1, <2>2
<1> QED
  BY <1>1, <1>2, <1>3, PTL DEF Spec
-----------------------------------------------------------------------------
IsQueue(q) ==
  DOMAIN q = {"bounded", "open", "items", "count", "hwm", "lwm", "not_empty", "not_full"}

FifoInv ==
  /\ IsQueue(queue)
  /\ \E S : /\ popped \in Seq(S) /\ queue.items \in Seq(S) /\ pushed \in Seq(S)
            /\ popped \o queue.items = pushed

\* A value enters the queue at its end.
Enters ==
  \E v : /\ queue'.items = Append(queue.items, v)
         /\ pushed' = Append(pushed, v)
         /\ UNCHANGED popped

\* The first value leaves it.
Exits ==
  /\ queue.items # <<>>
  /\ queue'.items = Tail(queue.items)
  /\ popped' = Append(popped, Head(queue.items))
  /\ UNCHANGED pushed

\* Only the lists of those who wait, or open, change.
SameItems == queue'.items = queue.items /\ UNCHANGED <<pushed, popped>>

QueueSteps == IsQueue(queue') /\ (Enters \/ Exits \/ SameItems)

\* push_tail_ adds the value, whatever becomes of those who wait.
LEMMA PushEnters ==
  ASSUME IsQueue(queue), NEW n, NEW v, push_and_notify_(n, v) PROVE QueueSteps
<1> DEFINE q == push_tail_(queue, v)
<1>1. IsQueue(q) /\ q.items = Append(queue.items, v)
  BY DEF push_tail_, IsQueue
<1>2. queue' = [q EXCEPT !.not_empty = Rest(@)] /\ pushed' = Append(pushed, v) /\ UNCHANGED popped
  BY DEF push_and_notify_
<1> HIDE DEF q
<1>3. IsQueue(queue') /\ queue'.items = q.items
  BY <1>1, <1>2 DEF IsQueue
<1> QED
  BY <1>1, <1>2, <1>3 DEF QueueSteps, Enters

\* pop_head_ takes the first value.
LEMMA PopExits ==
  ASSUME IsQueue(queue), NEW n, value_pop_(n), ~Empty(queue) PROVE QueueSteps
<1> DEFINE q == pop_head_(queue)
<1>1. IsQueue(q) /\ q.items = Tail(queue.items)
  BY DEF pop_head_, IsQueue
<1>2. /\ \E w : queue' = [q EXCEPT !.not_full = w]
      /\ popped' = Append(popped, Head(queue.items)) /\ UNCHANGED pushed
  BY DEF value_pop_
<1> HIDE DEF q
<1>3. IsQueue(queue') /\ queue'.items = q.items
  BY <1>1, <1>2 DEF IsQueue
<1> QED
  BY <1>1, <1>2, <1>3 DEF QueueSteps, Exits, Empty

\* A fiber enters or leaves a list of those who wait.
LEMMA WaitersOnly ==
  ASSUME IsQueue(queue), UNCHANGED <<pushed, popped>>,
         \E w : \/ queue' = [queue EXCEPT !.not_full = w]
                \/ queue' = [queue EXCEPT !.not_empty = w]
                \/ queue' = queue
  PROVE QueueSteps
BY DEF QueueSteps, SameItems, IsQueue

\* An operation that is refused changes nothing.
LEMMA RefusedKeeps == ASSUME IsQueue(queue), NEW n, Refused(n) PROVE QueueSteps
BY WaitersOnly DEF Refused, qvars

\* The loops of push and pop.
LEMMA LoopSteps ==
  ASSUME IsQueue(queue), NEW n, NEW c, NEW t, NEW v,
         PushLoop(n, c, t, v) \/ PopLoop(n, c, t)
  PROVE QueueSteps
<1>1. CASE PushLoop(n, c, t, v)
  BY <1>1, PushEnters, WaitersOnly DEF PushLoop
<1>2. CASE PopLoop(n, c, t)
  BY <1>2, PopExits, WaitersOnly, RefusedKeeps DEF PopLoop
<1> QED
  BY <1>1, <1>2

\* What the operations of a queue do to it: they let one value in at the end or one out at
\* the front, or leave the values alone.
LEMMA QueueingSteps == ASSUME IsQueue(queue), NEW n \in Node, Queueing(n) PROVE QueueSteps
<1>1. CASE push_(n)
  BY <1>1, LoopSteps, RefusedKeeps DEF push_
<1>2. CASE push_goes_on(n)
  BY <1>2, LoopSteps, WaitersOnly DEF push_goes_on
<1>3. CASE try_push_(n)
  BY <1>3, PushEnters, RefusedKeeps DEF try_push_
<1>4. CASE pop(n)
  BY <1>4, LoopSteps DEF pop
<1>5. CASE pop_goes_on(n)
  BY <1>5, LoopSteps, WaitersOnly DEF pop_goes_on
<1>6. CASE try_pop(n)
  BY <1>6, PopExits, RefusedKeeps DEF try_pop
<1>7. CASE close(n)
  <2>1. queue' = close_(queue) /\ UNCHANGED <<pushed, popped>>
    BY <1>7 DEF close
  <2>2. IsQueue(queue') /\ queue'.items = queue.items
    BY <2>1 DEF close_, IsQueue
  <2> QED
    BY <2>1, <2>2 DEF QueueSteps, SameItems
<1>8. ASSUME NEW t, push_wait_until_(n, t) PROVE QueueSteps
  BY <1>8, LoopSteps, RefusedKeeps DEF push_wait_until_
<1>9. ASSUME NEW t, pop_wait_until(n, t) PROVE QueueSteps
  BY <1>9, LoopSteps DEF pop_wait_until
<1> QED
  BY <1>1, <1>2, <1>3, <1>4, <1>5, <1>6, <1>7, <1>8, <1>9 DEF Queueing

\* Sequences over a larger set.
LEMMA WiderSeq == ASSUME NEW S, NEW T, S \subseteq T, NEW s \in Seq(S) PROVE s \in Seq(T)
<1>1. Len(s) \in Nat /\ s \in [1..Len(s) -> S]
  OBVIOUS
<1> QED
  BY <1>1

\* A step of the queue keeps the values in order.
LEMMA FifoKept == ASSUME FifoInv, QueueSteps PROVE FifoInv'
<1> DEFINE items == queue.items
<1>1. PICK S : popped \in Seq(S) /\ items \in Seq(S) /\ pushed \in Seq(S) /\ popped \o items = pushed
  BY DEF FifoInv
<1>2. CASE Enters
  <2>1. PICK v : queue'.items = Append(items, v) /\ pushed' = Append(pushed, v) /\ popped' = popped
    BY <1>2 DEF Enters
  <2> DEFINE T == S \cup {v}
  <2>2. popped \in Seq(T) /\ items \in Seq(T) /\ pushed \in Seq(T)
    BY <1>1, WiderSeq
  <2>3. v \in T
    OBVIOUS
  <2> HIDE DEF T, items
  <2>4. Append(items, v) \in Seq(T) /\ Append(pushed, v) \in Seq(T)
    BY <2>2, <2>3
  <2>5. popped \o Append(items, v) = Append(popped \o items, v)
    BY <2>2, <2>3, AppendIsConcat, ConcatAssociative, ConcatProperties
  <2>6. popped' \o queue'.items = pushed'
    BY <1>1, <2>1, <2>5
  <2> QED
    BY <2>1, <2>2, <2>4, <2>6 DEF FifoInv, QueueSteps
<1>3. CASE Exits
  <2>1. /\ items # <<>> /\ queue'.items = Tail(items)
        /\ popped' = Append(popped, Head(items)) /\ pushed' = pushed
    BY <1>3 DEF Exits
  <2> HIDE DEF items
  <2>2. Head(items) \in S /\ Tail(items) \in Seq(S)
    BY <1>1, <2>1
  <2>3. Append(popped, Head(items)) \in Seq(S)
    BY <1>1, <2>2
  <2>4. Append(popped, Head(items)) \o Tail(items) = popped \o items
    <3>1. <<Head(items)>> \in Seq(S)
      BY <2>2
    <3>2. <<Head(items)>> \o Tail(items) = items
      BY <1>1, <2>1, <2>2
    <3>3. Append(popped, Head(items)) = popped \o <<Head(items)>>
      BY <1>1, <2>2, AppendIsConcat
    <3> QED
      BY <1>1, <2>2, <3>1, <3>2, <3>3, ConcatAssociative
  <2>5. popped' \o queue'.items = pushed'
    BY <1>1, <2>1, <2>4
  <2> QED
    BY <1>1, <2>1, <2>2, <2>3, <2>5 DEF FifoInv, QueueSteps
<1>4. CASE SameItems
  BY <1>1, <1>4 DEF FifoInv, QueueSteps, SameItems
<1> QED
  BY <1>2, <1>3, <1>4 DEF QueueSteps

\* bounded_queue and unbounded_queue lose, repeat and reorder no value, however many
\* producers and consumers share them, with deadlines or without, and also when they are
\* closed in between.
THEOREM FirstInFirstOut == Spec => []QueueFifo
<1>1. Init => FifoInv
  <2> SUFFICES ASSUME Init PROVE FifoInv
    OBVIOUS
  <2>1. PICK u \in Uses : queue = QueueOf(u.queue)
    BY DEF Init
  <2>2. IsQueue(queue) /\ queue.items = <<>>
    BY <2>1, UsesAssumption DEF QueueOf, NewQueue, IsQueue
  <2>3. popped = <<>> /\ pushed = <<>>
    BY DEF Init
  <2>4. <<>> \in Seq({}) /\ <<>> \o <<>> = <<>>
    BY ConcatEmptySeq
  <2> QED
    BY <2>2, <2>3, <2>4 DEF FifoInv
<1>2. FifoInv /\ [Next]_vars => FifoInv'
  <2> SUFFICES ASSUME FifoInv, [Next]_vars PROVE FifoInv'
    OBVIOUS
  <2>1. ASSUME NEW n \in Node, Queueing(n) PROVE FifoInv'
    BY <2>1, QueueingSteps, FifoKept DEF FifoInv
  <2>2. CASE UNCHANGED qvars
    BY <2>2 DEF qvars, FifoInv
  <2>3. ASSUME NEW n \in Node, Scheduling(n) \/ Locking(n) \/ Futures(n) PROVE UNCHANGED qvars
    BY <2>3 DEF Scheduling, Locking, Futures
  <2>4. CASE MainRuns \/ TimePasses \/ UNCHANGED vars
    BY <2>2, <2>4 DEF MainRuns, TimePasses, vars
  <2> QED
    BY <2>1, <2>2, <2>3, <2>4 DEF Next
<1>3. FifoInv => QueueFifo
  BY DEF FifoInv, QueueFifo
<1> QED
  BY <1>1, <1>2, <1>3, PTL DEF Spec
-----------------------------------------------------------------------------
IsState(s) == DOMAIN s = {"type", "ready", "value", "except", "waiters"}

\* What get returns for the result r, in a state of type t.
ResultOf(t, got, r) ==
  IF r.is = "value"
  THEN CASE t = "R" -> got = r [] t = "void" -> got = None [] t = "R&" -> \E o : got = Value(o)
  ELSE got = r

NoReset == \A k \in Node : "reset" \notin prog[k]

\* The state s holds the result r.
Holds(s, r) ==
  \/ r \in {Exception, Broken} /\ s.except = r
  \/ /\ \E o : r = Value(o)
     /\ s.except = None
     /\ s.type = "R" => s.value = r

\* Without a reset a result is stored once, and the state holds it from then on.
ResultInv ==
  /\ IsState(st) /\ st.ready \in BOOLEAN /\ st.type \in {"R", "R&", "void"}
  /\ seen = [n \in Node |-> seen[n]]
  /\ NoReset /\ ~st.ready =>
       /\ results = <<>> /\ st.except = None
       /\ \A n \in Node : seen[n] = Unseen
  /\ NoReset /\ st.ready =>
       \E r : /\ results = <<r>> /\ Holds(st, r)
              /\ \A n \in Node : seen[n] # Unseen =>
                   seen[n].at = 1 /\ ResultOf(st.type, seen[n].got, r)

\* A result is stored where there is none.
StoresOne ==
  /\ ~st.ready /\ st'.ready = TRUE
  /\ \E r : results' = Append(results, r) /\ (st.except = None => Holds(st', r))
  /\ UNCHANGED seen

\* n gets the result.
Reads(n) ==
  /\ st.ready /\ UNCHANGED <<st, results>>
  /\ \E o : seen' = [seen EXCEPT ![n] = [got |-> Get(st, o), at |-> Len(results)]]

\* Only those who wait change.
SameResult ==
  /\ st'.ready = st.ready /\ st'.value = st.value /\ st'.except = st.except
  /\ UNCHANGED <<results, seen>>

\* The task is reset.
Resets == "reset" \in UNION {prog[k] : k \in Node} /\ st'.ready = FALSE /\ UNCHANGED seen

FutureSteps(n) ==
  /\ IsState(st') /\ st'.type = st.type
  /\ StoresOne \/ Reads(n) \/ SameResult \/ Resets

\* The fields of a state in which a value is stored.
LEMMA ValueFields ==
  ASSUME NEW s, NEW o, IsState(s), s.type \in {"R", "R&", "void"}
  PROVE LET k == SetValue(s, o)
        IN /\ IsState(k) /\ k.type = s.type /\ k.ready = TRUE
           /\ s.except = None => Holds(k, Value(o))
<1> DEFINE k == SetValue(s, o)
<1>1. IsState(k) /\ k.type = s.type /\ k.ready = TRUE /\ k.except = s.except
  <2>1. CASE s.type = "R"
    BY <2>1 DEF SetValue, set_value_, mark_ready_and_notify_, IsState
  <2>2. CASE s.type = "R&"
    BY <2>2 DEF SetValue, set_value_ref, mark_ready_and_notify_, IsState
  <2>3. CASE s.type = "void"
    BY <2>3 DEF SetValue, set_value_void, mark_ready_and_notify_, IsState
  <2> QED
    BY <2>1, <2>2, <2>3
<1>2. s.type = "R" => k.value = Value(o)
  BY DEF SetValue, set_value_, mark_ready_and_notify_, IsState
<1> HIDE DEF k
<1>3. s.except = None => Holds(k, Value(o))
  BY <1>1, <1>2 DEF Holds
<1> QED
  BY <1>1, <1>3 DEF k

\* The fields of a state in which an exception is stored.
LEMMA ExceptionFields ==
  ASSUME NEW s, NEW e \in {Exception, Broken}, IsState(s)
  PROVE LET k == set_exception_(s, e)
        IN IsState(k) /\ k.type = s.type /\ k.ready = TRUE /\ Holds(k, e)
<1> DEFINE k == set_exception_(s, e)
<1>1. IsState(k) /\ k.type = s.type /\ k.ready = TRUE /\ k.except = e
  BY DEF set_exception_, mark_ready_and_notify_, IsState
<1> HIDE DEF k
<1>2. Holds(k, e)
  BY <1>1 DEF Holds
<1> QED
  BY <1>1, <1>2 DEF k

\* Operations that store a result.
LEMMA StoresSteps ==
  ASSUME IsState(st), st.type \in {"R", "R&", "void"}, ~st.ready, UNCHANGED seen, NEW n, NEW o,
         \/ Stores(n, SetValue(st, o), Value(o))
         \/ Stores(n, set_exception_(st, Exception), Exception)
  PROVE FutureSteps(n)
<1>1. CASE Stores(n, SetValue(st, o), Value(o))
  <2>1. st' = SetValue(st, o) /\ results' = Append(results, Value(o))
    BY <1>1 DEF Stores
  <2> QED
    BY <2>1, ValueFields DEF FutureSteps, StoresOne
<1>2. CASE Stores(n, set_exception_(st, Exception), Exception)
  <2>1. st' = set_exception_(st, Exception) /\ results' = Append(results, Exception)
    BY <1>2 DEF Stores
  <2> QED
    BY <2>1, ExceptionFields DEF FutureSteps, StoresOne
<1> QED
  BY <1>1, <1>2

\* Operations that leave the result as it is.
LEMMA SameSteps ==
  ASSUME IsState(st), NEW n, UNCHANGED <<results, seen>>,
         UNCHANGED st \/ \E w : st' = [st EXCEPT !.waiters = w]
  PROVE FutureSteps(n)
BY DEF FutureSteps, SameResult, IsState

\* A get returns only where the result is there.
LEMMA WaitLoopSteps ==
  ASSUME IsState(st), NEW n, NEW c, NEW t, NEW what, NEW for,
         WaitLoop(n, c, t, what, for), UNCHANGED results
  PROVE FutureSteps(n)
<1>1. CASE st.ready /\ Returns(n, what)
  <2>1. CASE what = "get"
    BY <1>1, <2>1 DEF Returns, FutureSteps, Reads
  <2>2. CASE what # "get"
    BY <1>1, <2>2, SameSteps DEF Returns
  <2> QED
    BY <2>1, <2>2
<1>2. CASE ~(st.ready /\ Returns(n, what))
  BY <1>2, SameSteps DEF WaitLoop
<1> QED
  BY <1>1, <1>2
\* What the operations of promise, packaged_task and future do to the result.
LEMMA FuturesSteps ==
  ASSUME IsState(st), st.type \in {"R", "R&", "void"}, NEW n \in Node, Futures(n)
  PROVE FutureSteps(n)
<1>1. ASSUME NoChange(n) PROVE FutureSteps(n)
  BY <1>1, SameSteps DEF NoChange, tvars
<1>2. CASE get_future(n) \/ share(n) \/ \E g \in Node : hand_over(n, g)
  BY <1>1, <1>2, SameSteps DEF get_future, share, hand_over
<1>3. CASE set_value(n)
  BY <1>1, <1>3, StoresSteps DEF set_value
<1>4. CASE set_exception(n)
  BY <1>1, <1>4, StoresSteps DEF set_exception
<1>5. CASE destroy(n)
  <2>1. /\ st' = owner_destroyed_(st) /\ UNCHANGED seen
        /\ results' = IF st.ready THEN results ELSE Append(results, Broken)
    BY <1>5 DEF destroy
  <2>2. CASE st.ready
    BY <2>1, <2>2, SameSteps DEF owner_destroyed_
  <2>3. CASE ~st.ready
    <3>1. st' = set_exception_(st, Broken) /\ results' = Append(results, Broken)
      BY <2>1, <2>3 DEF owner_destroyed_
    <3> QED
      BY <2>1, <2>3, <3>1, ExceptionFields DEF FutureSteps, StoresOne
  <2> QED
    BY <2>2, <2>3
<1>6. CASE write(n) \/ call(n)
  BY <1>1, <1>6, SameSteps DEF write, call
<1>7. CASE run(n)
  BY <1>1, <1>7, StoresSteps DEF run
<1>8. CASE reset(n)
  <2>1. CASE NoChange(n)
    BY <1>1, <2>1
  <2>2. CASE ~NoChange(n)
    <3>1. "reset" \in prog[n] /\ st' = reset_state(st) /\ UNCHANGED seen
      BY <1>8, <2>2 DEF reset, Does
    <3>2. IsState(st') /\ st'.type = st.type /\ st'.ready = FALSE
      BY <3>1 DEF reset_state, IsState
    <3> QED
      BY <3>1, <3>2 DEF FutureSteps, Resets
  <2> QED
    BY <2>1, <2>2
<1>9. ASSUME NEW what, get(n, what) PROVE FutureSteps(n)
  BY <1>1, <1>9, WaitLoopSteps DEF get
<1>10. ASSUME NEW what, NEW t, timed_wait(n, what, t) PROVE FutureSteps(n)
  BY <1>1, <1>10, WaitLoopSteps DEF timed_wait
<1>11. CASE get_goes_on(n)
  BY <1>11, WaitLoopSteps DEF get_goes_on
<1>12. CASE timed_wait_goes_on(n)
  BY <1>12, WaitLoopSteps, SameSteps DEF timed_wait_goes_on
<1> QED
  BY <1>2, <1>3, <1>4, <1>5, <1>6, <1>7, <1>8, <1>9, <1>10, <1>11, <1>12 DEF Futures

\* The result r as get returns it.
LEMMA GetReturns ==
  ASSUME NEW s, NEW r, NEW o, s.type \in {"R", "R&", "void"}, Holds(s, r)
  PROVE ResultOf(s.type, Get(s, o), r)
<1>1. Exception # None /\ Broken # None /\ Exception.is # "value" /\ Broken.is # "value"
  BY DEF Exception, Broken, None
<1>2. \A x : Value(x).is = "value"
  BY DEF Value
<1>3. CASE r \in {Exception, Broken} /\ s.except = r
  BY <1>1, <1>3 DEF ResultOf, Get, get_, get_ref, get_void
<1>4. CASE (\E x : r = Value(x)) /\ s.except = None /\ (s.type = "R" => s.value = r)
  BY <1>2, <1>4 DEF ResultOf, Get, get_, get_ref, get_void
<1> QED
  BY <1>3, <1>4 DEF Holds

\* The operations keep the invariant.
LEMMA ResultKept ==
  ASSUME ResultInv, UNCHANGED prog, NEW n \in Node, FutureSteps(n) PROVE ResultInv'
<1>1. IsState(st') /\ st'.type = st.type /\ st.type \in {"R", "R&", "void"} /\ (NoReset' <=> NoReset)
  BY DEF FutureSteps, ResultInv, NoReset
<1>2. CASE StoresOne
  <2>1. PICK r : results' = Append(results, r) /\ (st.except = None => Holds(st', r))
    BY <1>2 DEF StoresOne
  <2>2. ~st.ready /\ st'.ready = TRUE /\ UNCHANGED seen
    BY <1>2 DEF StoresOne
  <2>3. NoReset => results' = <<r>> /\ Holds(st', r) /\ \A k \in Node : seen'[k] = Unseen
    <3>1. NoReset => results = <<>> /\ st.except = None /\ \A k \in Node : seen[k] = Unseen
      BY <2>2 DEF ResultInv
    <3>2. Append(<<>>, r) = <<r>>
      OBVIOUS
    <3> QED
      BY <2>1, <2>2, <3>1, <3>2
  <2> QED
    BY <1>1, <2>2, <2>3 DEF ResultInv
<1>3. CASE Reads(n)
  <2>1. PICK o : seen' = [seen EXCEPT ![n] = [got |-> Get(st, o), at |-> Len(results)]]
    BY <1>3 DEF Reads
  <2>2. /\ seen' = [k \in Node |-> seen'[k]]
        /\ seen'[n].got = Get(st, o) /\ seen'[n].at = Len(results)
        /\ \A k \in Node : k # n => seen'[k] = seen[k]
    BY <2>1 DEF ResultInv
  <2>3. st.ready /\ UNCHANGED <<st, results>>
    BY <1>3 DEF Reads
  <2>4. ASSUME NoReset
        PROVE \E r : /\ results = <<r>> /\ Holds(st, r)
                     /\ \A k \in Node : seen'[k] # Unseen =>
                          seen'[k].at = 1 /\ ResultOf(st.type, seen'[k].got, r)
    <3>1. PICK r : /\ results = <<r>> /\ Holds(st, r)
                   /\ \A k \in Node : seen[k] # Unseen =>
                        seen[k].at = 1 /\ ResultOf(st.type, seen[k].got, r)
      BY <2>3, <2>4 DEF ResultInv
    <3>2. seen'[n].at = 1 /\ ResultOf(st.type, seen'[n].got, r)
      BY <1>1, <2>2, <3>1, GetReturns
    <3> QED
      BY <2>2, <3>1, <3>2
  <2> QED
    BY <1>1, <2>2, <2>3, <2>4 DEF ResultInv
<1>4. CASE SameResult
  <2>1. /\ st'.ready = st.ready /\ st'.except = st.except /\ UNCHANGED <<results, seen>>
        /\ \A r : Holds(st', r) <=> Holds(st, r)
    BY <1>1, <1>4 DEF SameResult, Holds
  <2> QED
    BY <1>1, <2>1 DEF ResultInv
<1>5. CASE Resets
  <2>1. ~NoReset /\ st'.ready = FALSE /\ UNCHANGED seen
    BY <1>5 DEF Resets, NoReset
  <2> QED
    BY <1>1, <2>1 DEF ResultInv
<1> QED
  BY <1>2, <1>3, <1>4, <1>5 DEF FutureSteps

\* Nothing changes what the fibers' functions choose from.
LEMMA ProgConstant == ASSUME [Next]_vars PROVE UNCHANGED prog
<1>1. ASSUME NEW n, NEW s, ReturnWith(s, n) PROVE UNCHANGED prog
  BY <1>1 DEF ReturnWith
<1>2. ASSUME NEW n, NEW s, NEW c, NEW t, NEW v, SuspendIn(s, n, c, t, v) PROVE UNCHANGED prog
  BY <1>2 DEF SuspendIn
<1>3. ASSUME NEW n, interruption_point(n) PROVE UNCHANGED prog
  BY <1>3 DEF interruption_point, Throw
<1>4. ASSUME NEW n, NEW c, NEW t, NEW again, LockLoop(n, c, t, again) PROVE UNCHANGED prog
  BY <1>1, <1>2, <1>4 DEF LockLoop, fvars
<1>5. ASSUME NEW n, Scheduling(n) PROVE UNCHANGED prog
  <2>1. CASE yield(n) \/ yield_returns(n) \/ end(n)
    BY <2>1 DEF yield, yield_returns, end
  <2>2. CASE sleep_returns(n) \/ \E t \in Deadline : sleep_until(n, t)
    BY <1>1, <1>2, <1>3, <2>2 DEF sleep_returns, sleep_until
  <2>3. CASE join_returns(n) \/ \E f \in Fiber : join(n, f)
    BY <1>1, <2>3 DEF join_returns, join, Throw
  <2>4. CASE \E f \in Fiber : detach(n, f) \/ interrupt(n, f)
    BY <1>1, <2>4 DEF detach, interrupt
  <2> QED
    BY <1>5, <2>1, <2>2, <2>3, <2>4 DEF Scheduling
<1>6. ASSUME NEW n, Locking(n) PROVE UNCHANGED prog
  <2>1. CASE lock(n) \/ lock_goes_on(n) \/ \E t \in Deadline : try_lock_until(n, t)
    BY <1>4, <2>1 DEF lock, lock_goes_on, try_lock_until
  <2>2. CASE try_lock(n) \/ unlock(n)
    BY <1>1, <2>2 DEF try_lock, unlock, Run, yield
  <2>3. CASE try_lock_until_goes_on(n) \/ cond_wait_goes_on(n)
    BY <1>1, <1>3, <1>4, <2>3 DEF try_lock_until_goes_on, cond_wait_goes_on
  <2>4. CASE \E t \in Deadline \cup {Never} : cond_wait(n, t)
    BY <1>2, <2>4 DEF cond_wait
  <2>5. CASE notify_one(n) \/ notify_all(n)
    BY <1>1, <2>5 DEF notify_one, notify_all
  <2>6. CASE barrier_wait(n) \/ barrier_wait_goes_on(n)
    BY <1>1, <1>2, <2>6 DEF barrier_wait, barrier_wait_goes_on
  <2> QED
    BY <1>6, <2>1, <2>2, <2>3, <2>4, <2>5, <2>6 DEF Locking
<1>7. ASSUME NEW n, Queueing(n) PROVE UNCHANGED prog
  <2>1. ASSUME NEW v, push_and_notify_(n, v) PROVE UNCHANGED prog
    BY <1>1, <2>1 DEF push_and_notify_
  <2>2. ASSUME value_pop_(n) \/ Refused(n) PROVE UNCHANGED prog
    BY <1>1, <2>2 DEF value_pop_, Refused
  <2>3. ASSUME NEW c, NEW t, NEW v, PushLoop(n, c, t, v) \/ PopLoop(n, c, t) PROVE UNCHANGED prog
    BY <1>2, <2>1, <2>2, <2>3 DEF PushLoop, PopLoop
  <2>4. CASE push_(n) \/ try_push_(n) \/ \E t \in Deadline : push_wait_until_(n, t)
    BY <2>1, <2>2, <2>3, <2>4 DEF push_, try_push_, push_wait_until_
  <2>5. CASE pop(n) \/ try_pop(n) \/ close(n) \/ \E t \in Deadline : pop_wait_until(n, t)
    BY <1>1, <2>2, <2>3, <2>5 DEF pop, try_pop, close, pop_wait_until
  <2>6. CASE push_goes_on(n) \/ pop_goes_on(n)
    BY <1>1, <2>3, <2>6 DEF push_goes_on, pop_goes_on
  <2> QED
    BY <1>7, <2>4, <2>5, <2>6 DEF Queueing
<1>8. ASSUME NEW n, Futures(n) PROVE UNCHANGED prog
  <2>1. ASSUME NoChange(n) PROVE UNCHANGED prog
    BY <1>1, <2>1 DEF NoChange
  <2>2. ASSUME NEW s, NEW r, Stores(n, s, r) PROVE UNCHANGED prog
    BY <1>1, <2>2 DEF Stores
  <2>3. ASSUME NEW c, NEW t, NEW what, NEW for, WaitLoop(n, c, t, what, for) PROVE UNCHANGED prog
    BY <1>1, <1>2, <2>3 DEF WaitLoop, Returns
  <2>4. CASE get_future(n) \/ share(n) \/ (\E g \in Node : hand_over(n, g)) \/ destroy(n) \/ write(n)
    BY <1>1, <2>1, <2>4 DEF get_future, share, hand_over, destroy, write
  <2>5. CASE set_value(n) \/ set_exception(n) \/ call(n) \/ run(n) \/ reset(n)
    BY <1>1, <2>1, <2>2, <2>5 DEF set_value, set_exception, call, run, reset
  <2>6. CASE (\E what \in {"get", "get_exception_ptr", "wait_result"} : get(n, what)) \/ get_goes_on(n)
    BY <2>1, <2>3, <2>6 DEF get, get_goes_on
  <2>7. CASE \/ \E what \in {"wait_result_until", "wait_result_for"}, t \in Deadline : timed_wait(n, what, t)
             \/ timed_wait_goes_on(n)
    BY <1>1, <2>1, <2>3, <2>7 DEF timed_wait, timed_wait_goes_on
  <2> QED
    BY <1>8, <2>4, <2>5, <2>6, <2>7 DEF Futures
<1>9. CASE MainRuns \/ TimePasses \/ UNCHANGED vars
  BY <1>9 DEF MainRuns, Run, TimePasses, Tick, vars, fvars
<1> QED
  BY <1>5, <1>6, <1>7, <1>8, <1>9 DEF Next

\* get of a future or of a shared_future returns the result that was stored first, and not
\* before it is stored: the value, the exception, or broken_promise.  Whichever of the
\* producer's calls, its destruction and several readers comes first, no result replaces
\* another.
THEOREM FirstResultOnly == Spec => []GetsTheResult
<1>1. Init => ResultInv
  <2> SUFFICES ASSUME Init PROVE ResultInv
    OBVIOUS
  <2>1. PICK u \in Uses : st = NewState(u.state)
    BY DEF Init
  <2>2. IsState(st) /\ st.type \in {"R", "R&", "void"} /\ st.ready = FALSE /\ st.except = None
    BY <2>1, UsesAssumption DEF NewState, IsState
  <2>3. results = <<>> /\ seen = [n \in Node |-> Unseen]
    BY DEF Init
  <2> QED
    BY <2>2, <2>3 DEF ResultInv
<1>2. ResultInv /\ [Next]_vars => ResultInv'
  <2> SUFFICES ASSUME ResultInv, [Next]_vars PROVE ResultInv'
    OBVIOUS
  <2>1. ASSUME NEW n \in Node, Futures(n) PROVE ResultInv'
    BY <2>1, FuturesSteps, ResultKept, ProgConstant DEF ResultInv
  <2>2. CASE UNCHANGED tvars
    <3>1. UNCHANGED <<st, results, seen, prog>>
      BY <2>2, ProgConstant DEF tvars
    <3> QED
      BY <3>1 DEF ResultInv, NoReset, Holds
  <2>3. ASSUME NEW n \in Node, Scheduling(n) \/ Locking(n) \/ Queueing(n) PROVE UNCHANGED tvars
    BY <2>3 DEF Scheduling, Locking, Queueing
  <2>4. CASE MainRuns \/ TimePasses \/ UNCHANGED vars
    BY <2>2, <2>4 DEF MainRuns, TimePasses, vars
  <2> QED
    BY <2>1, <2>2, <2>3, <2>4 DEF Next
<1>3. ResultInv => GetsTheResult
  <2> SUFFICES ASSUME ResultInv, NEW n \in Node, seen[n] # Unseen, NoReset
               PROVE /\ seen[n].at = 1 /\ Len(results) = 1
                     /\ IF results[1].is = "value"
                        THEN seen[n].got = CASE st.type = "R" -> results[1]
                                             [] st.type = "void" -> None
                                             [] st.type = "R&" -> Value(seen[n].got.of)
                        ELSE seen[n].got = results[1]
    BY DEF GetsTheResult, NoReset
  <2>1. st.ready /\ st.type \in {"R", "R&", "void"}
    BY DEF ResultInv
  <2>2. PICK r : results = <<r>> /\ seen[n].at = 1 /\ ResultOf(st.type, seen[n].got, r)
    BY <2>1 DEF ResultInv
  <2>3. results[1] = r /\ Len(results) = 1
    BY <2>2
  <2>4. \A o : Value(o) = Value(Value(o).of)
    BY DEF Value
  <2> QED
    BY <2>1, <2>2, <2>3, <2>4 DEF ResultOf
<1> QED
  BY <1>1, <1>2, <1>3, PTL DEF Spec
=============================================================================
