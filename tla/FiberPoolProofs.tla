-------------------------- MODULE FiberPoolProofs --------------------------
(***************************************************************************)
(* For any number of requests and calls and any sizes of the pool: no task *)
(* is stranded while a fiber sleeps, no fiber is lost from the count, and  *)
(* a lazy pool locks up only at its limit, with a waiting request in every *)
(* fiber.                                                                  *)
(***************************************************************************)
EXTENDS FiberPool, FiniteSetTheorems, TLAPS

(* What the argument needs of the types.  running is an integer only: that *)
(* it is not negative depends on the requests, on which nothing here does. *)
Counts ==
  /\ tasks \in Seq(Task) /\ threadq \in Seq(Task) /\ tmp \in Seq(Task)
  /\ size \in Nat /\ ready \in Nat /\ idle \in Nat /\ ended \in Nat /\ running \in Int
  /\ stop \in {"no", "yes"}
  /\ mode \in {"lazy", "fixed"}

PoolInv == Counts /\ NoTaskStranded /\ FibersCounted

\* Growth is a number of fibers.
LEMMA GrowthIsNat == size \in Nat => Growth \in Nat
BY PoolAssumption DEF Growth

\* A pool that has no fibers yet satisfies the invariant.
LEMMA InitInv == Init => PoolInv
<1> SUFFICES ASSUME Init PROVE PoolInv
  OBVIOUS
<1>1. Counts
  BY PoolAssumption DEF Init, Counts
<1>2. NoTaskStranded /\ FibersCounted
  BY PoolAssumption DEF Init, NoTaskStranded, FibersCounted
<1> QED BY <1>1, <1>2 DEF PoolInv

\* Handing over: a sleeping fiber is woken for the new task, or none sleeps.
LEMMA PushInv ==
  ASSUME PoolInv, NEW t \in Task, NEW n \in Nat, Push(t, n),
         threadq' \in Seq(Task), tmp' \in Seq(Task)
  PROVE  PoolInv'
<1>1. Counts'
  BY DEF PoolInv, Counts, Push, Woken
<1>2. Len(tasks') = Len(tasks) + 1 /\ Len(tasks) \in Nat
  BY DEF PoolInv, Counts, Push
<1>3. NoTaskStranded'
  BY <1>2 DEF PoolInv, Counts, NoTaskStranded, Push, Woken
<1>4. FibersCounted'
  BY DEF PoolInv, Counts, FibersCounted, Push, Woken
<1> QED BY <1>1, <1>3, <1>4 DEF PoolInv

\* check_task_fiber_fun.
LEMMA CheckInv == PoolInv /\ CheckTask => PoolInv'
<1> SUFFICES ASSUME PoolInv, CheckTask PROVE PoolInv'
  OBVIOUS
<1>1. CASE HandOver
  <2>1. Head(tmp) \in Task /\ tmp' \in Seq(Task) /\ threadq' \in Seq(Task)
    BY <1>1 DEF HandOver, PoolInv, Counts
  <2> QED BY <1>1, <2>1, PushInv DEF HandOver
<1>2. CASE TakeTasks
  <2>1. Head(threadq) \in Task /\ tmp' \in Seq(Task) /\ threadq' \in Seq(Task)
    BY <1>2 DEF TakeTasks, PoolInv, Counts
  <2> QED BY <1>2, <2>1, PushInv DEF TakeTasks
<1>3. CASE WaitForThreads \/ WaitEnds \/ StopSeen
  BY <1>3 DEF WaitForThreads, WaitEnds, StopSeen, PoolInv, Counts, NoTaskStranded,
              FibersCounted
<1> QED BY <1>1, <1>2, <1>3 DEF CheckTask

\* A fiber goes to sleep only when there is no task left.
LEMMA RunInv == PoolInv /\ RunFiber => PoolInv'
<1> SUFFICES ASSUME PoolInv, RunFiber PROVE PoolInv'
  OBVIOUS
<1>1. CASE stop = "yes" /\ ended' = ended + 1 /\ UNCHANGED <<tasks, idle, running>>
  BY <1>1 DEF RunFiber, PoolInv, Counts, NoTaskStranded, FibersCounted, thread
<1>2. CASE /\ stop = "no" /\ tasks = <<>> /\ idle' = idle + 1
           /\ UNCHANGED <<tasks, ended, running>>
  <2>1. Len(tasks') = 0 /\ tasks' \in Seq(Task)
    BY <1>2 DEF PoolInv, Counts
  <2>2. ready' \in Nat /\ ready' = ready - 1
    BY DEF RunFiber, PoolInv, Counts
  <2> QED BY <1>2, <2>1, <2>2 DEF RunFiber, PoolInv, Counts, NoTaskStranded, FibersCounted, thread
<1>3. CASE /\ stop = "no" /\ tasks # <<>> /\ tasks' = Tail(tasks)
           /\ running' = running + 1 /\ UNCHANGED <<idle, ended>>
  <2>1. tasks' \in Seq(Task) /\ Len(tasks') = Len(tasks) - 1 /\ Len(tasks) \in Nat
    BY <1>3 DEF PoolInv, Counts
  <2>2. ready' \in Nat /\ ready' = ready - 1 /\ UNCHANGED <<mode, size, stop, threadq, tmp>>
    BY DEF RunFiber, PoolInv, Counts, thread
  <2>3. Counts'
    BY <1>3, <2>1, <2>2 DEF PoolInv, Counts
  <2>4. NoTaskStranded'
    BY <1>3, <2>1, <2>2 DEF PoolInv, Counts, NoTaskStranded
  <2>5. FibersCounted'
    BY <1>3, <2>2 DEF PoolInv, Counts, FibersCounted
  <2> QED BY <2>3, <2>4, <2>5 DEF PoolInv
<1> QED BY <1>1, <1>2, <1>3 DEF RunFiber

\* A task ends: its fiber will look at the list.
LEMMA EndInv ==
  ASSUME PoolInv, TaskEnds,
         UNCHANGED <<mode, size, tasks, idle, ended, stop, threadq, tmp>>
  PROVE  PoolInv'
BY DEF TaskEnds, PoolInv, Counts, NoTaskStranded, FibersCounted

\* A step of a request keeps it.
LEMMA RequestInv == ASSUME PoolInv, NEW r \in Requests, RequestStep(r) PROVE PoolInv'
<1> Growth \in Nat
  BY GrowthIsNat DEF PoolInv, Counts
<1>1. CASE Fork(r)
  <2>1. [req |-> r, child |-> "yes"] \in Task
    BY DEF Task
  <2>2. threadq' \in Seq(Task) /\ tmp' \in Seq(Task)
    BY <1>1 DEF Fork, thread, PoolInv, Counts
  <2> QED BY <1>1, <2>1, <2>2, PushInv DEF Fork
<1>2. CASE CallEnds(r)
  BY <1>2, EndInv DEF CallEnds, thread
<1>3. CASE Wait(r)
  BY <1>3 DEF Wait, thread, PoolInv, Counts, NoTaskStranded, FibersCounted
<1>4. CASE RequestEnds(r)
  BY <1>4, EndInv DEF RequestEnds, thread
<1> QED BY <1>1, <1>2, <1>3, <1>4 DEF RequestStep

\* Every step keeps it.
LEMMA NextInv == PoolInv /\ [Next]_vars => PoolInv'
<1> SUFFICES ASSUME PoolInv, [Next]_vars PROVE PoolInv'
  OBVIOUS
<1> Growth \in Nat
  BY GrowthIsNat DEF PoolInv, Counts
<1>1. ASSUME NEW r \in Requests, Post(r) PROVE PoolInv'
  <2>1. [req |-> r, child |-> "no"] \in Task
    BY DEF Task
  <2>2. threadq' \in Seq(Task) /\ tmp' \in Seq(Task)
    BY <1>1 DEF Post, thread, PoolInv, Counts
  <2> QED BY <1>1, <2>1, <2>2, PushInv DEF Post
<1>2. ASSUME NEW r \in Requests, ScheduleTask(r) PROVE PoolInv'
  <2>1. [req |-> r, child |-> "no"] \in Task
    BY DEF Task
  <2>2. threadq' \in Seq(Task)
    BY <1>2, <2>1 DEF ScheduleTask, PoolInv, Counts
  <2> QED BY <1>2, <2>2 DEF ScheduleTask, PoolInv, Counts, NoTaskStranded, FibersCounted
<1>3. CASE Stop
  BY <1>3 DEF Stop, NotifyAll, thread, PoolInv, Counts, NoTaskStranded, FibersCounted
<1>4. CASE UNCHANGED vars
  BY <1>4 DEF vars, PoolInv, Counts, NoTaskStranded, FibersCounted
<1> QED BY <1>1, <1>2, <1>3, <1>4, RequestInv, CheckInv, RunInv DEF Next

\* PoolInv holds in every reachable state.
LEMMA Invariant == Spec => []PoolInv
BY InitInv, NextInv, PTL DEF Spec

\* One notify_one per task loses none, however many fibers the pool has and whoever
\* hands over: while a fiber sleeps on cond_, there are no more tasks than fibers on
\* their way to the list.
THEOREM NoTaskIsStranded == Spec => []NoTaskStranded
BY Invariant, PTL DEF PoolInv

\* The counts of fibers that look, wait, run and have returned add up to the pool:
\* a fiber that schedule_task_from_fiber does not see running is there to take a
\* task.
THEOREM FibersAreCounted == Spec => []FibersCounted
BY Invariant, PTL DEF PoolInv
-----------------------------------------------------------------------------
(* The lazy pool does not lock up below its limit.  running_fiber_num_ is  *)
(* the number of the tasks that run, requests and calls; so a hand over    *)
(* that sees it below size - 1 leaves a fiber that no waiting request      *)
(* holds, and any other hand over adds fibers.                             *)

\* Requests whose task has begun and not ended.
Busy == {r \in Requests : st[r] \in {"running", "fork", "wait"}}

\* The calls that run, numbered in each request.
RunningCalls == UNION {{r} \X (1..active[r]) : r \in Requests}

\* Requests that keep a fiber and will hand over no further call.
Held == {r \in Requests : st[r] = "wait" \/ (st[r] = "fork" /\ forked[r] = calls[r])}

\* Nothing of the fixed pool happens to a lazy one.
LazyPool == tmp = <<>> /\ threadq = <<>> /\ checker = "off" /\ stop = "no" /\ ended = 0

\* What the argument needs of the types of the requests' bookkeeping: the bound
\* MaxCalls plays no part in it.
RequestTypes ==
  /\ st \in [Requests -> {"off", "queued", "running", "fork", "wait", "done"}]
  /\ calls \in [Requests -> Nat \ {0}]
  /\ forked \in [Requests -> Nat]
  /\ left \in [Requests -> Int]
  /\ active \in [Requests -> Nat]

\* A request that has not begun has handed over no call.
ForkedByBegun == \A r \in Requests : st[r] \in {"off", "queued"} => forked[r] = 0

\* The task of a request is in the list only while the request is queued, and once.
QueuedOnce ==
  \A i \in DOMAIN tasks :
    tasks[i].child = "no" =>
      /\ st[tasks[i].req] = "queued"
      /\ \A j \in DOMAIN tasks : tasks[j].child = "no" /\ tasks[j].req = tasks[i].req => j = i

\* running_fiber_num_ counts the tasks that run.
RunningCounted ==
  /\ IsFiniteSet(RunningCalls)
  /\ running = Cardinality(Busy) + Cardinality(RunningCalls)

\* Below its limit the pool has a fiber that no waiting request holds.
SomeFiberFree ==
  /\ size = 0 => tasks = <<>>
  /\ size > 0 /\ size <= MaxGrow => Cardinality(Held) < size

LazyInv ==
  mode = "lazy" =>
    /\ LazyPool /\ RequestTypes /\ ForkedByBegun /\ QueuedOnce
    /\ RunningCounted /\ SomeFiberFree
\* Membership in RunningCalls, and its change when a call begins or ends.
LEMMA CallsMember ==
  ASSUME active \in [Requests -> Nat], NEW x
  PROVE  x \in RunningCalls <=> \E r \in Requests : \E k \in 1..active[r] : x = <<r, k>>
BY DEF RunningCalls

\* A call that begins is one more running call.
LEMMA CallBegins ==
  ASSUME active \in [Requests -> Nat], NEW r \in Requests,
         active' = [active EXCEPT ![r] = @ + 1], IsFiniteSet(RunningCalls)
  PROVE  /\ IsFiniteSet(RunningCalls')
         /\ Cardinality(RunningCalls') = Cardinality(RunningCalls) + 1
<1> DEFINE c == <<r, active[r] + 1>>
<1>0. active' \in [Requests -> Nat]
  OBVIOUS
<1>1. c \notin RunningCalls
  BY CallsMember
<1>2. ASSUME NEW x PROVE x \in RunningCalls' <=> x \in RunningCalls \cup {c}
  <2>1. x \in RunningCalls' <=> \E q \in Requests : \E k \in 1..active'[q] : x = <<q, k>>
    BY <1>0 DEF RunningCalls
  <2>2. x \in RunningCalls <=> \E q \in Requests : \E k \in 1..active[q] : x = <<q, k>>
    BY CallsMember
  <2>3. \A q \in Requests : active'[q] = IF q = r THEN active[r] + 1 ELSE active[q]
    OBVIOUS
  <2>4. \A q \in Requests : \A k : k \in 1..active'[q] <=> (k \in 1..active[q] \/ (q = r /\ k = active[r] + 1))
    BY <2>3
  <2> QED BY <2>1, <2>2, <2>4
<1>3. RunningCalls' = RunningCalls \cup {c}
  BY <1>2
<1> QED BY <1>1, <1>3, FS_AddElement

\* A call that ends is one less.
LEMMA CallEnd ==
  ASSUME active \in [Requests -> Nat], NEW r \in Requests, active[r] > 0,
         active' = [active EXCEPT ![r] = @ - 1], IsFiniteSet(RunningCalls)
  PROVE  /\ IsFiniteSet(RunningCalls')
         /\ Cardinality(RunningCalls') = Cardinality(RunningCalls) - 1
<1> DEFINE c == <<r, active[r]>>
<1>0. active' \in [Requests -> Nat]
  OBVIOUS
<1>1. c \in RunningCalls
  BY CallsMember
<1>2. ASSUME NEW x PROVE x \in RunningCalls' <=> x \in RunningCalls \ {c}
  <2>1. x \in RunningCalls' <=> \E q \in Requests : \E k \in 1..active'[q] : x = <<q, k>>
    BY <1>0 DEF RunningCalls
  <2>2. x \in RunningCalls <=> \E q \in Requests : \E k \in 1..active[q] : x = <<q, k>>
    BY CallsMember
  <2>3. \A q \in Requests : active'[q] = IF q = r THEN active[r] - 1 ELSE active[q]
    OBVIOUS
  <2>4. \A q \in Requests : \A k : k \in 1..active'[q] <=> (k \in 1..active[q] /\ ~ (q = r /\ k = active[r]))
    BY <2>3
  <2> QED BY <2>1, <2>2, <2>4
<1>3. RunningCalls' = RunningCalls \ {c}
  BY <1>2
<1> QED BY <1>1, <1>3, FS_RemoveElement

\* The sets of requests are finite; a request that keeps its fiber is busy.
LEMMA RequestSets ==
  /\ IsFiniteSet(Busy) /\ Cardinality(Busy) \in Nat
  /\ IsFiniteSet(Held) /\ Cardinality(Held) \in Nat
  /\ Cardinality(Held) <= Cardinality(Busy)
<1>1. Busy \in SUBSET Requests /\ Held \in SUBSET Busy
  BY DEF Busy, Held
<1>2. IsFiniteSet(Busy) /\ IsFiniteSet(Held) /\ Cardinality(Held) <= Cardinality(Busy)
  BY <1>1, FS_Subset, PoolAssumption
<1> QED BY <1>2, FS_CardinalityType

\* running_fiber_num_ is a number, at least that of the requests that keep a fiber,
\* and no larger than the pool.
LEMMA HeldRun ==
  ASSUME mode = "lazy", PoolInv, LazyInv
  PROVE  /\ Cardinality(Held) <= running /\ running <= size
         /\ running \in Nat /\ Cardinality(RunningCalls) \in Nat
<1>1. Cardinality(RunningCalls) \in Nat
  BY FS_CardinalityType DEF LazyInv, RunningCounted
<1>2. running = Cardinality(Busy) + Cardinality(RunningCalls)
  BY DEF LazyInv, RunningCounted
<1>3. Cardinality(Held) <= running /\ running \in Nat
  BY <1>1, <1>2, RequestSets
<1>4. running <= size
  BY <1>3 DEF PoolInv, Counts, FibersCounted
<1> QED BY <1>1, <1>3, <1>4

\* A request that has begun, or a call, leaves no other trace in the sets.
LEMMA SameSets ==
  ASSUME UNCHANGED <<st, calls, forked>>
  PROVE  Busy' = Busy /\ Held' = Held
BY DEF Busy, Held

\* Steps that start and end no call leave the running calls alone.
LEMMA SameCalls == ASSUME UNCHANGED active PROVE RunningCalls' = RunningCalls
BY DEF RunningCalls
\* Whoever hands over a task leaves a fiber free, or the pool is beyond its limit.
LEMMA PushFree ==
  ASSUME mode = "lazy", PoolInv, LazyInv, NEW t, Push(t, Growth), Held' \subseteq Busy
  PROVE  SomeFiberFree'
<1>1. Cardinality(Held') \in Nat /\ Cardinality(Held') <= running
  <2>1. Held' \in SUBSET Busy
    OBVIOUS
  <2>2. IsFiniteSet(Held') /\ Cardinality(Held') <= Cardinality(Busy)
    BY <2>1, RequestSets, FS_Subset
  <2>3. Cardinality(Held') \in Nat
    BY <2>2, FS_CardinalityType
  <2>4. Cardinality(Busy) <= running
    BY HeldRun, RequestSets DEF LazyInv, RunningCounted
  <2> QED BY <2>2, <2>3, <2>4, RequestSets, HeldRun
<1>2. size' = size + Growth /\ size \in Nat
  BY DEF Push, PoolInv, Counts
<1>3. running \in Nat /\ running <= size
  BY HeldRun
<1>4. Growth = IF size = 0 THEN GrowSize
               ELSE IF running >= size - 1 /\ size <= MaxGrow THEN size ELSE 0
  BY DEF Growth
<1>5. size' > 0 /\ (size' <= MaxGrow => Cardinality(Held') < size')
  <2> HIDE DEF Growth
  <2>1. CASE size = 0
    BY <2>1, <1>1, <1>2, <1>3, <1>4, PoolAssumption
  <2>2. CASE size > 0 /\ running >= size - 1 /\ size <= MaxGrow
    BY <2>2, <1>1, <1>2, <1>3, <1>4, PoolAssumption
  <2>3. CASE size > 0 /\ ~ (running >= size - 1 /\ size <= MaxGrow)
    BY <2>3, <1>1, <1>2, <1>3, <1>4, PoolAssumption
  <2> QED BY <2>1, <2>2, <2>3, <1>2
<1> QED BY <1>5, <1>2 DEF SomeFiberFree

\* A request arrives.
LEMMA PostLazy ==
  ASSUME mode = "lazy", PoolInv, LazyInv, NEW r \in Requests, Post(r)
  PROVE  LazyInv'
<1>0. /\ LazyPool /\ RequestTypes /\ ForkedByBegun /\ QueuedOnce /\ RunningCounted
      /\ tasks \in Seq(Task)
  BY DEF LazyInv, PoolInv, Counts
<1>1. PICK n \in 1..MaxCalls : calls' = [calls EXCEPT ![r] = n]
  BY DEF Post
<1>2. /\ st[r] = "off" /\ st' = [st EXCEPT ![r] = "queued"]
      /\ UNCHANGED <<forked, left, active, tmp, threadq, checker, ended, stop, running>>
      /\ tasks' = Append(tasks, [req |-> r, child |-> "no"])
  BY DEF Post, Push, thread
<1>3. LazyPool'
  BY <1>0, <1>2 DEF LazyPool
<1>4. RequestTypes'
  BY <1>0, <1>1, <1>2, PoolAssumption DEF RequestTypes
<1>5. ForkedByBegun'
  BY <1>0, <1>2 DEF ForkedByBegun, RequestTypes
<1>6. QueuedOnce'
  <2>1. \A i \in DOMAIN tasks : tasks[i] \in Task /\ (tasks[i].child = "no" => tasks[i].req # r)
    BY <1>0, <1>2 DEF QueuedOnce
  <2>2. /\ DOMAIN tasks' = 1..Len(tasks) + 1 /\ DOMAIN tasks = 1..Len(tasks)
        /\ tasks'[Len(tasks) + 1] = [req |-> r, child |-> "no"]
        /\ \A i \in DOMAIN tasks : tasks'[i] = tasks[i]
        /\ Len(tasks) \in Nat
    BY <1>0, <1>2
  <2> SUFFICES ASSUME NEW i \in DOMAIN tasks', tasks'[i].child = "no"
               PROVE  /\ st'[tasks'[i].req] = "queued"
                      /\ \A j \in DOMAIN tasks' :
                           tasks'[j].child = "no" /\ tasks'[j].req = tasks'[i].req => j = i
    BY DEF QueuedOnce
  <2>3. CASE i = Len(tasks) + 1
    <3>1. tasks'[i].req = r
      BY <2>2, <2>3
    <3>2. ASSUME NEW j \in DOMAIN tasks', tasks'[j].child = "no", tasks'[j].req = r PROVE j = i
      BY <2>1, <2>2, <2>3, <3>2
    <3> QED BY <3>1, <3>2, <1>0, <1>2 DEF RequestTypes
  <2>4. CASE i \in DOMAIN tasks
    <3>1. tasks'[i] = tasks[i] /\ tasks[i].req \in Requests /\ tasks[i].req # r
      BY <2>1, <2>2, <2>4 DEF Task
    <3>2. st'[tasks'[i].req] = "queued"
      BY <3>1, <2>4, <1>0, <1>2 DEF QueuedOnce, RequestTypes
    <3>3. ASSUME NEW j \in DOMAIN tasks', tasks'[j].child = "no",
                 tasks'[j].req = tasks'[i].req
          PROVE  j = i
      <4>1. j \in DOMAIN tasks
        BY <2>2, <3>1, <3>3
      <4> QED BY <4>1, <2>2, <2>4, <3>1, <3>3, <1>0 DEF QueuedOnce
    <3> QED BY <3>2, <3>3
  <2> QED BY <2>2, <2>3, <2>4
<1>7. Busy' = Busy /\ Held' = Held
  BY <1>0, <1>1, <1>2 DEF Busy, Held, RequestTypes
<1>8. RunningCounted'
  BY <1>0, <1>2, <1>7, SameCalls DEF RunningCounted
<1>9. Held \subseteq Busy
  BY DEF Held, Busy
<1>10. SomeFiberFree'
  BY <1>7, <1>9, PushFree DEF Post
<1> QED BY <1>3, <1>4, <1>5, <1>6, <1>8, <1>10 DEF LazyInv

\* A request hands over a call.
LEMMA ForkLazy ==
  ASSUME mode = "lazy", PoolInv, LazyInv, NEW r \in Requests, Fork(r)
  PROVE  LazyInv'
<1>0. /\ LazyPool /\ RequestTypes /\ ForkedByBegun /\ QueuedOnce /\ RunningCounted
      /\ tasks \in Seq(Task)
  BY DEF LazyInv, PoolInv, Counts
<1>1. /\ st[r] = "fork" /\ forked' = [forked EXCEPT ![r] = @ + 1]
      /\ UNCHANGED <<st, calls, left, active, tmp, threadq, checker, ended, stop, running>>
      /\ tasks' = Append(tasks, [req |-> r, child |-> "yes"])
  BY DEF Fork, Push, thread
<1>2. LazyPool'
  BY <1>0, <1>1 DEF LazyPool
<1>3. RequestTypes'
  BY <1>0, <1>1 DEF RequestTypes
<1>4. ForkedByBegun'
  BY <1>0, <1>1 DEF ForkedByBegun, RequestTypes
<1>5. QueuedOnce'
  <2>1. /\ DOMAIN tasks' = 1..Len(tasks) + 1 /\ DOMAIN tasks = 1..Len(tasks)
        /\ tasks'[Len(tasks) + 1].child = "yes"
        /\ \A i \in DOMAIN tasks : tasks'[i] = tasks[i]
        /\ Len(tasks) \in Nat
    BY <1>0, <1>1
  <2>2. \A i \in DOMAIN tasks' : tasks'[i].child = "no" => i \in DOMAIN tasks
    BY <2>1
  <2> QED BY <2>1, <2>2, <1>0, <1>1 DEF QueuedOnce
<1>6. Busy' = Busy
  BY <1>1 DEF Busy
<1>7. RunningCounted'
  BY <1>0, <1>1, <1>6, SameCalls DEF RunningCounted
<1>8. Held' \subseteq Busy
  BY <1>1 DEF Held, Busy
<1>9. SomeFiberFree'
  BY <1>8, PushFree DEF Fork
<1> QED BY <1>2, <1>3, <1>4, <1>5, <1>7, <1>9 DEF LazyInv
\* A fiber takes the first task of the list: the rest of the list stays as it was.
LEMMA TailQueued ==
  ASSUME LazyInv, mode = "lazy", tasks \in Seq(Task), tasks # <<>>, tasks' = Tail(tasks),
         \A q \in Requests :
           st'[q] = st[q] \/ (Head(tasks).child = "no" /\ q = Head(tasks).req)
  PROVE  QueuedOnce'
<1>1. /\ DOMAIN tasks = 1..Len(tasks) /\ Len(tasks) \in Nat \ {0}
      /\ DOMAIN tasks' = 1..(Len(tasks) - 1)
      /\ \A i \in DOMAIN tasks' : tasks'[i] = tasks[i + 1]
      /\ Head(tasks) = tasks[1]
      /\ \A i \in DOMAIN tasks : tasks[i] \in Task
  OBVIOUS
<1>2. \A i \in DOMAIN tasks' : i + 1 \in DOMAIN tasks /\ i + 1 # 1 /\ i \in Int
  BY <1>1
<1>3. QueuedOnce
  BY DEF LazyInv
<1> SUFFICES ASSUME NEW i \in DOMAIN tasks', tasks'[i].child = "no"
             PROVE  /\ st'[tasks'[i].req] = "queued"
                    /\ \A j \in DOMAIN tasks' :
                         tasks'[j].child = "no" /\ tasks'[j].req = tasks'[i].req => j = i
  BY DEF QueuedOnce
<1>4. tasks'[i] = tasks[i + 1] /\ tasks[i + 1].req \in Requests /\ i + 1 \in DOMAIN tasks
  BY <1>1, <1>2 DEF Task
<1>5. ~ (Head(tasks).child = "no" /\ tasks[i + 1].req = Head(tasks).req)
  BY <1>1, <1>2, <1>3, <1>4 DEF QueuedOnce
<1>6. st'[tasks'[i].req] = "queued"
  BY <1>3, <1>4, <1>5 DEF QueuedOnce
<1>7. ASSUME NEW j \in DOMAIN tasks', tasks'[j].child = "no", tasks'[j].req = tasks'[i].req
      PROVE  j = i
  <2>1. j + 1 = i + 1
    BY <1>1, <1>2, <1>3, <1>4, <1>7 DEF QueuedOnce
  <2> QED BY <2>1, <1>2
<1> QED BY <1>6, <1>7

\* A fiber runs: a task begins, or the fiber goes to sleep.
LEMMA RunLazy == ASSUME mode = "lazy", PoolInv, LazyInv, RunFiber PROVE LazyInv'
<1>0. /\ LazyPool /\ RequestTypes /\ ForkedByBegun /\ QueuedOnce /\ RunningCounted
      /\ SomeFiberFree /\ tasks \in Seq(Task) /\ size \in Nat
  BY DEF LazyInv, PoolInv, Counts
<1>1. UNCHANGED <<mode, size, stop, calls, forked, tmp, threadq, checker>> /\ stop = "no"
  BY <1>0 DEF RunFiber, thread, LazyPool
<1>2. CASE tasks = <<>> /\ UNCHANGED <<tasks, ended, running, st, left, active>>
  <2>1. Busy' = Busy /\ Held' = Held /\ RunningCalls' = RunningCalls
    BY <1>1, <1>2, SameSets, SameCalls
  <2>2. LazyPool' /\ RequestTypes' /\ ForkedByBegun' /\ QueuedOnce'
    BY <1>0, <1>1, <1>2 DEF LazyPool, RequestTypes, ForkedByBegun, QueuedOnce
  <2>3. RunningCounted' /\ SomeFiberFree'
    BY <1>0, <1>1, <1>2, <2>1 DEF RunningCounted, SomeFiberFree
  <2> QED BY <2>2, <2>3 DEF LazyInv
<1>3. CASE /\ tasks # <<>> /\ tasks' = Tail(tasks) /\ running' = running + 1
           /\ Begin(Head(tasks)) /\ UNCHANGED ended
  <2> DEFINE q == Head(tasks).req
  <2>1. /\ q \in Requests /\ Head(tasks).child \in {"no", "yes"}
        /\ Head(tasks) = tasks[1] /\ 1 \in DOMAIN tasks
    <3>1. Head(tasks) = tasks[1] /\ 1 \in DOMAIN tasks /\ tasks[1] \in Task
      BY <1>0, <1>3
    <3> QED BY <3>1 DEF Task
  <2>2. LazyPool'
    BY <1>0, <1>1, <1>3 DEF LazyPool
  <2>3. /\ Cardinality(Busy) \in Nat /\ Cardinality(RunningCalls) \in Nat
        /\ IsFiniteSet(RunningCalls) /\ IsFiniteSet(Busy)
        /\ running = Cardinality(Busy) + Cardinality(RunningCalls)
    BY <1>0, RequestSets, HeldRun DEF RunningCounted
  <2>4. size # 0
    BY <1>0, <1>3 DEF SomeFiberFree
  <2> HIDE DEF q
  <2>5. CASE Head(tasks).child = "yes"
    <3>1. active' = [active EXCEPT ![q] = @ + 1] /\ UNCHANGED <<st, left>>
      BY <1>3, <2>5 DEF Begin, q
    <3>2. Busy' = Busy /\ Held' = Held
      BY <1>1, <3>1, SameSets
    <3>3. RequestTypes' /\ ForkedByBegun'
      BY <1>0, <1>1, <2>1, <3>1 DEF RequestTypes, ForkedByBegun
    <3>4. QueuedOnce'
      BY <1>0, <1>3, <3>1, TailQueued
    <3>5. IsFiniteSet(RunningCalls') /\ Cardinality(RunningCalls') = Cardinality(RunningCalls) + 1
      BY <2>1, <2>3, <3>1, <1>0, CallBegins DEF RequestTypes, q
    <3>6. RunningCounted'
      BY <1>3, <2>3, <3>2, <3>5 DEF RunningCounted
    <3>7. SomeFiberFree'
      BY <1>0, <1>1, <2>4, <3>2 DEF SomeFiberFree
    <3> QED BY <2>2, <3>3, <3>4, <3>6, <3>7 DEF LazyInv
  <2>6. CASE Head(tasks).child = "no"
    <3>1. /\ st' = [st EXCEPT ![q] = IF calls[q] = 1 THEN "running" ELSE "fork"]
          /\ left' = [left EXCEPT ![q] = IF calls[q] = 1 THEN 0 ELSE calls[q]]
          /\ UNCHANGED active
      BY <1>3, <2>6 DEF Begin, q
    <3>2. st[q] = "queued" /\ forked[q] = 0 /\ q \in Requests
      BY <1>0, <2>1, <2>6 DEF QueuedOnce, ForkedByBegun, q
    <3>3. /\ st'[q] \in {"running", "fork"}
          /\ \A p \in Requests : p # q => st'[p] = st[p]
      BY <1>0, <3>1, <3>2 DEF RequestTypes
    <3>4. RequestTypes'
      BY <1>0, <1>1, <3>1, <3>2 DEF RequestTypes
    <3>5. ForkedByBegun'
      BY <1>0, <1>1, <3>2, <3>3 DEF ForkedByBegun
    <3>6. QueuedOnce'
      BY <1>0, <1>3, <2>6, <3>3, TailQueued DEF q
    <3>7. Busy' = Busy \cup {q} /\ q \notin Busy
      BY <3>2, <3>3 DEF Busy
    <3>8. RunningCalls' = RunningCalls
      BY <3>1, SameCalls
    <3>9. Cardinality(Busy') = Cardinality(Busy) + 1
      BY <2>3, <3>7, FS_AddElement
    <3>10. RunningCounted'
      BY <1>3, <2>3, <3>8, <3>9 DEF RunningCounted
    <3>11. Held' = Held
      <4>1. calls[q] \in Nat \ {0}
        BY <1>0, <3>2 DEF RequestTypes
      <4>2. q \notin Held' /\ q \notin Held
        BY <1>1, <3>2, <3>3, <4>1 DEF Held
      <4> QED BY <1>1, <3>3, <4>2 DEF Held
    <3>12. SomeFiberFree'
      BY <1>0, <1>1, <2>4, <3>11 DEF SomeFiberFree
    <3> QED BY <2>2, <3>4, <3>5, <3>6, <3>10, <3>12 DEF LazyInv
  <2> QED BY <2>1, <2>5, <2>6
<1> QED BY <1>1, <1>2, <1>3 DEF RunFiber

\* A request that has begun is not in the list, whatever becomes of it.
LEMMA QueuedKept ==
  ASSUME tasks \in Seq(Task), QueuedOnce, tasks' = tasks, NEW r \in Requests, st[r] # "queued",
         \A q \in Requests : q # r => st'[q] = st[q]
  PROVE  QueuedOnce'
<1>1. \A i \in DOMAIN tasks : tasks[i].req \in Requests
  <2>1. \A i \in DOMAIN tasks : tasks[i] \in Task
    OBVIOUS
  <2> QED BY <2>1 DEF Task
<1>2. ASSUME NEW i \in DOMAIN tasks, tasks[i].child = "no"
      PROVE  st'[tasks[i].req] = "queued"
  <2>1. st[tasks[i].req] = "queued"
    BY <1>2 DEF QueuedOnce
  <2> QED BY <1>1, <2>1
<1>3. \A i, j \in DOMAIN tasks :
        tasks[i].child = "no" /\ tasks[j].child = "no" /\ tasks[j].req = tasks[i].req => j = i
  BY DEF QueuedOnce
<1> QED BY <1>2, <1>3 DEF QueuedOnce

\* A call ends, or a request waits or ends: the set of those that keep a fiber does
\* not grow.
LEMMA StepLazy ==
  ASSUME mode = "lazy", PoolInv, LazyInv, NEW r \in Requests,
         CallEnds(r) \/ Wait(r) \/ RequestEnds(r)
  PROVE  LazyInv'
<1>0. /\ LazyPool /\ RequestTypes /\ ForkedByBegun /\ QueuedOnce /\ RunningCounted
      /\ SomeFiberFree /\ tasks \in Seq(Task) /\ size \in Nat
  BY DEF LazyInv, PoolInv, Counts
<1>1. UNCHANGED <<mode, size, tasks, stop, calls, forked, tmp, threadq, checker, ended>>
  BY DEF CallEnds, Wait, RequestEnds, thread
<1>2. LazyPool'
  BY <1>0, <1>1 DEF LazyPool
<1>3. /\ Cardinality(Busy) \in Nat /\ Cardinality(RunningCalls) \in Nat
      /\ IsFiniteSet(RunningCalls) /\ IsFiniteSet(Busy) /\ IsFiniteSet(Held)
      /\ Cardinality(Held) \in Nat
      /\ running = Cardinality(Busy) + Cardinality(RunningCalls)
  BY <1>0, RequestSets, HeldRun DEF RunningCounted
<1>4. CASE CallEnds(r)
  <2>1. /\ active[r] > 0 /\ active' = [active EXCEPT ![r] = @ - 1]
        /\ left' = [left EXCEPT ![r] = @ - 1] /\ running' = running - 1 /\ UNCHANGED st
    BY <1>4 DEF CallEnds, TaskEnds
  <2>2. Busy' = Busy /\ Held' = Held
    BY <1>1, <2>1, SameSets
  <2>3. RequestTypes' /\ ForkedByBegun' /\ QueuedOnce'
    <3>1. RequestTypes'
      <4>1. active \in [Requests -> Nat] /\ left \in [Requests -> Int]
        BY <1>0 DEF RequestTypes
      <4>2. active' \in [Requests -> Nat] /\ left' \in [Requests -> Int]
        BY <2>1, <4>1
      <4> QED BY <1>0, <1>1, <2>1, <4>2 DEF RequestTypes
    <3>2. ForkedByBegun'
      BY <1>0, <1>1, <2>1 DEF ForkedByBegun
    <3>3. QueuedOnce'
      <4>1. QueuedOnce /\ tasks' = tasks /\ st' = st
        BY <1>0, <1>1, <2>1
      <4> QED BY <4>1 DEF QueuedOnce
    <3> QED BY <3>1, <3>2, <3>3
  <2>4. RunningCounted'
    <3>1. active \in [Requests -> Nat]
      BY <1>0 DEF RequestTypes
    <3>2. IsFiniteSet(RunningCalls') /\ Cardinality(RunningCalls') = Cardinality(RunningCalls) - 1
      BY <1>3, <2>1, <3>1, CallEnd
    <3> QED BY <1>3, <2>1, <2>2, <3>2 DEF RunningCounted
  <2>5. SomeFiberFree'
    BY <1>0, <1>1, <2>2 DEF SomeFiberFree
  <2> QED BY <1>2, <2>3, <2>4, <2>5 DEF LazyInv
<1>5. CASE Wait(r)
  <2>1. /\ st[r] = "fork" /\ forked[r] = calls[r]
        /\ st' = [st EXCEPT ![r] = "wait"] /\ UNCHANGED <<left, active, running>>
    BY <1>5 DEF Wait
  <2>2. st'[r] = "wait" /\ \A q \in Requests : q # r => st'[q] = st[q]
    BY <1>0, <2>1 DEF RequestTypes
  <2>3. Busy' = Busy /\ Held' = Held
    BY <1>1, <2>1, <2>2 DEF Busy, Held
  <2>4. RequestTypes' /\ ForkedByBegun'
    BY <1>0, <1>1, <2>1, <2>2 DEF RequestTypes, ForkedByBegun
  <2>5. QueuedOnce'
    BY <1>0, <1>1, <2>1, <2>2, QueuedKept
  <2>6. RunningCounted'
    BY <1>0, <2>1, <2>3, SameCalls DEF RunningCounted
  <2>7. SomeFiberFree'
    BY <1>0, <1>1, <2>3 DEF SomeFiberFree
  <2> QED BY <1>2, <2>4, <2>5, <2>6, <2>7 DEF LazyInv
<1>6. CASE RequestEnds(r)
  <2>1. /\ st[r] \in {"running", "fork", "wait"} /\ running' = running - 1
        /\ st' = [st EXCEPT ![r] = "done"] /\ UNCHANGED <<left, active>>
    BY <1>6 DEF RequestEnds, TaskEnds
  <2>2. st'[r] = "done" /\ \A q \in Requests : q # r => st'[q] = st[q]
    BY <1>0, <2>1 DEF RequestTypes
  <2>3. Busy' = Busy \ {r} /\ r \in Busy /\ Held' \in SUBSET Held
    BY <1>1, <2>1, <2>2 DEF Busy, Held
  <2>4. RequestTypes' /\ ForkedByBegun'
    BY <1>0, <1>1, <2>1, <2>2 DEF RequestTypes, ForkedByBegun
  <2>5. QueuedOnce'
    BY <1>0, <1>1, <2>1, <2>2, QueuedKept
  <2>6. Cardinality(Busy') = Cardinality(Busy) - 1
    BY <1>3, <2>3, FS_RemoveElement
  <2>7. RunningCounted'
    BY <1>0, <1>3, <2>1, <2>6, SameCalls DEF RunningCounted
  <2>8. Cardinality(Held') <= Cardinality(Held) /\ Cardinality(Held') \in Nat
    BY <1>3, <2>3, FS_Subset, FS_CardinalityType
  <2>9. SomeFiberFree'
    BY <1>0, <1>1, <1>3, <2>8, PoolAssumption DEF SomeFiberFree
  <2> QED BY <1>2, <2>4, <2>5, <2>7, <2>9 DEF LazyInv
<1> QED BY <1>4, <1>5, <1>6

\* The lazy pool starts with no fiber, no task and no call.
LEMMA InitLazy == Init => LazyInv
<1> SUFFICES ASSUME Init, mode = "lazy" PROVE LazyInv
  BY DEF LazyInv
<1>1. LazyPool /\ RequestTypes /\ ForkedByBegun /\ QueuedOnce
  BY DEF Init, LazyPool, RequestTypes, ForkedByBegun, QueuedOnce
<1>2. Busy = {} /\ Held = {}
  BY DEF Init, Busy, Held
<1>3. RunningCalls = {}
  <2>1. \A r \in Requests : 1..active[r] = {}
    BY DEF Init
  <2> QED BY <2>1 DEF RunningCalls
<1>4. RunningCounted /\ SomeFiberFree
  BY <1>2, <1>3, FS_EmptySet DEF Init, RunningCounted, SomeFiberFree
<1> QED BY <1>1, <1>4 DEF LazyInv

\* Every step keeps the invariant of the lazy pool.
LEMMA NextLazy == PoolInv /\ LazyInv /\ [Next]_vars => LazyInv'
<1> SUFFICES ASSUME PoolInv, LazyInv, [Next]_vars PROVE LazyInv'
  OBVIOUS
<1>0. mode' = mode
  BY DEF Next, Post, ScheduleTask, RequestStep, Fork, CallEnds, Wait, RequestEnds, CheckTask,
         HandOver, TakeTasks, WaitForThreads, WaitEnds, StopSeen, RunFiber, Stop, Push, vars
<1>1. CASE mode # "lazy"
  BY <1>0, <1>1 DEF LazyInv
<1>2. CASE mode = "lazy"
  <2>1. ASSUME NEW r \in Requests, Post(r) \/ ScheduleTask(r) \/ RequestStep(r)
        PROVE  LazyInv'
    BY <1>2, <2>1, PostLazy, ForkLazy, StepLazy DEF ScheduleTask, RequestStep
  <2>2. ~ CheckTask /\ ~ Stop
    BY <1>2 DEF LazyInv, LazyPool, CheckTask, HandOver, TakeTasks, WaitForThreads, WaitEnds,
                StopSeen, Stop
  <2>3. CASE RunFiber
    BY <1>2, <2>3, RunLazy
  <2>4. CASE UNCHANGED vars
    <3>1. Busy' = Busy /\ Held' = Held /\ RunningCalls' = RunningCalls
      BY <2>4, SameSets, SameCalls DEF vars
    <3>2. LazyPool' /\ RequestTypes' /\ ForkedByBegun' /\ QueuedOnce'
      BY <1>2, <2>4 DEF vars, LazyInv, LazyPool, RequestTypes, ForkedByBegun, QueuedOnce
    <3>3. RunningCounted' /\ SomeFiberFree'
      BY <1>2, <2>4, <3>1 DEF vars, LazyInv, RunningCounted, SomeFiberFree
    <3> QED BY <3>2, <3>3 DEF LazyInv
  <2> QED BY <2>1, <2>2, <2>3, <2>4 DEF Next
<1> QED BY <1>1, <1>2

\* What the invariants say of a pool that cannot make a step.
LEMMA StuckAtLimit == PoolInv /\ LazyInv => GrowsInTime
<1> SUFFICES ASSUME PoolInv, LazyInv, Stuck
             PROVE  size > MaxGrow /\ Cardinality(Waiting) = size
  BY DEF GrowsInTime
<1>0. mode = "lazy" /\ tasks # <<>> /\ ready = 0
  BY DEF Stuck
<1>1. /\ LazyPool /\ RequestTypes /\ RunningCounted /\ SomeFiberFree
      /\ tasks \in Seq(Task) /\ size \in Nat
  BY <1>0 DEF LazyInv, PoolInv, Counts
<1>2. Busy = Waiting /\ Held = Waiting
  BY <1>1 DEF Stuck, Busy, Held, Waiting, RequestTypes
<1>3. RunningCalls = {}
  <2>1. \A r \in Requests : 1..active[r] = {}
    BY DEF Stuck
  <2> QED BY <2>1 DEF RunningCalls
<1>4. running = Cardinality(Waiting)
  BY <1>1, <1>2, <1>3, FS_EmptySet, RequestSets DEF RunningCounted
<1>5. idle = 0
  <2>1. Len(tasks) \in Nat \ {0}
    BY <1>0, <1>1
  <2> QED BY <1>0, <1>1, <2>1 DEF PoolInv, Counts, NoTaskStranded, LazyPool
<1>6. Cardinality(Waiting) = size
  BY <1>0, <1>1, <1>4, <1>5 DEF PoolInv, Counts, FibersCounted, LazyPool
<1>7. size > MaxGrow
  BY <1>0, <1>1, <1>2, <1>6, PoolAssumption DEF SomeFiberFree
<1> QED BY <1>6, <1>7

\* A lazy pool locks up only beyond MAX_GROW_SIZE, and only when each of its fibers
\* is held by a request that waits for its calls: for any number of requests and
\* calls and any initial size, schedule_task_from_fiber grows the pool in time.
THEOREM GrowsBeforeItLocks == Spec => []GrowsInTime
<1>1. Init => PoolInv /\ LazyInv
  BY InitInv, InitLazy
<1>2. (PoolInv /\ LazyInv) /\ [Next]_vars => (PoolInv /\ LazyInv)'
  BY NextInv, NextLazy
<1>3. PoolInv /\ LazyInv => GrowsInTime
  BY StuckAtLimit
<1> QED BY <1>1, <1>2, <1>3, PTL DEF Spec
=============================================================================
