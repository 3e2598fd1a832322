---------------------------- MODULE ServiceStats ----------------------------
(***************************************************************************)
(* The statistics of services.  The sender of FibpLogger counts, while it  *)
(* collects logs, the calls of each service by the second in which they    *)
(* began: curTimeStats has the second that is being counted, serviceStats  *)
(* those that are complete, and when these span more than a window the     *)
(* table is exchanged with recentServiceStats_, under a lock.  A fiber of  *)
(* FibpServiceMgr reports recentServiceStats_ every ten seconds.           *)
(*                                                                         *)
(* Logs are collected in the order in which the requests began, so a call  *)
(* may come after one that began in a later second.                        *)
(***************************************************************************)
EXTENDS Naturals, Sequences, Functions

CONSTANTS Called,       \* services that are called
          Window,       \* 10 in the code
          MaxSecond,    \* bound on the seconds that pass
          MaxCollected, \* bound on the calls that are collected
          ModTime       \* 2^64 in the code

ASSUME StatsAssumption ==
  Window \in Nat /\ MaxSecond \in Nat /\ MaxCollected \in Nat /\ ModTime > 2 * MaxSecond

VARIABLES
  now,         \* the last second in which a call began
  calls,       \* history: for each service the seconds of its calls, as collected
  late,        \* history: services with a call that came after a later one
  curTime,     \* curTimeStats of each service; none: timestamp 0
  stats,       \* serviceStats
  recent,      \* recentServiceStats_
  reporter,    \* reportServiceStats: sleeps or sends
  report       \* its copy

statsVars == <<now, calls, late, curTime, stats, recent, reporter, report>>

Seconds == 1..MaxSecond
NoStats == [s \in Called |-> <<>>]

\* from is history: how many calls of the service were collected before.
Stat(t, n, k) == [timestamp |-> t, requestPerSec |-> n, from |-> k]

StatsInit ==
  /\ now = 1
  /\ calls = [s \in Called |-> <<>>]
  /\ late = {}
  /\ curTime = [s \in Called |-> Stat(0, 0, 0)]
  /\ stats = NoStats /\ recent = NoStats
  /\ reporter = "sleeps" /\ report = NoStats
-----------------------------------------------------------------------------
SecondPasses ==
  /\ now < MaxSecond
  /\ now' = now + 1
  /\ UNCHANGED <<calls, late, curTime, stats, recent, reporter, report>>

\* The difference of two timestamps is unsigned.
Spans(from, to) == (to + ModTime - from) % ModTime > Window

\* Mutant of Emptied: the table that comes back is used as it is.
Emptied_not(table) == table

\* tmpit->second.clear(), for every service of the table that comes back.
Emptied(table) == [s \in DOMAIN table |-> <<>>]

\* The second that was counted is complete.  Its table is full if it spans more than
\* the window, whatever is in it of other services.
Complete(s) ==
  LET done == [stats EXCEPT ![s] = Append(@, curTime[s])]
  IN IF Spans(Head(done[s]).timestamp, curTime[s].timestamp)
     THEN recent' = done /\ stats' = Emptied(recent)
     ELSE stats' = done /\ UNCHANGED recent

MayCollect == FoldFunction(LAMBDA c, n : Len(c) + n, 0, calls) < MaxCollected

\* A call to s that began in second t is collected.
Collected(s, t) ==
  /\ MayCollect
  /\ calls' = [calls EXCEPT ![s] = Append(@, t)]
  /\ late' = IF t < curTime[s].timestamp THEN late \cup {s} ELSE late
  /\ \/ /\ curTime[s].timestamp \in {0, t}
        /\ curTime' = [curTime EXCEPT ![s] = Stat(t, @.requestPerSec + 1, @.from)]
        /\ UNCHANGED <<stats, recent>>
     \/ /\ curTime[s].timestamp \notin {0, t}
        /\ Complete(s)
        /\ curTime' = [curTime EXCEPT ![s] = Stat(t, 1, Len(calls[s]))]
  /\ UNCHANGED <<now, reporter, report>>

\* getRecentServiceStats, under the lock.
getRecentServiceStats == report' = recent

\* The fiber wakes up; it sends what there is.
reportServiceStats ==
  /\ reporter = "sleeps"
  /\ getRecentServiceStats
  /\ reporter' = IF recent = NoStats THEN "sleeps" ELSE "sends"
  /\ UNCHANGED <<now, calls, late, curTime, stats, recent>>

\* The request ends, well or not; nothing is kept of it.
Reported ==
  /\ reporter = "sends"
  /\ reporter' = "sleeps"
  /\ UNCHANGED <<now, calls, late, curTime, stats, recent, report>>

StatsNext ==
  \/ SecondPasses \/ reportServiceStats \/ Reported
  \/ \E s \in Called, t \in {now, now - 1} \cap Seconds : Collected(s, t)
-----------------------------------------------------------------------------
\* The calls that a statistic counts, and where they end.
End(stat) == stat.from + stat.requestPerSec
Counted(stat) == stat.from + 1 .. End(stat)

\* Statistics of calls that were collected one after the other, each of one second.
Consecutive(s, list) ==
  /\ \A i \in 1..Len(list) : \A k \in Counted(list[i]) : calls[s][k] = list[i].timestamp
  /\ \A i \in 1..Len(list) - 1 : End(list[i]) = list[i + 1].from

Ordered(list) == \A i, j \in 1..Len(list) : i < j => list[i].timestamp < list[j].timestamp

\* A statistic has all calls of its second.
Exact(s, list) ==
  \A i \in 1..Len(list) :
    Counted(list[i]) = {k \in 1..Len(calls[s]) : calls[s][k] = list[i].timestamp}

\* Whenever the table is exchanged and whenever it is reported: what was reported last,
\* what has been counted since and the second that is being counted have every call of a
\* service once, up to the last, and so has what is being reported up to its own last; no
\* statistic is of no calls, by whose number the latency is divided; and as long as no
\* call has come late, each second is there once and with all its calls.
StatsOnce ==
  \A s \in Called :
    LET done == recent[s] \o stats[s]
        all == Append(done, curTime[s])
    IN /\ Consecutive(s, all) /\ End(curTime[s]) = Len(calls[s])
       /\ Consecutive(s, report[s])
       /\ \A list \in {done, report[s]} : \A i \in 1..Len(list) : list[i].requestPerSec > 0
       /\ s \notin late => \A list \in {all, report[s]} : Ordered(list) /\ Exact(s, list)

StatsSpec == StatsInit /\ [][StatsNext]_statsVars
=============================================================================
