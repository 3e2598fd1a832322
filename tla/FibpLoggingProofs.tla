-------------------------- MODULE FibpLoggingProofs --------------------------
(***************************************************************************)
(* Proofs about the logger.  For any number of requests and any ring,      *)
(* batch and number of ids: a request owns its slot, and no log is sent    *)
(* twice.  For any number of services and any window: every call is        *)
(* counted once, in its second.                                            *)
(*                                                                         *)
(* LogInv is the inductive invariant of FibpLogger.  OwnSlot alone is not  *)
(* preserved by endServiceCall unless two running requests have different  *)
(* ids, nor by the sender's reset unless only marked slots are reset; and  *)
(* that the sender is not ahead of the ring needs that it passes marked    *)
(* slots only.                                                             *)
(*                                                                         *)
(* StatsInv is the inductive invariant of ServiceStats.  StatsOnce alone   *)
(* does not say that the calls of the second that is being counted end     *)
(* where a new call begins, that a complete second was ended by a call of  *)
(* another one, nor that calls which are not late are in order.            *)
(***************************************************************************)
EXTENDS FibpLogging, SequenceTheorems, TLAPS

-----------------------------------------------------------------------------
(* The statistics.                                                         *)

StatRec == [timestamp : Nat, requestPerSec : Nat, from : Nat]

\* A statistic counts a run of the calls c, all of one second, which the call before is
\* not of.
Begun(c, e) ==
  /\ \A k \in Counted(e) : c[k] = e.timestamp
  /\ e.from > 0 => c[e.from] # e.timestamp

\* It is complete: a call of another second has come.
Finished(c, e) ==
  /\ Begun(c, e)
  /\ e.requestPerSec > 0
  /\ End(e) < Len(c)
  /\ c[End(e) + 1] # e.timestamp

\* A list of complete statistics, in the order of the calls, without gaps.
Chain(c, list) ==
  /\ \A i \in 1..Len(list) : Finished(c, list[i])
  /\ \A i \in 1..Len(list) - 1 : End(list[i]) = list[i + 1].from
  /\ \A i, j \in 1..Len(list) : i < j => End(list[i]) <= list[j].from

\* The list leads up to a statistic.
LeadsTo(list, e) ==
  /\ \A i \in 1..Len(list) : End(list[i]) <= e.from
  /\ list # <<>> => End(list[Len(list)]) = e.from

StatTypes ==
  /\ calls \in [Called -> Seq(Seconds)]
  /\ curTime \in [Called -> StatRec]
  /\ stats \in [Called -> Seq(StatRec)]
  /\ recent \in [Called -> Seq(StatRec)]
  /\ report \in [Called -> Seq(StatRec)]

\* The second that is being counted is that of the last call.
LastCall(s) ==
  /\ Begun(calls[s], curTime[s])
  /\ End(curTime[s]) = Len(calls[s])
  /\ calls[s] = <<>> => curTime[s].timestamp = 0
  /\ calls[s] # <<>> => /\ curTime[s].timestamp = calls[s][Len(calls[s])]
                        /\ curTime[s].requestPerSec > 0

\* No call has come late: the calls are in the order of their seconds.
Sorted(c) == \A i, j \in 1..Len(c) : i <= j => c[i] <= c[j]
InOrder(s) == s \notin late => Sorted(calls[s])

Listed(s) ==
  /\ Chain(calls[s], recent[s] \o stats[s])
  /\ LeadsTo(recent[s] \o stats[s], curTime[s])
  /\ Chain(calls[s], report[s])
  /\ Chain(calls[s], recent[s])

StatsInv ==
  /\ StatTypes
  /\ \A s \in Called : LastCall(s) /\ InOrder(s) /\ Listed(s)
-----------------------------------------------------------------------------
\* What is appended to the second part of a list is appended to the list.
LEMMA ConcatAppend ==
  ASSUME NEW a \in Seq(StatRec), NEW b \in Seq(StatRec), NEW x \in StatRec
  PROVE  a \o Append(b, x) = Append(a \o b, x)
<1>1. a \o b \in Seq(StatRec) /\ <<x>> \in Seq(StatRec)
  BY ConcatProperties
<1>2. Append(b, x) = b \o <<x>> /\ Append(a \o b, x) = (a \o b) \o <<x>>
  BY <1>1, AppendIsConcat
<1> QED BY <1>1, <1>2, ConcatAssociative

\* A call more changes nothing that was counted before it.
LEMMA ChainKept ==
  ASSUME NEW c \in Seq(Seconds), NEW t \in Seconds, NEW list \in Seq(StatRec), Chain(c, list)
  PROVE  Chain(Append(c, t), list)
<1> DEFINE d == Append(c, t)
<1>1. Len(c) \in Nat /\ Len(d) = Len(c) + 1 /\ \A k \in 1..Len(c) : d[k] = c[k]
  OBVIOUS
<1> HIDE DEF d
<1>2. ASSUME NEW e \in StatRec, Finished(c, e) PROVE Finished(d, e)
  <2>1. e.from \in Nat /\ e.requestPerSec \in Nat
    BY DEF StatRec
  <2>2. Counted(e) \subseteq 1..Len(c) /\ End(e) + 1 \in 1..Len(c)
    BY <1>1, <1>2, <2>1 DEF Finished, Counted, End
  <2>3. e.from > 0 => e.from \in 1..Len(c)
    BY <1>1, <1>2, <2>1 DEF Finished, End
  <2>4. Begun(d, e)
    BY <1>1, <1>2, <2>2, <2>3 DEF Finished, Begun
  <2>5. End(e) < Len(d) /\ d[End(e) + 1] # e.timestamp
    BY <1>1, <1>2, <2>1, <2>2 DEF Finished, End
  <2> QED BY <1>2, <2>4, <2>5 DEF Finished
<1>3. \A i \in 1..Len(list) : list[i] \in StatRec
  OBVIOUS
<1> QED BY <1>2, <1>3 DEF Chain, d

\* The later part of a list.
LEMMA ChainSuffix ==
  ASSUME NEW q, NEW a \in Seq(StatRec), NEW b \in Seq(StatRec), NEW e \in StatRec,
         Chain(q, a \o b), LeadsTo(a \o b, e)
  PROVE  Chain(q, b) /\ LeadsTo(b, e)
<1> DEFINE c == a \o b
<1>1. /\ c \in Seq(StatRec) /\ Len(c) = Len(a) + Len(b) /\ Len(a) \in Nat /\ Len(b) \in Nat
      /\ \A i \in 1..Len(b) : i + Len(a) \in 1..Len(c) /\ c[i + Len(a)] = b[i]
  BY ConcatProperties
<1> HIDE DEF c
<1>2. Chain(q, c) /\ LeadsTo(c, e)
  BY DEF c
<1>3. \A i \in 1..Len(b) : Finished(q, b[i]) /\ End(b[i]) <= e.from
  BY <1>1, <1>2 DEF Chain, LeadsTo
<1>4. \A i \in 1..Len(b) - 1 : End(b[i]) = b[i + 1].from
  <2> SUFFICES ASSUME NEW i \in 1..Len(b) - 1 PROVE End(b[i]) = b[i + 1].from
    OBVIOUS
  <2>1. i + Len(a) \in 1..Len(c) - 1 /\ (i + 1) + Len(a) = (i + Len(a)) + 1
    BY <1>1
  <2>2. b[i] = c[i + Len(a)] /\ b[i + 1] = c[(i + Len(a)) + 1]
    BY <1>1, <2>1
  <2> QED BY <1>2, <2>1, <2>2 DEF Chain
<1>5. \A i, j \in 1..Len(b) : i < j => End(b[i]) <= b[j].from
  <2> SUFFICES ASSUME NEW i \in 1..Len(b), NEW j \in 1..Len(b), i < j
               PROVE  End(b[i]) <= b[j].from
    OBVIOUS
  <2>1. i + Len(a) < j + Len(a)
    BY <1>1
  <2> QED BY <1>1, <1>2, <2>1 DEF Chain
<1>6. b # <<>> => End(b[Len(b)]) = e.from
  <2> SUFFICES ASSUME b # <<>> PROVE End(b[Len(b)]) = e.from
    OBVIOUS
  <2>1. Len(b) \in 1..Len(b) /\ c # <<>> /\ c[Len(c)] = b[Len(b)]
    BY <1>1
  <2> QED BY <1>2, <2>1 DEF LeadsTo
<1> QED BY <1>3, <1>4, <1>5, <1>6 DEF Chain, LeadsTo

\* One statistic more at the end of a list.
LEMMA ChainAppend ==
  ASSUME NEW q, NEW a \in Seq(StatRec), NEW e \in StatRec, NEW f \in StatRec,
         Chain(q, a), LeadsTo(a, e), Finished(q, e), End(e) = f.from
  PROVE  Chain(q, Append(a, e)) /\ LeadsTo(Append(a, e), f)
<1> DEFINE c == Append(a, e)
<1>1. /\ c \in Seq(StatRec) /\ Len(c) = Len(a) + 1 /\ Len(a) \in Nat /\ c # <<>>
      /\ \A i \in 1..Len(a) : c[i] = a[i]
      /\ c[Len(c)] = e
  OBVIOUS
<1> HIDE DEF c
<1>2. \A x \in StatRec : x.from \in Nat /\ End(x) \in Nat /\ End(x) >= x.from
  BY DEF End, StatRec
<1>3. \A i \in 1..Len(c) : Finished(q, c[i]) /\ c[i] \in StatRec
  BY <1>1 DEF Chain
<1>4. \A i \in 1..Len(c) - 1 : End(c[i]) = c[i + 1].from
  <2> SUFFICES ASSUME NEW i \in 1..Len(c) - 1 PROVE End(c[i]) = c[i + 1].from
    OBVIOUS
  <2>1. CASE i = Len(a)
    <3>1. a # <<>> /\ c[i] = a[Len(a)] /\ c[i + 1] = e
      BY <2>1, <1>1
    <3> QED BY <3>1 DEF LeadsTo
  <2>2. CASE i # Len(a)
    <3>1. i \in 1..Len(a) - 1 /\ c[i] = a[i] /\ c[i + 1] = a[i + 1]
      BY <2>2, <1>1
    <3> QED BY <3>1 DEF Chain
  <2> QED BY <2>1, <2>2
<1>5. \A i, j \in 1..Len(c) : i < j => End(c[i]) <= c[j].from
  BY <1>1 DEF Chain, LeadsTo
<1>6. LeadsTo(c, f)
  <2>1. \A i \in 1..Len(c) : End(c[i]) <= f.from
    <3> SUFFICES ASSUME NEW i \in 1..Len(c) PROVE End(c[i]) <= f.from
      OBVIOUS
    <3>1. CASE i = Len(c)
      BY <3>1, <1>1, <1>2
    <3>2. CASE i # Len(c)
      <4>1. i \in 1..Len(a) /\ c[i] = a[i] /\ a[i] \in StatRec
        BY <3>2, <1>1
      <4>2. End(c[i]) <= e.from /\ e.from <= End(e) /\ End(c[i]) \in Nat /\ e.from \in Nat /\ End(e) \in Nat
        BY <4>1, <1>2 DEF LeadsTo
      <4> QED BY <4>2
    <3> QED BY <3>1, <3>2
  <2> QED BY <2>1, <1>1 DEF LeadsTo
<1> QED BY <1>3, <1>4, <1>5, <1>6 DEF Chain, c

\* Initially nothing has been counted.
LEMMA StatsInvInit == StatsInit => StatsInv
<1> SUFFICES ASSUME StatsInit PROVE StatsInv
  OBVIOUS
<1>1. /\ calls = [s \in Called |-> <<>>] /\ curTime = [s \in Called |-> Stat(0, 0, 0)]
      /\ stats = [s \in Called |-> <<>>] /\ recent = [s \in Called |-> <<>>]
      /\ report = [s \in Called |-> <<>>]
  BY DEF StatsInit, NoStats
<1>2. /\ Stat(0, 0, 0) \in StatRec /\ Stat(0, 0, 0).timestamp = 0
      /\ Stat(0, 0, 0).from = 0 /\ Stat(0, 0, 0).requestPerSec = 0
  BY DEF Stat, StatRec
<1>3. StatTypes
  BY <1>1, <1>2 DEF StatTypes
<1> SUFFICES ASSUME NEW s \in Called PROVE LastCall(s) /\ InOrder(s) /\ Listed(s)
  BY <1>3 DEF StatsInv
<1>4. /\ calls[s] = <<>> /\ Len(calls[s]) = 0 /\ curTime[s] = Stat(0, 0, 0)
      /\ recent[s] \o stats[s] = <<>> /\ recent[s] = <<>> /\ report[s] = <<>>
  BY <1>1
<1>5. LastCall(s)
  BY <1>2, <1>4 DEF LastCall, Begun, Counted, End
<1>6. InOrder(s)
  BY <1>4 DEF InOrder, Sorted
<1>7. Listed(s)
  BY <1>4 DEF Listed, Chain, LeadsTo
<1> QED BY <1>5, <1>6, <1>7

\* The clock, and the reporter, that copies recentServiceStats_.
LEMMA ReportKeeps ==
  ASSUME StatsInv, UNCHANGED <<calls, late, curTime, stats, recent>>, report' = report \/ report' = recent
  PROVE  StatsInv'
<1>1. StatTypes'
  BY DEF StatsInv, StatTypes
<1>2. ASSUME NEW s \in Called PROVE (LastCall(s) /\ InOrder(s) /\ Listed(s))'
  <2>1. LastCall(s)' /\ InOrder(s)'
    BY DEF StatsInv, LastCall, InOrder
  <2>2. Listed(s)'
    BY DEF StatsInv, Listed
  <2> QED BY <2>1, <2>2
<1> QED BY <1>1, <1>2 DEF StatsInv

\* A service of which no call was collected: its lists stay, or are exchanged.
LEMMA OthersKeep ==
  ASSUME StatsInv, NEW u \in Called, calls'[u] = calls[u], curTime'[u] = curTime[u],
         u \in late' <=> u \in late, report' = report,
         \/ recent'[u] = recent[u] /\ stats'[u] = stats[u]
         \/ recent'[u] = stats[u] /\ stats'[u] = <<>>
  PROVE  (LastCall(u) /\ InOrder(u) /\ Listed(u))'
<1>1. /\ LastCall(u) /\ InOrder(u) /\ Listed(u)
      /\ recent[u] \in Seq(StatRec) /\ stats[u] \in Seq(StatRec) /\ curTime[u] \in StatRec
  BY DEF StatsInv, StatTypes
<1>2. LastCall(u)' /\ InOrder(u)'
  BY <1>1 DEF LastCall, InOrder
<1>4. Chain(calls[u], stats[u]) /\ LeadsTo(stats[u], curTime[u])
  BY <1>1, ChainSuffix DEF Listed
<1>5. CASE recent'[u] = recent[u] /\ stats'[u] = stats[u]
  BY <1>1, <1>2, <1>5 DEF Listed
<1>6. CASE recent'[u] = stats[u] /\ stats'[u] = <<>>
  <2>1. recent'[u] \o stats'[u] = stats[u]
    BY <1>1, <1>6, ConcatEmptySeq
  <2> QED BY <1>1, <1>2, <1>4, <1>6, <2>1 DEF Listed
<1> QED BY <1>5, <1>6

\* One call more, for the second that is being counted.
LEMMA SameSecond ==
  ASSUME NEW c \in Seq(Seconds), NEW t \in Seconds, NEW e \in StatRec,
         Begun(c, e), End(e) = Len(c), c = <<>> => e.timestamp = 0,
         c # <<>> => e.timestamp = c[Len(c)], e.timestamp \in {0, t}
  PROVE  /\ Begun(Append(c, t), Stat(t, e.requestPerSec + 1, e.from))
         /\ Stat(t, e.requestPerSec + 1, e.from) \in StatRec
         /\ End(Stat(t, e.requestPerSec + 1, e.from)) = Len(c) + 1
<1> DEFINE d == Append(c, t)
           f == Stat(t, e.requestPerSec + 1, e.from)
<1>1. /\ Len(c) \in Nat /\ Len(d) = Len(c) + 1 /\ \A k \in 1..Len(c) : d[k] = c[k] /\ c[k] \in Seconds
      /\ d[Len(c) + 1] = t /\ (c = <<>> <=> Len(c) = 0)
  OBVIOUS
<1>2. t \in Nat /\ t > 0 /\ \A x \in Seconds : x \in Nat /\ x > 0
  BY StatsAssumption DEF Seconds
<1>3. e.timestamp \in Nat /\ e.requestPerSec \in Nat /\ e.from \in Nat
  BY DEF StatRec
<1>4. f.timestamp = t /\ f.requestPerSec = e.requestPerSec + 1 /\ f.from = e.from /\ f \in StatRec
  BY <1>2, <1>3 DEF Stat, StatRec
<1> HIDE DEF d, f
<1>5. End(f) = Len(c) + 1 /\ Counted(f) = e.from + 1 .. Len(c) + 1 /\ Counted(e) = e.from + 1 .. Len(c)
  BY <1>1, <1>3, <1>4 DEF End, Counted
<1>6. e.from \in 0..Len(c)
  BY <1>1, <1>3 DEF End
<1>7. Len(c) > 0 => e.timestamp = t
  BY <1>1, <1>2
<1>8. \A k \in Counted(f) : d[k] = t
  <2> SUFFICES ASSUME NEW k \in Counted(f) PROVE d[k] = t
    OBVIOUS
  <2>1. CASE k = Len(c) + 1
    BY <2>1, <1>1
  <2>2. CASE k # Len(c) + 1
    <3>1. k \in Counted(e) /\ k \in 1..Len(c) /\ Len(c) > 0
      BY <2>2, <1>1, <1>3, <1>5
    <3> QED BY <3>1, <1>1, <1>7 DEF Begun
  <2> QED BY <2>1, <2>2
<1>9. f.from > 0 => d[f.from] # t
  BY <1>1, <1>4, <1>6, <1>7 DEF Begun
<1>10. Begun(d, f)
  BY <1>4, <1>8, <1>9 DEF Begun
<1> QED BY <1>4, <1>5, <1>10 DEF d, f

\* A call of another second completes the one that was counted.
LEMMA OtherSecond ==
  ASSUME NEW c \in Seq(Seconds), NEW t \in Seconds, NEW e \in StatRec,
         Begun(c, e), End(e) = Len(c), c # <<>>, e.timestamp = c[Len(c)],
         e.requestPerSec > 0, e.timestamp # t
  PROVE  /\ Finished(Append(c, t), e)
         /\ Begun(Append(c, t), Stat(t, 1, Len(c)))
         /\ Stat(t, 1, Len(c)) \in StatRec
         /\ End(Stat(t, 1, Len(c))) = Len(c) + 1
         /\ End(e) = Stat(t, 1, Len(c)).from
<1> DEFINE d == Append(c, t)
           f == Stat(t, 1, Len(c))
<1>1. /\ Len(c) \in Nat /\ Len(c) > 0 /\ Len(d) = Len(c) + 1
      /\ \A k \in 1..Len(c) : d[k] = c[k]
      /\ d[Len(c) + 1] = t
  OBVIOUS
<1>2. t \in Nat
  BY StatsAssumption DEF Seconds
<1>3. e.timestamp \in Nat /\ e.requestPerSec \in Nat /\ e.from \in Nat
  BY DEF StatRec
<1>4. f.timestamp = t /\ f.requestPerSec = 1 /\ f.from = Len(c) /\ f \in StatRec
  BY <1>1, <1>2 DEF Stat, StatRec
<1> HIDE DEF d, f
<1>5. End(f) = Len(c) + 1 /\ Counted(f) = {Len(c) + 1} /\ Counted(e) = e.from + 1 .. Len(c)
  BY <1>1, <1>3, <1>4 DEF End, Counted
<1>6. e.from \in 0..Len(c) /\ Counted(e) \subseteq 1..Len(c)
  BY <1>1, <1>3, <1>5 DEF End
<1>7. Begun(d, e)
  BY <1>1, <1>6 DEF Begun
<1>8. Finished(d, e)
  BY <1>1, <1>7 DEF Finished
<1>9. Begun(d, f)
  BY <1>1, <1>4, <1>5 DEF Begun
<1> QED BY <1>4, <1>5, <1>8, <1>9 DEF d, f

\* The calls stay in order unless one has come late.
LEMMA OrderKept ==
  ASSUME NEW c \in Seq(Seconds), NEW t \in Seconds, c # <<>> => c[Len(c)] <= t,
         Sorted(c)
  PROVE  Sorted(Append(c, t))
<1> DEFINE d == Append(c, t)
<1>1. /\ Len(c) \in Nat /\ Len(d) = Len(c) + 1 /\ \A k \in 1..Len(c) : d[k] = c[k] /\ c[k] \in Seconds
      /\ d[Len(c) + 1] = t /\ (c = <<>> <=> Len(c) = 0)
  OBVIOUS
<1>2. \A x \in Seconds : x \in Nat
  BY StatsAssumption DEF Seconds
<1> HIDE DEF d
<1> SUFFICES ASSUME NEW i \in 1..Len(d), NEW j \in 1..Len(d), i <= j PROVE d[i] <= d[j]
  BY DEF d, Sorted
<1>3. CASE j <= Len(c)
  BY <1>1, <1>3 DEF Sorted
<1>4. CASE j = Len(c) + 1
  <2>1. CASE i = Len(c) + 1
    BY <1>1, <1>2, <1>4, <2>1
  <2>2. CASE i # Len(c) + 1
    <3>1. i \in 1..Len(c) /\ Len(c) \in 1..Len(c) /\ i <= Len(c) /\ c # <<>>
      BY <1>1, <2>2
    <3>2. d[i] = c[i] /\ c[i] <= c[Len(c)] /\ c[Len(c)] <= t /\ c[i] \in Nat /\ c[Len(c)] \in Nat /\ t \in Nat
      BY <3>1, <1>1, <1>2 DEF Sorted
    <3> QED BY <3>2, <1>1, <1>4
  <2> QED BY <2>1, <2>2
<1> QED BY <1>1, <1>3, <1>4

\* sendLogToDB collects a call: of the second that is being counted, or of another one,
\* and then the tables may be exchanged.
LEMMA CallKeeps ==
  ASSUME StatsInv, NEW s \in Called, NEW t \in Seconds, Collected(s, t)
  PROVE  StatsInv'
<1> DEFINE c == calls[s]
           e == curTime[s]
           before == recent[s] \o stats[s]
<1>1. /\ c \in Seq(Seconds) /\ e \in StatRec /\ recent[s] \in Seq(StatRec) /\ stats[s] \in Seq(StatRec)
      /\ report[s] \in Seq(StatRec) /\ before \in Seq(StatRec)
      /\ Begun(c, e) /\ End(e) = Len(c) /\ (c = <<>> => e.timestamp = 0)
      /\ (c # <<>> => e.timestamp = c[Len(c)] /\ e.requestPerSec > 0)
      /\ Chain(c, before) /\ LeadsTo(before, e) /\ Chain(c, report[s]) /\ Chain(c, recent[s])
      /\ s \notin late => Sorted(c)
  BY ConcatProperties DEF StatsInv, StatTypes, LastCall, InOrder, Listed
<1>2. /\ calls' = [calls EXCEPT ![s] = Append(c, t)] /\ report' = report
      /\ late' = IF t < e.timestamp THEN late \cup {s} ELSE late
  BY DEF Collected
<1>3. calls'[s] = Append(c, t) /\ \A u \in Called : u # s => calls'[u] = calls[u]
  BY <1>2 DEF StatsInv, StatTypes
<1>4. InOrder(s)'
  <2> SUFFICES ASSUME s \notin late' PROVE Sorted(Append(c, t))
    BY <1>3 DEF InOrder
  <2>1. s \notin late /\ ~(t < e.timestamp)
    BY <1>2
  <2>2. t \in Nat /\ e.timestamp \in Nat
    BY <1>1, StatsAssumption DEF Seconds, StatRec
  <2>3. c # <<>> => c[Len(c)] <= t
    BY <1>1, <2>1, <2>2
  <2> HIDE DEF c
  <2> QED BY <1>1, <2>1, <2>3, OrderKept
<1>5. Chain(Append(c, t), before) /\ Chain(Append(c, t), report[s]) /\ Chain(Append(c, t), recent[s])
  <2> HIDE DEF c, before
  <2> QED BY <1>1, ChainKept
<1>6. Len(Append(c, t)) = Len(c) + 1 /\ Append(c, t) # <<>> /\ Append(c, t)[Len(c) + 1] = t
      /\ Append(c, t) \in Seq(Seconds)
  <2>1. c \in Seq(Seconds) /\ Len(c) \in Nat
    BY <1>1
  <2> HIDE DEF c
  <2> QED BY <2>1
<1>7. \A u \in Called : u # s => (u \in late' <=> u \in late)
  BY <1>2
<1>8. calls' \in [Called -> Seq(Seconds)] /\ report' \in [Called -> Seq(StatRec)]
  BY <1>2, <1>6 DEF StatsInv, StatTypes
<1> HIDE DEF c, e, before
<1>9. CASE e.timestamp \in {0, t}
  <2> DEFINE f == Stat(t, e.requestPerSec + 1, e.from)
  <2>1. curTime' = [curTime EXCEPT ![s] = f] /\ stats' = stats /\ recent' = recent
    BY <1>9 DEF Collected, e
  <2>2. Begun(Append(c, t), f) /\ f \in StatRec /\ End(f) = Len(c) + 1
    BY <1>1, <1>9, SameSecond
  <2>3. f.timestamp = t /\ f.requestPerSec > 0 /\ f.from = e.from
    BY <1>1 DEF Stat, StatRec
  <2> HIDE DEF f
  <2>4. curTime'[s] = f /\ \A u \in Called : u # s => curTime'[u] = curTime[u]
    BY <2>1 DEF StatsInv, StatTypes
  <2>5. StatTypes'
    BY <1>8, <2>1, <2>2 DEF StatsInv, StatTypes
  <2>6. LastCall(s)'
    BY <1>3, <1>6, <2>2, <2>3, <2>4 DEF LastCall
  <2>7. LeadsTo(before, f)
    BY <1>1, <2>3 DEF LeadsTo
  <2>8. Listed(s)'
    BY <1>2, <1>3, <1>5, <2>1, <2>4, <2>7 DEF Listed, before
  <2>9. \A u \in Called : u # s => (LastCall(u) /\ InOrder(u) /\ Listed(u))'
    BY <1>2, <1>3, <1>7, <2>1, <2>4, OthersKeep
  <2> QED BY <1>4, <2>5, <2>6, <2>8, <2>9 DEF StatsInv
<1>10. CASE e.timestamp \notin {0, t}
  <2> DEFINE f == Stat(t, 1, Len(c))
             done == [stats EXCEPT ![s] = Append(@, e)]
  <2>1. /\ curTime' = [curTime EXCEPT ![s] = f]
        /\ \/ recent' = done /\ stats' = Emptied(recent)
           \/ stats' = done /\ recent' = recent
    BY <1>10 DEF Collected, Complete, e, c
  <2>2. c # <<>> /\ e.timestamp # t
    BY <1>1, <1>10
  <2>3. /\ Finished(Append(c, t), e) /\ Begun(Append(c, t), f) /\ f \in StatRec
        /\ End(f) = Len(c) + 1 /\ End(e) = f.from
    BY <1>1, <2>2, OtherSecond
  <2>4. f.timestamp = t /\ f.requestPerSec > 0
    BY DEF Stat
  <2>5. Append(stats[s], e) \in Seq(StatRec) /\ recent[s] \o Append(stats[s], e) = Append(before, e)
    <3>1. Append(stats[s], e) \in Seq(StatRec)
      BY <1>1
    <3>2. recent[s] \in Seq(StatRec) /\ stats[s] \in Seq(StatRec) /\ e \in StatRec
      BY <1>1
    <3>3. recent[s] \o Append(stats[s], e) = Append(recent[s] \o stats[s], e)
      BY <3>2, ConcatAppend
    <3> QED BY <3>1, <3>3 DEF before
  <2>6. /\ done[s] = Append(stats[s], e) /\ \A u \in Called : u # s => done[u] = stats[u]
        /\ done \in [Called -> Seq(StatRec)]
    BY <2>5 DEF StatsInv, StatTypes
  <2> HIDE DEF f, done
  <2>7. curTime'[s] = f /\ \A u \in Called : u # s => curTime'[u] = curTime[u]
    BY <2>1 DEF StatsInv, StatTypes
  <2>8. Emptied(recent) \in [Called -> Seq(StatRec)] /\ \A u \in Called : Emptied(recent)[u] = <<>>
    BY DEF Emptied, StatsInv, StatTypes
  <2>9. StatTypes'
    BY <1>8, <2>1, <2>3, <2>6, <2>8 DEF StatsInv, StatTypes
  <2>10. LastCall(s)'
    BY <1>3, <1>6, <2>3, <2>4, <2>7 DEF LastCall
  <2>11. Chain(Append(c, t), Append(before, e)) /\ LeadsTo(Append(before, e), f)
    BY <1>1, <1>5, <2>3, ChainAppend
  <2>12. Listed(s)'
    <3>1. CASE stats' = done /\ recent' = recent
      BY <1>2, <1>3, <1>5, <2>5, <2>6, <2>7, <2>11, <3>1 DEF Listed
    <3>2. CASE recent' = done /\ stats' = Emptied(recent)
      <4>1. Chain(Append(c, t), Append(stats[s], e)) /\ LeadsTo(Append(stats[s], e), f)
        <5>1. Append(stats[s], e) \in Seq(StatRec) /\ recent[s] \in Seq(StatRec) /\ f \in StatRec
          BY <1>1, <2>3, <2>5
        <5>2. /\ Chain(Append(c, t), recent[s] \o Append(stats[s], e))
              /\ LeadsTo(recent[s] \o Append(stats[s], e), f)
          BY <2>5, <2>11
        <5> QED BY <5>1, <5>2, ChainSuffix
      <4>2. recent'[s] \o stats'[s] = Append(stats[s], e) /\ recent'[s] = Append(stats[s], e)
        BY <2>5, <2>6, <2>8, <3>2, ConcatEmptySeq
      <4> QED BY <1>2, <1>3, <1>5, <2>7, <4>1, <4>2 DEF Listed
    <3> QED BY <2>1, <3>1, <3>2
  <2>13. \A u \in Called : u # s => (LastCall(u) /\ InOrder(u) /\ Listed(u))'
    BY <1>2, <1>3, <1>7, <2>1, <2>6, <2>7, <2>8, OthersKeep
  <2> QED BY <1>4, <2>9, <2>10, <2>12, <2>13 DEF StatsInv
<1> QED BY <1>9, <1>10

\* Every step keeps the invariant.
LEMMA StatsStep == ASSUME StatsInv, [StatsNext]_statsVars PROVE StatsInv'
<1>1. CASE SecondPasses \/ reportServiceStats \/ Reported \/ UNCHANGED statsVars
  BY <1>1, ReportKeeps
  DEF SecondPasses, reportServiceStats, getRecentServiceStats, Reported, statsVars
<1>2. ASSUME NEW s \in Called, NEW t \in {now, now - 1} \cap Seconds, Collected(s, t)
      PROVE  StatsInv'
  BY <1>2, CallKeeps
<1> QED BY <1>1, <1>2 DEF StatsNext

\* In a list of complete statistics of calls that came in order, each second is there
\* once and with all its calls.
LEMMA ChainExact ==
  ASSUME NEW c \in Seq(Seconds), NEW e \in StatRec, e.from <= End(e), End(e) <= Len(c), Begun(c, e),
         End(e) < Len(c) => c[End(e) + 1] # e.timestamp,
         e.requestPerSec > 0 \/ Len(c) = 0,
         Sorted(c)
  PROVE  Counted(e) = {k \in 1..Len(c) : c[k] = e.timestamp}
<1>1. /\ e.from \in Nat /\ e.requestPerSec \in Nat /\ e.timestamp \in Nat /\ Len(c) \in Nat
  BY DEF StatRec
<1>2. End(e) = e.from + e.requestPerSec /\ Counted(e) = e.from + 1 .. e.from + e.requestPerSec
  BY DEF End, Counted
<1>3. \A k \in 1..Len(c) : c[k] \in Nat
  BY StatsAssumption DEF Seconds
<1>4. Counted(e) \subseteq 1..Len(c)
  BY <1>1, <1>2
<1>5. ASSUME NEW k \in 1..Len(c), c[k] = e.timestamp, k \notin Counted(e) PROVE FALSE
  <2>1. e.requestPerSec > 0
    BY <1>1, <1>5
  <2>2. End(e) \in Counted(e) /\ e.from + 1 \in Counted(e)
    BY <1>1, <1>2, <2>1
  <2>3. c[End(e)] = e.timestamp /\ c[e.from + 1] = e.timestamp
    BY <2>2 DEF Begun
  <2>4. End(e) \in 1..Len(c) /\ e.from + 1 \in 1..Len(c)
    BY <1>4, <2>2
  <2>5. CASE k <= e.from
    <3>1. e.from \in 1..Len(c) /\ e.from <= e.from + 1 /\ e.from > 0
      BY <1>1, <2>4, <2>5
    <3>2. c[k] <= c[e.from]
      BY <2>5, <3>1 DEF Sorted
    <3>3. c[e.from] <= c[e.from + 1]
      BY <2>4, <3>1 DEF Sorted
    <3>4. c[e.from] \in Nat
      BY <1>3, <3>1
    <3>5. c[e.from] = e.timestamp
      BY <1>1, <1>5, <2>3, <3>2, <3>3, <3>4
    <3> QED BY <3>1, <3>5 DEF Begun
  <2>6. CASE k > End(e)
    <3>1. End(e) + 1 \in 1..Len(c) /\ End(e) < Len(c) /\ End(e) <= End(e) + 1 /\ End(e) + 1 <= k
      BY <1>1, <1>2, <2>6
    <3>2. c[End(e)] <= c[End(e) + 1]
      BY <2>4, <3>1 DEF Sorted
    <3>3. c[End(e) + 1] <= c[k]
      BY <3>1 DEF Sorted
    <3>4. c[End(e) + 1] \in Nat
      BY <1>3, <3>1
    <3>5. c[End(e) + 1] = e.timestamp
      BY <1>1, <1>5, <2>3, <3>2, <3>3, <3>4
    <3> QED BY <3>1, <3>5
  <2> QED BY <1>1, <1>2, <1>5, <2>5, <2>6
<1> QED BY <1>4, <1>5 DEF Begun

\* The seconds of two statistics, one of calls before those of the other.
LEMMA ChainOrdered ==
  ASSUME NEW c \in Seq(Seconds), NEW e \in StatRec, NEW f \in StatRec,
         Finished(c, e), Begun(c, f), f.requestPerSec > 0, End(f) <= Len(c), End(e) <= f.from,
         Sorted(c)
  PROVE  e.timestamp < f.timestamp
<1>1. \A k \in 1..Len(c) : c[k] \in Nat
  BY StatsAssumption DEF Seconds
<1>2. /\ e.from \in Nat /\ e.requestPerSec \in Nat
      /\ f.from \in Nat /\ f.requestPerSec \in Nat /\ Len(c) \in Nat
  BY DEF StatRec
<1>3. End(e) = e.from + e.requestPerSec /\ End(f) = f.from + f.requestPerSec
  BY DEF End
<1>4. /\ Begun(c, e) /\ e.requestPerSec > 0 /\ End(e) < Len(c)
      /\ c[End(e) + 1] # e.timestamp
  BY DEF Finished
<1>5. End(e) \in Counted(e)
  BY <1>2, <1>3, <1>4 DEF Counted
<1>6. f.from + 1 \in Counted(f)
  BY <1>2, <1>3 DEF Counted
<1>7. c[End(e)] = e.timestamp /\ c[f.from + 1] = f.timestamp
  BY <1>4, <1>5, <1>6 DEF Begun
<1>8. End(e) \in 1..Len(c) /\ End(e) + 1 \in 1..Len(c) /\ End(e) <= End(e) + 1
  BY <1>2, <1>3, <1>4
<1>9. f.from + 1 \in 1..Len(c) /\ End(e) + 1 <= f.from + 1
  BY <1>2, <1>3
<1>10. c[End(e)] <= c[End(e) + 1]
  BY <1>8 DEF Sorted
<1>11. c[End(e) + 1] <= c[f.from + 1]
  BY <1>8, <1>9 DEF Sorted
<1>12. c[End(e)] \in Nat /\ c[End(e) + 1] \in Nat /\ c[f.from + 1] \in Nat
  BY <1>1, <1>8, <1>9
<1> QED BY <1>4, <1>7, <1>10, <1>11, <1>12

\* A list of complete statistics of calls that came in order.
LEMMA ChainInOrder ==
  ASSUME NEW c \in Seq(Seconds), NEW list \in Seq(StatRec), Chain(c, list), Sorted(c)
  PROVE  /\ Ordered(list)
         /\ \A i \in 1..Len(list) : Counted(list[i]) = {k \in 1..Len(c) : c[k] = list[i].timestamp}
<1>1. ASSUME NEW e \in StatRec, Finished(c, e)
      PROVE  /\ e.from <= End(e) /\ End(e) <= Len(c) /\ Begun(c, e) /\ e.requestPerSec > 0
             /\ c[End(e) + 1] # e.timestamp
  <2>1. e.from \in Nat /\ e.requestPerSec \in Nat /\ Len(c) \in Nat
    BY DEF StatRec
  <2> QED BY <1>1, <2>1 DEF Finished, End
<1>2. \A i \in 1..Len(list) : list[i] \in StatRec /\ Finished(c, list[i])
  BY DEF Chain
<1>3. ASSUME NEW i \in 1..Len(list)
      PROVE  Counted(list[i]) = {k \in 1..Len(c) : c[k] = list[i].timestamp}
  <2>1. PICK e \in StatRec : e = list[i] /\ Finished(c, e)
    BY <1>2
  <2> QED BY <1>1, <2>1, ChainExact
<1>4. ASSUME NEW i \in 1..Len(list), NEW j \in 1..Len(list), i < j
      PROVE  list[i].timestamp < list[j].timestamp
  <2>1. PICK e \in StatRec : e = list[i] /\ Finished(c, e)
    BY <1>2
  <2>2. PICK f \in StatRec : f = list[j] /\ Finished(c, f)
    BY <1>2
  <2>3. End(e) <= f.from
    BY <1>4, <2>1, <2>2 DEF Chain
  <2>4. Begun(c, f) /\ f.requestPerSec > 0 /\ End(f) <= Len(c)
    BY <1>1, <2>2
  <2> QED BY <2>1, <2>2, <2>3, <2>4, ChainOrdered
<1> QED BY <1>3, <1>4 DEF Ordered

\* The list of complete statistics and the second that is being counted.
LEMMA WithCurrent ==
  ASSUME NEW c \in Seq(Seconds), NEW list \in Seq(StatRec), NEW e \in StatRec,
         Chain(c, list), LeadsTo(list, e), Begun(c, e), End(e) = Len(c),
         c # <<>> => e.requestPerSec > 0
  PROVE  LET all == Append(list, e)
         IN /\ \A i \in 1..Len(all) : \A k \in Counted(all[i]) : c[k] = all[i].timestamp
            /\ \A i \in 1..Len(all) - 1 : End(all[i]) = all[i + 1].from
            /\ Sorted(c) =>
                 /\ Ordered(all)
                 /\ \A i \in 1..Len(all) :
                      Counted(all[i]) = {k \in 1..Len(c) : c[k] = all[i].timestamp}
<1> DEFINE all == Append(list, e)
<1>1. /\ Len(list) \in Nat /\ Len(all) = Len(list) + 1 /\ all[Len(list) + 1] = e
      /\ \A i \in 1..Len(list) : all[i] = list[i] /\ list[i] \in StatRec
  OBVIOUS
<1> HIDE DEF all
<1>2. \A i \in 1..Len(all) : \A k \in Counted(all[i]) : c[k] = all[i].timestamp
  <2> SUFFICES ASSUME NEW i \in 1..Len(all) PROVE Begun(c, all[i])
    BY DEF Begun
  <2>1. CASE i = Len(list) + 1
    BY <1>1, <2>1
  <2>2. CASE i \in 1..Len(list)
    BY <1>1, <2>2 DEF Chain, Finished
  <2> QED BY <1>1, <2>1, <2>2
<1>3. ASSUME NEW i \in 1..Len(all) - 1 PROVE End(all[i]) = all[i + 1].from
  <2>1. CASE i = Len(list)
    <3>1. list # <<>> /\ all[i] = list[Len(list)] /\ all[i + 1] = e
      BY <1>1, <2>1
    <3> QED BY <3>1 DEF LeadsTo
  <2>2. CASE i \in 1..Len(list) - 1
    <3>1. all[i] = list[i] /\ all[i + 1] = list[i + 1]
      BY <1>1, <2>2
    <3> QED BY <2>2, <3>1 DEF Chain
  <2> QED BY <1>1, <2>1, <2>2
<1>4. ASSUME Sorted(c)
      PROVE  \A i \in 1..Len(all) : Counted(all[i]) = {k \in 1..Len(c) : c[k] = all[i].timestamp}
  <2>1. \A i \in 1..Len(list) : Counted(list[i]) = {k \in 1..Len(c) : c[k] = list[i].timestamp}
    BY <1>4, ChainInOrder
  <2>2. Len(c) \in Nat /\ (c = <<>> <=> Len(c) = 0) /\ e.from \in Nat /\ e.requestPerSec \in Nat
    BY DEF StatRec
  <2>3. e.from <= End(e) /\ End(e) <= Len(c) /\ ~(End(e) < Len(c))
    BY <2>2 DEF End
  <2>4. e.requestPerSec > 0 \/ Len(c) = 0
    BY <2>2
  <2>5. Counted(e) = {k \in 1..Len(c) : c[k] = e.timestamp}
    BY <1>4, <2>3, <2>4, ChainExact
  <2> SUFFICES ASSUME NEW i \in 1..Len(all)
               PROVE  Counted(all[i]) = {k \in 1..Len(c) : c[k] = all[i].timestamp}
    OBVIOUS
  <2>6. CASE i = Len(list) + 1
    BY <1>1, <2>5, <2>6
  <2>7. CASE i \in 1..Len(list)
    BY <1>1, <2>1, <2>7
  <2> QED BY <1>1, <2>6, <2>7
<1>5. ASSUME Sorted(c), NEW i \in 1..Len(all), NEW j \in 1..Len(all), i < j
      PROVE  all[i].timestamp < all[j].timestamp
  <2>1. i \in 1..Len(list) /\ all[i] = list[i] /\ list[i] \in StatRec
    BY <1>1, <1>5
  <2>2. CASE j \in 1..Len(list)
    <3>1. Ordered(list) /\ all[j] = list[j]
      BY <1>1, <1>5, <2>2, ChainInOrder
    <3> QED BY <1>5, <2>1, <2>2, <3>1 DEF Ordered
  <2>3. CASE j = Len(list) + 1
    <3>1. PICK d \in StatRec : d = list[i] /\ Finished(c, d) /\ End(d) <= e.from
      BY <2>1 DEF Chain, LeadsTo
    <3>2. Len(c) \in Nat /\ d.from \in Nat /\ d.requestPerSec \in Nat /\ (c = <<>> <=> Len(c) = 0)
      BY DEF StatRec
    <3>3. c # <<>>
      <4>1. End(d) < Len(c)
        BY <3>1 DEF Finished
      <4>2. End(d) \in Nat
        BY <3>2 DEF End
      <4> QED BY <3>2, <4>1, <4>2
    <3>4. End(e) <= Len(c)
      BY <3>2
    <3>5. d.timestamp < e.timestamp
      BY <1>5, <3>1, <3>3, <3>4, ChainOrdered
    <3> QED BY <1>1, <2>1, <2>3, <3>1, <3>5
  <2> QED BY <1>1, <2>2, <2>3
<1>6. Sorted(c) => Ordered(all)
  BY <1>5 DEF Ordered
<1> QED BY <1>2, <1>3, <1>4, <1>6 DEF all

\* StatsOnce: however the sender exchanges the tables and the reporter copies them, every
\* call that was collected is counted once and in its own second, in order and without
\* gaps, no statistic is empty (its count divides the latency), and as long as no call has
\* come late each second is reported once, with all its calls.  For any number of
\* services, any window and calls of any seconds.
THEOREM SecondsCountedOnce == StatsSpec => []StatsOnce
<1>1. StatsInv => StatsOnce
  <2> SUFFICES ASSUME StatsInv, NEW s \in Called
               PROVE  LET done == recent[s] \o stats[s]
                          all == Append(done, curTime[s])
                      IN /\ Consecutive(s, all) /\ End(curTime[s]) = Len(calls[s])
                         /\ Consecutive(s, report[s])
                         /\ \A list \in {done, report[s]} : \A i \in 1..Len(list) : list[i].requestPerSec > 0
                         /\ s \notin late => \A list \in {all, report[s]} : Ordered(list) /\ Exact(s, list)
    BY Zenon DEF StatsOnce
  <2>1. PICK c \in Seq(Seconds) : c = calls[s]
    BY DEF StatsInv, StatTypes
  <2>2. PICK done \in Seq(StatRec) : done = recent[s] \o stats[s]
    BY ConcatProperties DEF StatsInv, StatTypes
  <2>3. PICK e \in StatRec : e = curTime[s]
    BY DEF StatsInv, StatTypes
  <2>4. PICK rep \in Seq(StatRec) : rep = report[s]
    BY DEF StatsInv, StatTypes
  <2> DEFINE all == Append(done, e)
  <2>5. Begun(c, e) /\ End(e) = Len(c) /\ (c # <<>> => e.requestPerSec > 0)
    BY <2>1, <2>3 DEF StatsInv, LastCall
  <2>6. Chain(c, done) /\ LeadsTo(done, e) /\ Chain(c, rep)
    BY <2>1, <2>2, <2>3, <2>4 DEF StatsInv, Listed
  <2>7. s \notin late => Sorted(c)
    BY <2>1 DEF StatsInv, InOrder
  <2>8. /\ \A i \in 1..Len(all) : \A k \in Counted(all[i]) : c[k] = all[i].timestamp
        /\ \A i \in 1..Len(all) - 1 : End(all[i]) = all[i + 1].from
        /\ Sorted(c) =>
             /\ Ordered(all)
             /\ \A i \in 1..Len(all) : Counted(all[i]) = {k \in 1..Len(c) : c[k] = all[i].timestamp}
    BY <2>5, <2>6, WithCurrent
  <2> HIDE DEF all
  <2>9. Consecutive(s, all)
    BY <2>1, <2>8 DEF Consecutive
  <2>10. Consecutive(s, rep)
    BY <2>1, <2>6 DEF Consecutive, Chain, Finished, Begun
  <2>11. \A list \in {done, rep} : \A i \in 1..Len(list) : list[i].requestPerSec > 0
    BY <2>6 DEF Chain, Finished
  <2>12. s \notin late => Ordered(all) /\ Exact(s, all)
    BY <2>1, <2>7, <2>8 DEF Exact
  <2>13. s \notin late => Ordered(rep) /\ Exact(s, rep)
    BY <2>1, <2>6, <2>7, ChainInOrder DEF Exact
  <2>14. all = Append(recent[s] \o stats[s], curTime[s])
    BY <2>2, <2>3 DEF all
  <2> QED BY <2>1, <2>2, <2>3, <2>4, <2>5, <2>9, <2>10, <2>11, <2>12, <2>13, <2>14
<1> QED BY <1>1, StatsInvInit, StatsStep, PTL DEF StatsSpec
-----------------------------------------------------------------------------
(* The ring.                                                               *)

LogType ==
  /\ inc \in Nat /\ next \in Nat /\ cnt \in Nat
  /\ id \in [Slots -> Nat]
  /\ wait \in [Slots -> {"yes", "no"}]
  /\ run \in [Requests -> {"idle", "running"}]
  /\ mine \in [Requests -> Nat]
  /\ sender \in {"scan", "release", "send"}

Logs(r) == run[r] = "running" /\ mine[r] # 0

\* No two running requests log under the same id, and the others under none.
OwnIds ==
  /\ \A r, q \in Requests : Logs(r) /\ Logs(q) /\ mine[r] = mine[q] => r = q
  /\ \A r \in Requests : run[r] = "idle" => mine[r] = 0

\* An id is in its own slot.
InPlace == \A s \in Slots : id[s] # 0 => SlotOf(id[s]) = s

\* A marked slot has an id; the sender's is without one only inside reset.
MarkedHasId ==
  \A s \in Slots : wait[s] = "yes" => id[s] # 0 \/ (sender = "release" /\ s = SlotOf(next))

\* Inside reset the sender's slot has no id and is still marked.
InReset ==
  sender = "release" =>
    id[SlotOf(next)] = 0 /\ wait[SlotOf(next)] = "yes" /\ next <= inc

Behind ==
  /\ next <= inc + 1
  /\ \A s \in Slots : id[s] # 0 => next <= id[s] /\ id[s] <= inc

\* What was taken out of the ring is not in it, and no id is given out twice.
Taken ==
  /\ \A x \in batch \cup sent : x \in 0..inc
  /\ \A s \in Slots : id[s] # 0 => id[s] \notin batch \cup sent

LogInv ==
  /\ LogType /\ OwnSlot /\ OwnIds /\ InPlace /\ MarkedHasId /\ InReset /\ Behind /\ Taken

\* Every id has a slot in the ring.
LEMMA SlotInRing == \A i \in Nat : SlotOf(i) \in Slots
BY RingAssumption DEF SlotOf, Slots

\* The logger starts with an empty ring.
LEMMA LogInit == Init => LogInv
<1> SUFFICES ASSUME Init PROVE LogInv
    OBVIOUS
<1> USE SlotInRing DEF Init
<1>1. LogType
  BY DEF LogType
<1>2. OwnSlot /\ OwnIds
  BY DEF OwnSlot, OwnIds, Logs
<1>3. InPlace /\ MarkedHasId /\ InReset /\ Behind /\ Taken
  BY DEF InPlace, MarkedHasId, InReset, Behind, Taken
<1> QED
  BY <1>1, <1>2, <1>3 DEF LogInv

\* startServiceCall keeps the invariant: a slot is filled only if it has no id and is
\* not marked, hence is no request's and not the one that is being reset.
LEMMA StartKeeps == ASSUME LogInv, NEW r \in Requests, StartServiceCall(r) PROVE LogInv'
<1> USE SlotInRing, RingAssumption DEF LogInv, LogType
<1>1. LogType'
  BY DEF StartServiceCall, senderVars, Busy, LogType
<1>2. OwnSlot'
  <2> SUFFICES ASSUME NEW q \in Requests, run'[q] = "running", mine'[q] # 0
               PROVE id'[SlotOf(mine'[q])] = mine'[q] /\ wait'[SlotOf(mine'[q])] = "no"
      BY DEF OwnSlot
  <2>1. CASE q = r
    BY <2>1 DEF StartServiceCall, senderVars, Busy, OwnIds
  <2>2. CASE q # r
    <3>1. run[q] = "running" /\ mine'[q] = mine[q]
      BY <2>2 DEF StartServiceCall
    <3>2. id[SlotOf(mine[q])] = mine[q] /\ wait[SlotOf(mine[q])] = "no"
      BY <3>1 DEF OwnSlot
    <3> QED
      BY <3>1, <3>2 DEF StartServiceCall, senderVars, Busy
  <2> QED
    BY <2>1, <2>2
<1>3. OwnIds'
  BY DEF StartServiceCall, senderVars, Busy, OwnIds, Logs, OwnSlot, Behind
<1>4. InPlace'
  BY DEF StartServiceCall, senderVars, Busy, InPlace
<1>5. MarkedHasId'
  BY DEF StartServiceCall, senderVars, Busy, MarkedHasId, OwnSlot
<1>6. InReset'
  BY DEF StartServiceCall, senderVars, Busy, InReset, OwnSlot
<1>7. Behind'
  BY DEF StartServiceCall, senderVars, Busy, Behind, InReset, InPlace
<1>8. Taken'
  BY DEF StartServiceCall, senderVars, Busy, Taken, InPlace, Behind
<1> QED
  BY <1>1, <1>2, <1>3, <1>4, <1>5, <1>6, <1>7, <1>8 DEF LogInv

\* endServiceCall keeps the invariant: the slot that it marks is of its own id, and of no
\* other running request.
LEMMA EndKeeps == ASSUME LogInv, NEW r \in Requests, EndServiceCall(r) PROVE LogInv'
<1> USE SlotInRing, RingAssumption DEF LogInv, LogType
<1>1. LogType'
  BY DEF EndServiceCall, senderVars, Busy, LogType
<1>2. OwnSlot'
  <2> SUFFICES ASSUME NEW q \in Requests, run'[q] = "running", mine'[q] # 0
               PROVE id'[SlotOf(mine'[q])] = mine'[q] /\ wait'[SlotOf(mine'[q])] = "no"
      BY DEF OwnSlot
  <2>1. q # r /\ run[q] = "running" /\ mine'[q] = mine[q] /\ id' = id
    BY DEF EndServiceCall
  <2>2. id[SlotOf(mine[q])] = mine[q] /\ wait[SlotOf(mine[q])] = "no"
    BY <2>1 DEF OwnSlot
  <2>3. mine[r] # 0 => id[SlotOf(mine[r])] = mine[r] /\ mine[r] # mine[q]
    BY <2>1 DEF EndServiceCall, OwnSlot, OwnIds, Logs
  <2> QED
    BY <2>1, <2>2, <2>3 DEF EndServiceCall
<1>3. OwnIds'
  BY DEF EndServiceCall, senderVars, Busy, OwnIds, Logs, OwnSlot, Behind
<1>4. InPlace'
  BY DEF EndServiceCall, senderVars, Busy, InPlace
<1>5. MarkedHasId'
  BY DEF EndServiceCall, senderVars, Busy, MarkedHasId, OwnSlot
<1>6. InReset'
  BY DEF EndServiceCall, senderVars, Busy, InReset, OwnSlot
<1>7. Behind'
  BY DEF EndServiceCall, senderVars, Busy, Behind, InReset, InPlace
<1>8. Taken'
  BY DEF EndServiceCall, senderVars, Busy, Taken, InPlace, Behind
<1> QED
  BY <1>1, <1>2, <1>3, <1>4, <1>5, <1>6, <1>7, <1>8 DEF LogInv

\* A request that does not parse leaves its slot behind, unmarked.
LEMMA RejectKeeps == ASSUME LogInv, NEW r \in Requests, Reject(r) PROVE LogInv'
<1> USE SlotInRing, RingAssumption DEF LogInv, LogType
<1>1. LogType'
  BY DEF Reject, senderVars, Busy, LogType
<1>2. OwnSlot'
  BY DEF Reject, senderVars, Busy, OwnSlot, Behind
<1>3. OwnIds'
  BY DEF Reject, senderVars, Busy, OwnIds, Logs, OwnSlot, Behind
<1>4. InPlace'
  BY DEF Reject, senderVars, Busy, InPlace
<1>5. MarkedHasId'
  BY DEF Reject, senderVars, Busy, MarkedHasId, OwnSlot
<1>6. InReset'
  BY DEF Reject, senderVars, Busy, InReset, OwnSlot
<1>7. Behind'
  BY DEF Reject, senderVars, Busy, Behind, InReset, InPlace
<1>8. Taken'
  BY DEF Reject, senderVars, Busy, Taken, InPlace, Behind
<1> QED
  BY <1>1, <1>2, <1>3, <1>4, <1>5, <1>6, <1>7, <1>8 DEF LogInv

\* The sender takes an id out of the ring: it was in this slot only, and no running
\* request's, since the slot is marked.
LEMMA CollectKeeps == ASSUME LogInv, Collect PROVE LogInv'
<1> USE SlotInRing, RingAssumption DEF LogInv, LogType
<1>1. LogType'
  BY DEF Collect, ClearedId, Room, LogType
<1>2. OwnSlot'
  BY DEF Collect, ClearedId, Room, OwnSlot, Behind
<1>3. OwnIds'
  BY DEF Collect, ClearedId, Room, OwnIds, Logs, OwnSlot, Behind
<1>4. InPlace'
  BY DEF Collect, ClearedId, Room, InPlace
<1>5. MarkedHasId'
  BY DEF Collect, ClearedId, Room, MarkedHasId, OwnSlot
<1>6. InReset'
  BY DEF Collect, ClearedId, InReset, MarkedHasId, Behind
<1>7. Behind'
  BY DEF Collect, ClearedId, Room, Behind, InReset, InPlace
<1>8. Taken'
  BY DEF Collect, ClearedId, Room, Taken, InPlace, Behind
<1> QED
  BY <1>1, <1>2, <1>3, <1>4, <1>5, <1>6, <1>7, <1>8 DEF LogInv

\* The sender passes a slot that has no id: no id of the ring is the one it passes.
LEMMA ReleaseKeeps == ASSUME LogInv, Release PROVE LogInv'
<1> USE SlotInRing, RingAssumption DEF LogInv, LogType
<1>1. LogType'
  BY DEF Release, Advance, LogType
<1>2. OwnSlot'
  BY DEF Release, Advance, OwnSlot, Behind
<1>3. OwnIds'
  BY DEF Release, Advance, OwnIds, Logs, OwnSlot, Behind
<1>4. InPlace'
  BY DEF Release, Advance, InPlace
<1>5. MarkedHasId'
  BY DEF Release, Advance, MarkedHasId, OwnSlot
<1>6. InReset'
  BY DEF Release, Advance, InReset, OwnSlot
<1>7. Behind'
  BY DEF Release, Advance, Behind, InReset, InPlace
<1>8. Taken'
  BY DEF Release, Advance, Taken, InPlace, Behind
<1> QED
  BY <1>1, <1>2, <1>3, <1>4, <1>5, <1>6, <1>7, <1>8 DEF LogInv

\* The sender begins to send.
LEMMA StartSendKeeps == ASSUME LogInv, StartSend PROVE LogInv'
<1> USE SlotInRing, RingAssumption DEF LogInv, LogType
<1>1. LogType'
  BY DEF StartSend, LogType
<1>2. OwnSlot'
  BY DEF StartSend, OwnSlot, Behind
<1>3. OwnIds'
  BY DEF StartSend, OwnIds, Logs, OwnSlot, Behind
<1>4. InPlace'
  BY DEF StartSend, InPlace
<1>5. MarkedHasId'
  BY DEF StartSend, MarkedHasId, OwnSlot
<1>6. InReset'
  BY DEF StartSend, InReset, OwnSlot
<1>7. Behind'
  BY DEF StartSend, Behind, InReset, InPlace
<1>8. Taken'
  BY DEF StartSend, Taken, InPlace, Behind
<1> QED
  BY <1>1, <1>2, <1>3, <1>4, <1>5, <1>6, <1>7, <1>8 DEF LogInv

\* A batch is sent, or lost.
LEMMA SendKeeps == ASSUME LogInv, Send PROVE LogInv'
<1> USE SlotInRing, RingAssumption DEF LogInv, LogType
<1>1. LogType'
  BY DEF Send, LogType
<1>2. OwnSlot'
  BY DEF Send, OwnSlot, Behind
<1>3. OwnIds'
  BY DEF Send, OwnIds, Logs, OwnSlot, Behind
<1>4. InPlace'
  BY DEF Send, InPlace
<1>5. MarkedHasId'
  BY DEF Send, MarkedHasId, OwnSlot
<1>6. InReset'
  BY DEF Send, InReset, OwnSlot
<1>7. Behind'
  BY DEF Send, Behind, InReset, InPlace
<1>8. Taken'
  BY DEF Send, Taken, InPlace, Behind
<1> QED
  BY <1>1, <1>2, <1>3, <1>4, <1>5, <1>6, <1>7, <1>8 DEF LogInv

\* Every step of requests and of the sender keeps the invariant.
LEMMA LogNext == LogInv /\ [Next]_vars => LogInv'
<1> SUFFICES ASSUME LogInv, [Next]_vars PROVE LogInv'
    OBVIOUS
<1>1. ASSUME NEW r \in Requests, StartServiceCall(r) \/ EndServiceCall(r) \/ Reject(r)
      PROVE LogInv'
  BY <1>1, StartKeeps, EndKeeps, RejectKeeps
<1>2. ASSUME SenderStep PROVE LogInv'
  BY <1>2, CollectKeeps, ReleaseKeeps, StartSendKeeps, SendKeeps DEF SenderStep
<1>3. ASSUME UNCHANGED vars PROVE LogInv'
  BY <1>3 DEF vars, LogInv, LogType, OwnSlot, OwnIds, Logs, InPlace, MarkedHasId, InReset, Behind, Taken
<1> QED
  BY <1>1, <1>2, <1>3 DEF Next

\* The invariant holds in every reachable state.
LEMMA LogAlways == Spec => []LogInv
BY LogInit, LogNext, PTL DEF Spec

\* From startServiceCall to endServiceCall a request has its slot to itself, for rings and
\* numbers of requests of any size, whatever the sender does.
THEOREM SlotsAreOwned == Spec => []OwnSlot
<1>1. LogInv => OwnSlot
  BY DEF LogInv
<1> QED
  BY <1>1, LogAlways, PTL

\* What is in the ring was not sent before, and the sender is not ahead of it: no log is
\* sent twice, and the unsigned distance by which logs are abandoned does not wrap.
THEOREM LogsAreSentOnce == Spec => []SentOnce
<1>1. LogInv => SentOnce
  BY DEF LogInv, SentOnce, Behind, Taken
<1> QED
  BY <1>1, LogAlways, PTL
=============================================================================
