----------------------------- MODULE FibpLogger -----------------------------
(***************************************************************************)
(* FibpLogger: a ring of log slots.  A request takes the next id and, if   *)
(* the slot of that id is free, fills the slot while it runs and marks it  *)
(* at its end.  One sender goes round the ring, collects the marked slots  *)
(* into a batch and sends it to the log database.  Requests run on several *)
(* threads, the sender on one of its own.                                  *)
(*                                                                         *)
(* Taking an id, testing its slot and filling it is one step here: another *)
(* request could come between only if a whole ring of ids were given out   *)
(* meanwhile.                                                              *)
(***************************************************************************)
EXTENDS Naturals, FiniteSets

CONSTANTS Requests,   \* requests in progress at a time
          Ring,       \* MAX_LOG_NUM, 1000000 in the code
          Batch,      \* MAX_LOG_SEND_NUM, 1000 in the code
          MaxId,      \* bound on the ids given out
          Rejects     \* TRUE: requests may fail to parse

ASSUME RingAssumption == Ring \in Nat \ {0} /\ Batch \in Nat \ {0} /\ MaxId \in Nat
ASSUME RejectsAssumption == Rejects \in BOOLEAN

VARIABLES
  inc,      \* auto_inc_id_
  id,       \* the id of each slot, 0 if free
  wait,     \* wait_send of each slot
  run,      \* each request: idle or running
  mine,     \* the id a running request logs under, 0 if it does not
  next,     \* next_send
  sender,   \* the sender: scan, release (inside reset), send
  cnt,      \* logs in the batch
  batch,    \* history: the ids in the batch
  sent,     \* history: the ids in batches that were sent
  gap       \* history: yes once an id found its slot in use, or was never marked

vars == <<inc, id, wait, run, mine, next, sender, cnt, batch, sent, gap>>
senderVars == <<next, sender, cnt, batch, sent>>

Slots == 0..(Ring - 1)
SlotOf(i) == i % Ring

Init ==
  /\ inc = 0
  /\ id = [s \in Slots |-> 0]
  /\ wait = [s \in Slots |-> "no"]
  /\ run = [r \in Requests |-> "idle"]
  /\ mine = [r \in Requests |-> 0]
  /\ next = 1 /\ sender = "scan" /\ cnt = 0
  /\ batch = {} /\ sent = {} /\ gap = "no"
-----------------------------------------------------------------------------
(* A request.                                                              *)

\* Mutant of Busy: only wait_send is tested.
BusyIfWaiting(s) == wait[s] = "yes"

\* if (l.wait_send || l.id != 0)
Busy(s) == wait[s] = "yes" \/ id[s] # 0

\* startServiceCall: a request that finds its slot in use is not logged, but its
\* id is used up.
StartServiceCall(r) ==
  /\ run[r] = "idle"
  /\ inc < MaxId
  /\ inc' = inc + 1
  /\ run' = [run EXCEPT ![r] = "running"]
  /\ IF Busy(SlotOf(inc + 1))
     THEN gap' = "yes" /\ UNCHANGED <<mine, id>>
     ELSE /\ mine' = [mine EXCEPT ![r] = inc + 1]
          /\ id' = [id EXCEPT ![SlotOf(inc + 1)] = inc + 1]
          /\ UNCHANGED gap
  /\ UNCHANGED <<wait, senderVars>>

\* endServiceCall, when the request has been answered.
EndServiceCall(r) ==
  /\ run[r] = "running"
  /\ run' = [run EXCEPT ![r] = "idle"]
  /\ wait' = IF mine[r] = 0 THEN wait ELSE [wait EXCEPT ![SlotOf(mine[r])] = "yes"]
  /\ mine' = [mine EXCEPT ![r] = 0]
  /\ UNCHANGED <<inc, id, gap, senderVars>>

\* A request that does not parse is answered with an error, and returns without
\* endServiceCall.
Reject(r) ==
  /\ Rejects
  /\ run[r] = "running"
  /\ run' = [run EXCEPT ![r] = "idle"]
  /\ mine' = [mine EXCEPT ![r] = 0]
  /\ gap' = "yes"
  /\ UNCHANGED <<inc, id, wait, senderVars>>
-----------------------------------------------------------------------------
(* The sender: sendLogToDB.                                                *)

\* Mutant of ClearedId: reset leaves the id.
ClearedIdNone == id

\* id = 0, in LogData::reset.
ClearedId == [id EXCEPT ![SlotOf(next)] = 0]

\* cnt < MAX_LOG_SEND_NUM
Room == cnt < Batch

\* A marked slot goes into the batch, unless the sender has fallen behind by half
\* a ring: then it is abandoned.  LogData::reset starts by clearing the id.
Collect ==
  /\ sender = "scan"
  /\ wait[SlotOf(next)] = "yes"
  /\ Room
  /\ IF inc - next < Ring \div 2
     THEN cnt' = cnt + 1 /\ batch' = batch \cup {id[SlotOf(next)]}
     ELSE UNCHANGED <<cnt, batch>>
  /\ id' = ClearedId
  /\ sender' = "release"
  /\ UNCHANGED <<inc, wait, run, mine, next, sent, gap>>


\* ++next_send
Advance == next' = next + 1

\* reset ends by releasing the slot.
Release ==
  /\ sender = "release"
  /\ wait' = [wait EXCEPT ![SlotOf(next)] = "no"]
  /\ Advance
  /\ sender' = "scan"
  /\ UNCHANGED <<inc, id, run, mine, cnt, batch, sent, gap>>

\* The batch is full, or the next slot is not marked: the batch is sent.  (With an
\* empty batch the sender sleeps and looks again.)
StartSend ==
  /\ sender = "scan"
  /\ cnt > 0
  /\ ~Room \/ wait[SlotOf(next)] = "no"
  /\ sender' = "send"
  /\ UNCHANGED <<inc, id, wait, run, mine, next, cnt, batch, sent, gap>>

\* The request to the database succeeds, or it fails and the batch is dropped.
Send ==
  /\ sender = "send"
  /\ sender' = "scan"
  /\ cnt' = 0
  /\ batch' = {}
  /\ \/ sent' = sent \cup batch
     \/ UNCHANGED sent
  /\ UNCHANGED <<inc, id, wait, run, mine, next, gap>>
-----------------------------------------------------------------------------
SenderStep == Collect \/ Release \/ StartSend \/ Send

Next ==
  \/ \E r \in Requests : StartServiceCall(r) \/ EndServiceCall(r) \/ Reject(r)
  \/ SenderStep

Spec == Init /\ [][Next]_vars

\* The sender's thread runs and its HTTP call ends; every request ends.
Fairness ==
  /\ WF_vars(SenderStep)
  /\ \A r \in Requests : WF_vars(EndServiceCall(r) \/ Reject(r))

FairSpec == Spec /\ Fairness
-----------------------------------------------------------------------------
\* The log writer never overrides an unsent item: from its start to its end a
\* request owns its slot alone, whatever ids wrapped round the ring meanwhile.
OwnSlot ==
  \A r \in Requests : run[r] = "running" /\ mine[r] # 0 =>
    id[SlotOf(mine[r])] = mine[r] /\ wait[SlotOf(mine[r])] = "no"

\* No log is sent twice: what is in the ring is neither in the batch nor sent, and the
\* sender is never ahead of a log it will meet, so that the unsigned
\* auto_inc_id_ - next_send does not wrap when it is looked at.
SentOnce ==
  \A s \in Slots : id[s] # 0 =>
    id[s] \notin batch \cup sent /\ next <= id[s] /\ id[s] <= inc


\* Every log that was marked is collected (and sent, or dropped with its batch).
MarkedIsCollected == \A s \in Slots : wait[s] = "yes" ~> wait[s] = "no"
=============================================================================
