---------------------------- MODULE ServiceCall ----------------------------
(***************************************************************************)
(* What a client promises the fibers that call a host through it: a call   *)
(* returns once, and when it returns an answer, that is the answer to this *)
(* very call.  It may return an error instead, or a garbled answer, which  *)
(* is no call's.                                                           *)
(***************************************************************************)
EXTENDS Naturals

CONSTANTS Callers,    \* fibers that call the host
          MaxCalls    \* bound on the number of calls

VARIABLES
  busy,      \* the callers whose call has not returned
  made,      \* number of calls made
  asked,     \* the number of each caller's last call
  outcome,   \* how it ended: none, an answer, an error, or garbled
  answer     \* the call whose answer it returned

scVars == <<busy, made, asked, outcome, answer>>

SCInit ==
  /\ busy = {}
  /\ made = 0
  /\ asked = [c \in Callers |-> 0]
  /\ outcome = [c \in Callers |-> "none"]
  /\ answer = [c \in Callers |-> 0]

\* A fiber that has no call in progress makes one.
Ask(c) ==
  /\ c \notin busy
  /\ made < MaxCalls
  /\ busy' = busy \cup {c}
  /\ made' = made + 1
  /\ asked' = [asked EXCEPT ![c] = made + 1]
  /\ outcome' = [outcome EXCEPT ![c] = "none"]
  /\ answer' = [answer EXCEPT ![c] = 0]

\* The call returns its own answer.
Answered(c) ==
  /\ c \in busy
  /\ busy' = busy \ {c}
  /\ outcome' = [outcome EXCEPT ![c] = "answer"]
  /\ answer' = [answer EXCEPT ![c] = asked[c]]
  /\ UNCHANGED <<made, asked>>

\* The call returns an error.
Failed(c) ==
  /\ c \in busy
  /\ busy' = busy \ {c}
  /\ outcome' = [outcome EXCEPT ![c] = "error"]
  /\ UNCHANGED <<made, asked, answer>>

\* The call returns what nobody has sent as an answer.
Garbled(c) ==
  /\ c \in busy
  /\ busy' = busy \ {c}
  /\ outcome' = [outcome EXCEPT ![c] = "garbled"]
  /\ UNCHANGED <<made, asked, answer>>

SCNext == \E c \in Callers : Ask(c) \/ Answered(c) \/ Failed(c) \/ Garbled(c)

SCSpec == SCInit /\ [][SCNext]_scVars
=============================================================================
