--------------------------- MODULE MCFiberLibrary ---------------------------
(* A few uses of the fiber library, each with the operations of one object. *)
EXTENDS FiberLibrary

CONSTANTS f1, f2, f3

MCFiber == {f1, f2, f3}
MCDeadline == {1, 2}

Plain == [order |-> <<f1, f2, f3>>, prog |-> [n \in MCFiber \cup {Main} |-> {"end"}],
          mutex |-> "mutex", barrier |-> 2, queue |-> "unbounded", state |-> "R",
          owner |-> "promise"]

\* Every fiber does what ops allows, and the main fiber what main does.
AllDo(u, what, main) ==
  [u EXCEPT !.prog = [n \in MCFiber \cup {Main} |-> IF n = Main THEN main ELSE what \cup {"end"}]]

Locks ==
  {AllDo([Plain EXCEPT !.mutex = k], {"lock"}, {"sleep"}) : k \in {"mutex", "recursive_mutex"}}
    \cup {[AllDo([Plain EXCEPT !.mutex = k], {"lock", "try_lock_until"}, {}) EXCEPT
            !.prog[f3] = {"lock", "try_lock"}] : k \in {"timed_mutex", "recursive_timed_mutex"}}
    \cup {AllDo(Plain, {"lock"}, {"lock", "try_lock"})}

Conditions ==
  {[AllDo(Plain, {"lock", "wait", "wait_until", "notify_one"}, {}) EXCEPT
     !.prog[f1] = {"lock", "notify_one", "notify_all", "interrupt", "end"},
     !.prog[f3] = {"lock", "wait", "sleep", "end"}]}

Joins == {[AllDo(Plain, {"sleep", "join"}, {"join"}) EXCEPT
            !.prog[f1] = {"sleep", "interrupt", "end"}, !.prog[f3] = {"join", "detach", "end"}]}

Barriers == {AllDo([Plain EXCEPT !.barrier = k], {"barrier"}, {"barrier"}) : k \in {2, 4}}

Queues ==
  {[AllDo([Plain EXCEPT !.queue = q], {"pop", "try_pop"}, {"pop"}) EXCEPT
     !.prog[f1] = {"push", "close", "try_push"},
     !.prog[f3] = IF patient THEN {"pop", "push"} ELSE {"pop_wait_until", "push_wait_until"}] :
     q \in {"unbounded", "bounded", "bounded, low"}, patient \in BOOLEAN}

Promises ==
  {[AllDo([Plain EXCEPT !.state = t], {"get", "hand_over"}, {}) EXCEPT
     !.prog[f1] = {"get_future", "hand_over", "set_value", "set_exception", "destroy", "write"},
     !.prog[f3] = IF t = "R" THEN {"get_exception_ptr", "wait_result", "wait_result_until"} ELSE {"get", "share"}] :
     t \in {"R", "R&", "void"}}

Tasks ==
  {[AllDo([Plain EXCEPT !.owner = "task"], {"get_future", "get"}, {"destroy"}) EXCEPT
     !.prog[f1] = {"reset", "call"}, !.prog[f3] = {"call"}],
   [AllDo([Plain EXCEPT !.owner = "task"], {}, {}) EXCEPT
     !.prog[f1] = {"reset", "call"}, !.prog[f2] = {"get_future", "wait_result_for"}]}

MCUses == Locks \cup Conditions \cup Joins \cup Barriers \cup Queues \cup Promises \cup Tasks
=============================================================================
