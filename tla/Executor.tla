------------------------------- MODULE Executor -------------------------------
(***************************************************************************)
(* What the task executors of the repository promise their clients: every  *)
(* task that is submitted is run exactly once, and shutting the executor   *)
(* down returns only when no task is waiting or running.  ThreadPool       *)
(* (concurrency/08_thread_pool.cpp) is shown to implement it.              *)
(***************************************************************************)
CONSTANT Task

VARIABLES status,   \* the stage each task has reached
          closed    \* the destructor has returned

Stage == {"new", "queued", "running", "finished"}

Init ==
    /\ status = [t \in Task |-> "new"]
    /\ closed = FALSE

Advance(t, from, to) ==
    /\ ~closed
    /\ status[t] = from
    /\ status' = [status EXCEPT ![t] = to]
    /\ UNCHANGED closed

Submit(t) == Advance(t, "new", "queued")

Start(t) == Advance(t, "queued", "running")

Finish(t) == Advance(t, "running", "finished")

Close ==
    /\ ~closed
    /\ \A t \in Task : status[t] \notin {"queued", "running"}
    /\ closed' = TRUE
    /\ UNCHANGED status

Next ==
    \/ \E t \in Task : Submit(t) \/ Start(t) \/ Finish(t)
    \/ Close

Spec == Init /\ [][Next]_<<status, closed>>
===============================================================================
