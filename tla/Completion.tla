------------------------------- MODULE Completion ------------------------------
(***************************************************************************)
(* How main learns that concurrent tasks have finished: by a sentinel task *)
(* and by join() of a folly pool (src/libraries/folly/07_executors.cpp),   *)
(* by a BlockingCounter, and how threads keep their phases apart with a    *)
(* Barrier (src/libraries/abseil/09_notification.cpp).  The pool's         *)
(* workers take tasks in the order of submission and run them in parallel. *)
(***************************************************************************)
EXTENDS Integers, Sequences, FiniteSets

CONSTANTS
    Workers,   \* threads of the pool
    NumTasks,  \* tasks; each has a thread of its own outside the pool demo
    Demos      \* of "pool", "latch" and "barrier"

Tasks == 1 .. NumTasks
Sentinel == NumTasks + 1

VARIABLES
    demo,
    queue,     \* tasks of the pool that wait
    submitted, \* how many main has added
    running,   \* worker -> the task it runs, or 0
    state,     \* task -> "new", "done", then "signalled" and "through" (the barrier)
    count,     \* the latch, or the arrivals the barrier still waits for
    main       \* "submit", "wait", "read" or "joined"

vars == <<demo, queue, submitted, running, state, count, main>>

TypeInv ==
    /\ demo \in Demos
    /\ queue \in Seq(1 .. Sentinel) /\ submitted \in 0 .. Sentinel
    /\ running \in [Workers -> 0 .. Sentinel]
    /\ state \in [1 .. Sentinel -> {"new", "done", "signalled", "through"}]
    /\ count \in 0 .. NumTasks
    /\ main \in {"submit", "wait", "read", "joined"}

Init ==
    /\ demo \in Demos
    /\ queue = <<>> /\ submitted = 0
    /\ running = [w \in Workers |-> 0]
    /\ state = [k \in 1 .. Sentinel |-> "new"]
    /\ count = NumTasks
    /\ main = IF demo = "pool" THEN "submit" ELSE "wait"

-------------------------------------------------------------------------------
(* The pool.                                                               *)

\* cpu_pool.add(task), and last folly::via(&cpu_pool, [] {})
Add ==
    /\ main = "submit"
    /\ submitted' = submitted + 1
    /\ queue' = Append(queue, submitted + 1)
    /\ main' = IF submitted + 1 = Sentinel THEN "wait" ELSE "submit"
    /\ UNCHANGED <<demo, running, state, count>>

\* A worker starts the oldest task.
Start(w) ==
    /\ running[w] = 0 /\ queue # <<>>
    /\ running' = [running EXCEPT ![w] = Head(queue)]
    /\ queue' = Tail(queue)
    /\ UNCHANGED <<demo, submitted, state, count, main>>

\* The task's effect and its end.
Finish(w) ==
    /\ running[w] # 0
    /\ state' = [state EXCEPT ![running[w]] = "done"]
    /\ running' = [running EXCEPT ![w] = 0]
    /\ UNCHANGED <<demo, queue, submitted, count, main>>

\* .wait() of the sentinel's future
SentinelWait ==
    /\ demo = "pool" /\ main = "wait"
    /\ state[Sentinel] = "done"
    /\ main' = "read"
    /\ UNCHANGED <<demo, queue, submitted, running, state, count>>

\* join() drains the queue and stops the threads.
Drained == queue = <<>> /\ \A w \in Workers : running[w] = 0

Join ==
    /\ demo = "pool" /\ main = "read"
    /\ Drained
    /\ main' = "joined"
    /\ UNCHANGED <<demo, queue, submitted, running, state, count>>

-------------------------------------------------------------------------------
(* BlockingCounter and Barrier.                                            *)

\* The work of a task, or phase 1 of a thread.
Work(k) ==
    /\ demo # "pool" /\ state[k] = "new"
    /\ state' = [state EXCEPT ![k] = "done"]
    /\ UNCHANGED <<demo, queue, submitted, running, count, main>>

\* latch.DecrementCount(), or the arrival in barrier.Block()
Signal(k) ==
    /\ demo # "pool" /\ state[k] = "done"
    /\ state' = [state EXCEPT ![k] = "signalled"]
    /\ count' = count - 1
    /\ UNCHANGED <<demo, queue, submitted, running, main>>

Open == count = 0

\* barrier.Block() returns.
Pass(k) ==
    /\ demo = "barrier" /\ state[k] = "signalled"
    /\ Open
    /\ state' = [state EXCEPT ![k] = "through"]
    /\ UNCHANGED <<demo, queue, submitted, running, count, main>>

\* latch.Wait(), or join of the barrier's threads
Wait ==
    /\ main = "wait"
    /\ \/ demo = "latch" /\ Open
       \/ demo = "barrier" /\ \A k \in Tasks : state[k] = "through"
    /\ main' = "joined"
    /\ UNCHANGED <<demo, queue, submitted, running, state, count>>

-------------------------------------------------------------------------------

Main == Add \/ SentinelWait \/ Join \/ Wait

Worker(w) == Start(w) \/ Finish(w)

Thread(k) == Work(k) \/ Signal(k) \/ Pass(k)

Next == Main \/ (\E w \in Workers : Worker(w)) \/ \E k \in Tasks : Thread(k)

Spec == Init /\ [][Next]_vars

-------------------------------------------------------------------------------
(* Properties.                                                             *)

Finished(k) == state[k] # "new"

\* After join(), Wait() or the barrier threads' join every task has run.
JoinMeansAll == main = "joined" => \A k \in Tasks : Finished(k)

\* No thread is in phase 2 while another is in phase 1.
PhasesApart ==
    demo = "barrier" /\ (\E k \in Tasks : state[k] = "through") => \A k \in Tasks : Finished(k)

\* "All prior tasks are guaranteed complete now": when the sentinel is done, so
\* are the tasks added before it.
SentinelLast == main = "read" => \A k \in Tasks : Finished(k)

\* main gets there.
AtEnd == main = "joined"
================================================================================
