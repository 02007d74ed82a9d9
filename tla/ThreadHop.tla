------------------------------- MODULE ThreadHop -------------------------------
(***************************************************************************)
(* src/coroutines/05_thread_hop.cpp: coroutines that hop from the thread   *)
(* that started them to a compute pool and on to an I/O pool, and the      *)
(* launcher threads that drive them with Task::sync_wait().                *)
(*                                                                         *)
(* A resumed coroutine runs to its next suspension point in one action.    *)
(* Blocking on the pools' condition variables is left out: an idle worker  *)
(* takes a queued handle as soon as there is one (ThreadPool models the    *)
(* condition variable of such a pool).  Resuming a handle whose frame has  *)
(* been destroyed is undefined: the freed frame may still hold the old     *)
(* contents, or the process crashes.                                       *)
(***************************************************************************)
EXTENDS Integers, Sequences

CONSTANTS
    NReq,       \* the requests of main(), each with a launcher thread
    Compute,    \* threads of compute_pool
    Io          \* threads of io_pool

\* The last request is multi_hop(), which main() itself drives at the end.
Request == 1 .. NReq + 1
Multi == NReq + 1
None == 0

Pool == {"compute", "io"}
Worker == Compute \cup Io
PoolOf(w) == IF w \in Compute THEN "compute" ELSE "io"

VARIABLES
    frame,    \* [Request -> whether the coroutine frame exists]
    stage,    \* [Request -> suspension points reached]
    result,   \* [Request -> whether co_return has stored the result]
    queue_,   \* [Pool -> handles posted]
    cur,      \* [Worker -> the handle it is about to resume]
    exited,   \* workers that have returned from worker()
    stop_,    \* [Pool -> BOOLEAN]
    lpc,      \* [Request -> where its driver is]
    main,     \* static destruction after main() has returned
    crashed

taskVars == <<frame, stage, result>>
poolVars == <<queue_, cur, exited, stop_>>
vars == <<frame, stage, result, queue_, cur, exited, stop_, lpc, main, crashed>>

TypeInv ==
    /\ frame \in [Request -> {"none", "alive", "destroyed"}]
    /\ stage \in [Request -> 0 .. 3]
    /\ result \in [Request -> BOOLEAN]
    /\ queue_ \in [Pool -> Seq(Request)]
    /\ cur \in [Worker -> Request \cup {None}]
    /\ exited \subseteq Worker
    /\ stop_ \in [Pool -> BOOLEAN]
    /\ lpc \in [Request -> {"start", "read", "destroy", "done"}]
    /\ main \in {"join", "first", "second", "end"}
    /\ crashed \in BOOLEAN

Init ==
    /\ frame = [r \in Request |-> "none"]
    /\ stage = [r \in Request |-> 0]
    /\ result = [r \in Request |-> FALSE]
    /\ queue_ = [p \in Pool |-> <<>>]
    /\ cur = [w \in Worker |-> None]
    /\ exited = {}
    /\ stop_ = [p \in Pool |-> FALSE]
    /\ lpc = [r \in Request |-> "start"]
    /\ main = "join"
    /\ crashed = FALSE

-------------------------------------------------------------------------------
(* Drivers: create the task, sync_wait() on it, destroy it.                *)

\* co_await p.schedule(): suspend and post the handle.
Hop(r, p) ==
    /\ stage' = [stage EXCEPT ![r] = @ + 1]
    /\ queue_' = [queue_ EXCEPT ![p] = Append(@, r)]

\* resume() runs the coroutine here until it hops to the compute pool.
SyncWaitResume(r) ==
    /\ lpc[r] = "start"
    /\ r = Multi => \A q \in 1 .. NReq : lpc[q] = "done"
    /\ frame' = [frame EXCEPT ![r] = "alive"]
    /\ Hop(r, "compute")
    /\ lpc' = [lpc EXCEPT ![r] = "read"]
    /\ UNCHANGED <<result, cur, exited, stop_, main, crashed>>

\* await_resume() takes whatever is in the promise, finished or not.
SyncWaitReturn(r) ==
    /\ lpc[r] = "read"
    /\ lpc' = [lpc EXCEPT ![r] = "destroy"]
    /\ UNCHANGED <<taskVars, poolVars, main, crashed>>

\* ~Task() destroys the frame.
DestroyTask(r) ==
    /\ lpc[r] = "destroy"
    /\ frame' = [frame EXCEPT ![r] = "destroyed"]
    /\ lpc' = [lpc EXCEPT ![r] = "done"]
    /\ UNCHANGED <<stage, result, poolVars, main, crashed>>

-------------------------------------------------------------------------------
(* worker()                                                                *)

Popped(q) == Tail(q)

Take(w) ==
    LET p == PoolOf(w) IN
    /\ w \notin exited
    /\ cur[w] = None
    /\ queue_[p] # <<>>
    /\ cur' = [cur EXCEPT ![w] = Head(queue_[p])]
    /\ queue_' = [queue_ EXCEPT ![p] = Popped(@)]
    /\ UNCHANGED <<taskVars, exited, stop_, lpc, main, crashed>>

SecondHop == "io"

\* Where a coroutine that has hopped n times is resumed.
HomeOf(n) == IF n = 1 THEN "compute" ELSE "io"

\* h.resume(): compute and hop on, or finish with co_return.
Resume(w) ==
    LET r == cur[w] IN
    /\ r # None
    /\ cur' = [cur EXCEPT ![w] = None]
    /\ \/ /\ stage[r] = 1
          /\ Hop(r, SecondHop)
          /\ UNCHANGED result
       \/ /\ stage[r] # 1
          /\ stage' = [stage EXCEPT ![r] = @ + 1]
          /\ result' = [result EXCEPT ![r] = TRUE]
          /\ UNCHANGED queue_
    /\ UNCHANGED <<frame, exited, stop_, lpc, main, crashed>>

\* h.resume() on a frame that has been destroyed may end the process.
ResumeCrashes(w) ==
    /\ cur[w] # None
    /\ frame[cur[w]] = "destroyed"
    /\ crashed' = TRUE
    /\ UNCHANGED <<taskVars, poolVars, lpc, main>>

MayExit(p) == stop_[p] /\ queue_[p] = <<>>

WorkerExit(w) ==
    /\ w \notin exited
    /\ cur[w] = None
    /\ MayExit(PoolOf(w))
    /\ exited' = exited \cup {w}
    /\ UNCHANGED <<taskVars, queue_, cur, stop_, lpc, main, crashed>>

-------------------------------------------------------------------------------
(* The end of the program.                                                 *)

\* Defect: the pools are destroyed in the order of their construction.
FirstDestroyed_Io == "io"

\* Static objects are destroyed in the reverse order of their construction.
FirstDestroyed == "compute"

SecondDestroyed == CHOOSE p \in Pool : p # FirstDestroyed

\* All launchers are joined, main() returns and the first pool's destructor
\* sets stop_.
MainReturns ==
    /\ main = "join"
    /\ \A r \in Request : lpc[r] = "done"
    /\ stop_' = [stop_ EXCEPT ![FirstDestroyed] = TRUE]
    /\ main' = "first"
    /\ UNCHANGED <<taskVars, queue_, cur, exited, lpc, crashed>>

PoolJoined(p) == {w \in Worker : PoolOf(w) = p} \subseteq exited

FirstPoolDestroyed ==
    /\ main = "first"
    /\ PoolJoined(FirstDestroyed)
    /\ stop_' = [stop_ EXCEPT ![SecondDestroyed] = TRUE]
    /\ main' = "second"
    /\ UNCHANGED <<taskVars, queue_, cur, exited, lpc, crashed>>

SecondPoolDestroyed ==
    /\ main = "second"
    /\ PoolJoined(SecondDestroyed)
    /\ main' = "end"
    /\ UNCHANGED <<taskVars, poolVars, lpc, crashed>>

-------------------------------------------------------------------------------

\* The threads that drive the coroutines, main's among them.
Main_Step ==
    /\ ~crashed
    /\ \/ \E r \in Request : SyncWaitResume(r) \/ SyncWaitReturn(r) \/ DestroyTask(r)
       \/ MainReturns
       \/ FirstPoolDestroyed
       \/ SecondPoolDestroyed

Worker_Step(w) ==
    /\ ~crashed
    /\ Take(w) \/ Resume(w) \/ ResumeCrashes(w) \/ WorkerExit(w)

Next == Main_Step \/ \E w \in Worker : Worker_Step(w)

Spec == Init /\ [][Next]_vars

-------------------------------------------------------------------------------
(* Properties.                                                             *)

\* A suspended coroutine is known to exactly one queue entry or worker, and a
\* coroutine that is not suspended to none: no schedule resumes it twice, also
\* though it is posted before the thread that suspends it has returned.
Places(r) ==
    {<<p, k>> \in Pool \X (1 .. NReq + 1) :
        k <= Len(queue_[p]) /\ queue_[p][k] = r}
      \cup {w \in Worker : cur[w] = r}

OneOwner ==
    \A r \in Request :
        IF stage[r] \in {1, 2} THEN \E x \in Places(r) : Places(r) = {x}
        ELSE Places(r) = {}

\* A coroutine continues on the pool it asked for: after the first hop on a
\* compute thread, after the second on an I/O thread.
OnItsPool ==
    \A w \in Worker : cur[w] # None => PoolOf(w) = HomeOf(stage[cur[w]])

\* The pools are torn down in an order that loses no hop: when both are gone,
\* every coroutine that was started has finished (or the process crashed).
NoHopLost == main = "end" => \A r \in Request : stage[r] = 3

\* "The coroutine's stack variables and CPU registers are preserved in the
\* heap-allocated frame -- perfectly safe across thread boundaries": a handle
\* that waits in a queue or is being resumed has its frame.
FramePreserved == \A r \in Request : Places(r) # {} => frame[r] = "alive"
================================================================================
