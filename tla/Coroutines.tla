------------------------------ MODULE Coroutines ------------------------------
(***************************************************************************)
(* The programs of src/coroutines, one at a time.  A behaviour is a run of *)
(* one program, chosen in Init; v1 to v10 are the variables of that        *)
(* program's module, in the order in which the module declares them.  The  *)
(* suite Programs runs this one and states what is fair.                   *)
(***************************************************************************)
EXTENDS Integers, Sequences

VARIABLES program, v1, v2, v3, v4, v5, v6, v7, v8, v9, v10

vars == <<program, v1, v2, v3, v4, v5, v6, v7, v8, v9, v10>>

\* 02_task.cpp: chains of tasks that return, throw, await and catch.
Task == INSTANCE CoroTask WITH
    K <- 4, Inner <- {"await", "try"}, Leaves <- {"return", "void", "throw"},
    Stores <- TRUE, Scripts <- {"sync_wait"},
    kind <- v1, todo <- v2, state <- v3, left <- v4, cont <- v5, result <- v6,
    thrown <- v7, running <- v8, depth <- v9, parked <- v10

\* 03_coroutine_handle.cpp and 04_awaitable.cpp, whose unhandled_exception() is empty.
Awaitable == INSTANCE CoroTask WITH
    K <- 3, Inner <- {"await", "try"},
    Leaves <- {"return", "void", "throw", "ready", "park", "defer", "steps"},
    Stores <- FALSE, Scripts <- {"sync_wait", "parked", "steps", "transfer"},
    kind <- v1, todo <- v2, state <- v3, left <- v4, cont <- v5, result <- v6,
    thrown <- v7, running <- v8, depth <- v9, parked <- v10

\* All pipelines of at most three of these adaptors, over sources of 0 and 4
\* elements and over iota.
Adaptors ==
    {[op |-> o, n |-> 0] : o \in {"map", "filter", "scan"}}
        \cup {[op |-> "take", n |-> k] : k \in {0, 2}}
        \cup {[op |-> "drop", n |-> k] : k \in {1, 2}}

\* 01_generator.cpp and 07_pipeline.cpp.
Pipe == INSTANCE Pipeline WITH
    MaxStages <- 3, Lengths <- {-1, 0, 4}, MaxSource <- 10,
    pipe <- v1, length <- v2, running <- v3, resumed <- v4, produced <- v5,
    current <- v6, done <- v7, count <- v8, out <- v9, finished <- v10

\* 05_thread_hop.cpp: two launchers and main's own request, two compute threads.
Hop == INSTANCE ThreadHop WITH
    NReq <- 2, Compute <- {"c1", "c2"}, Io <- {"i1"},
    frame <- v1, stage <- v2, result <- v3, queue_ <- v4, cur <- v5, exited <- v6,
    stop_ <- v7, lpc <- v8, main <- v9, crashed <- v10

\* 06_scheduler.cpp: batches of up to three jobs of up to four steps.
Sched == INSTANCE Scheduler WITH
    MaxSteps <- 4, MaxBatch <- 3,
    jobs <- v1, ready_ <- v2, turns <- v3, frame <- v4, shared_queue <- v5,
    received <- v6, run <- v7

\* 10_cancellation.cpp.
Cancel == INSTANCE Cancellation WITH
    demo <- v1, stop <- v2, co <- v3, suspend <- v4, timer <- v5, flag <- v6,
    resumes <- v7, result <- v8, mpc <- v9, answer <- v10

\* 09_when_all.cpp: the three tasks of main() and two pool threads.
When == INSTANCE WhenAll WITH
    NChild <- 3, Worker <- {"c1", "c2"},
    kind <- v1, remaining <- v2, parent <- v3, out <- v4, q_ <- v5, fn <- v6,
    wrapper <- v7, ppc <- v8, exited <- v9, mpc <- v10

-------------------------------------------------------------------------------

Init ==
    \/ program = "task" /\ Task!Init
    \/ program = "awaitable" /\ Awaitable!Init
    \/ program = "pipeline" /\ Pipe!Init
    \/ program = "thread_hop" /\ Hop!Init
    \/ program = "scheduler" /\ Sched!Init /\ v8 = 0 /\ v9 = 0 /\ v10 = 0
    \/ program = "cancellation" /\ Cancel!Init
    \/ program = "when_all" /\ When!Init

TaskStep == program = "task" /\ Task!Next /\ UNCHANGED program
AwaitableStep == program = "awaitable" /\ Awaitable!Next /\ UNCHANGED program
PipeStep == program = "pipeline" /\ Pipe!Next /\ UNCHANGED program
Drivers ==
    \/ program = "thread_hop" /\ Hop!Main_Step /\ UNCHANGED program
    \/ program = "when_all" /\ When!Main_Step /\ UNCHANGED program
PoolWorker(w) ==
    \/ program = "thread_hop" /\ Hop!Worker_Step(w) /\ UNCHANGED program
    \/ program = "when_all" /\ w # "i1" /\ When!Worker_Step(w) /\ UNCHANGED program
SchedStep == program = "scheduler" /\ Sched!Next /\ UNCHANGED <<program, v8, v9, v10>>
CancelStep == program = "cancellation" /\ Cancel!Next /\ UNCHANGED program

\* A program on one thread; of the others the drivers and the destructors of the pools.
Alone == TaskStep \/ AwaitableStep \/ PipeStep \/ SchedStep \/ Drivers

Next == Alone \/ CancelStep \/ \E w \in {"c1", "c2", "i1"} : PoolWorker(w)

-------------------------------------------------------------------------------
(* Properties.                                                             *)

\* The variables of every program have their types.
TypeOK ==
    CASE program = "task" -> Task!TypeInv
      [] program = "awaitable" -> Awaitable!TypeInv
      [] program = "pipeline" -> Pipe!TypeInv
      [] program = "thread_hop" -> Hop!TypeInv
      [] program = "scheduler" -> Sched!TypeInv
      [] program = "cancellation" -> Cancel!TypeInv
      [] program = "when_all" -> When!TypeInv

\* A coroutine that will be resumed is suspended and has one resumer: a parked
\* handle or a continuation is not that of a destroyed frame, a handle on its way
\* to a pool is in one queue or with one worker, a job that yielded is in the
\* ready queue once, a generator that ended is not pulled again, the timer and the
\* stop callback never both resume a delay, and one child of when_all() at most
\* takes itself for the last.
ResumedOnce ==
    CASE program = "task" -> Task!HandlesAlive
      [] program = "awaitable" -> Awaitable!HandlesAlive
      [] program = "pipeline" -> Pipe!NoResumeAfterEnd
      [] program = "thread_hop" -> Hop!OneOwner
      [] program = "scheduler" -> Sched!ReadyExactlyOnce
      [] program = "cancellation" -> Cancel!OneResume
      [] program = "when_all" -> When!OneResumer

\* What a program ends with is what the same computation without coroutines
\* gives: a task's value or exception (a default value in 04_awaitable.cpp, which drops
\* exceptions), the elements of a pipeline, every job of a
\* batch run to its end, every hop made before the pools are gone, and when_all()
\* goes on with all its results.
ResultsRight ==
    CASE program = "task" -> Task!ResultRight /\ Task!FramesFreed
      [] program = "awaitable" -> Awaitable!ResultRight /\ Awaitable!FramesFreed
      [] program = "pipeline" -> Pipe!FinishedRight
      [] program = "thread_hop" -> Hop!NoHopLost
      [] program = "scheduler" -> Sched!AllComplete
      [] program = "when_all" -> When!ResultsComplete
      [] OTHER -> TRUE

\* Control is where the code promises it: symmetric transfer does not grow the
\* stack, a source runs only when an element is asked for, a coroutine continues
\* on the pool it hopped to, and jobs take turns.
ControlInTurn ==
    CASE program = "task" -> Task!StackBounded
      [] program = "awaitable" -> Awaitable!StackBounded
      [] program = "pipeline" -> Pipe!OnDemand
      [] program = "thread_hop" -> Hop!OnItsPool
      [] program = "scheduler" -> Sched!RoundRobin
      [] OTHER -> TRUE

\* main's calls return, a pipeline over a finite source ends or is left, run()
\* returns although a consumer polls, and the pools of thread_hop and when_all are
\* drained and destroyed unless the process has crashed.
Finished ==
    CASE program \in {"task", "awaitable"} -> v2 = <<>>
      [] program = "pipeline" -> v2 = -1 \/ v10 # "no"
      [] program = "thread_hop" -> v10 \/ v9 = "end"
      [] program = "scheduler" -> v7 = "returned"
      [] program = "when_all" -> When!Finished
      [] OTHER -> TRUE
================================================================================
