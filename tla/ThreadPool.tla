------------------------------ MODULE ThreadPool ------------------------------
(***************************************************************************)
(* class ThreadPool and its main() (src/concurrency/08_thread_pool.cpp).   *)
(*                                                                         *)
(* Every critical section of mtx_ is one action.  The code between two     *)
(* critical sections (notify_one, notify_all, the task itself) is an       *)
(* action of its own, because other threads may run there.  cv_.wait with  *)
(* a predicate is the loop the standard defines: with the lock held, test  *)
(* the predicate; if it is false, release the lock and block in one step.  *)
(* A blocked thread is released by a notification or spuriously, and then  *)
(* tests the predicate again.                                              *)
(*                                                                         *)
(* Tasks are numbered in the order in which the client submits them.       *)
(***************************************************************************)
EXTENDS Integers, Sequences, FiniteSets

CONSTANTS Worker,   \* the threads in workers_
          NTask     \* bound on the number of calls of submit

ASSUME PoolAssumption == Worker # {} /\ IsFiniteSet(Worker) /\ NTask \in Nat

Task == 1 .. NTask
None == 0

VARIABLES
    queue_,     \* tasks pushed and not yet popped
    done_,
    pc,         \* [Worker -> where in work() the thread is]
    task,       \* [Worker -> the local variable task]
    result,     \* [Task -> the shared state of the task's future]
    client,     \* where the thread that owns the pool is
    submitted,  \* number of tasks pushed so far
    got         \* number of futures main() has called get() on

workerVars == <<pc, task>>
clientVars == <<client, submitted, got>>
vars == <<queue_, done_, pc, task, result, client, submitted, got>>

\* "lock": about to lock mtx_ or to reacquire it inside wait;
\* "wait": blocked in cv_.wait; "run": calling task(); "exit": returned.
WorkerPc == {"lock", "wait", "run", "exit"}

\* "submit", "notify": in submit(); "get": in the loop over the futures;
\* "close", "notify_all", "join": in ~ThreadPool(); "end": it returned.
ClientPc == {"submit", "notify", "get", "close", "notify_all", "join", "end"}

Outcome == {"pending", "value", "exception"}

TypeInv ==
    /\ queue_ \in Seq(Task)
    /\ done_ \in BOOLEAN
    /\ pc \in [Worker -> WorkerPc]
    /\ task \in [Worker -> Task \cup {None}]
    /\ result \in [Task -> Outcome]
    /\ client \in ClientPc
    /\ submitted \in 0 .. NTask
    /\ got \in 0 .. NTask

Init ==
    /\ queue_ = <<>>
    /\ done_ = FALSE
    /\ pc = [w \in Worker |-> "lock"]
    /\ task = [w \in Worker |-> None]
    /\ result = [t \in Task |-> "pending"]
    /\ client = "submit"
    /\ submitted = 0
    /\ got = 0

-------------------------------------------------------------------------------
(* work(), run by every worker.                                            *)

\* Defect: the predicate forgets the shutdown flag.
WaitPredicate_IgnoresDone == queue_ # <<>>

WaitPredicate == queue_ # <<>> \/ done_

\* Defect: the thread ends as soon as done_ is set.
MustReturn_WithoutDraining == done_

MustReturn == done_ /\ queue_ = <<>>

\* Defect: front() without pop().
Popped_FrontStays == queue_

Popped == Tail(queue_)

\* The predicate is false: release mtx_ and block.
Block(w) ==
    /\ pc[w] = "lock"
    /\ ~WaitPredicate
    /\ pc' = [pc EXCEPT ![w] = "wait"]
    /\ UNCHANGED <<queue_, done_, task, result, clientVars>>

\* wait() returns and the thread ends.
Exit(w) ==
    /\ pc[w] = "lock"
    /\ WaitPredicate
    /\ MustReturn
    /\ pc' = [pc EXCEPT ![w] = "exit"]
    /\ UNCHANGED <<queue_, done_, task, result, clientVars>>

\* wait() returns and the thread takes a task and unlocks.
Pop(w) ==
    /\ pc[w] = "lock"
    /\ WaitPredicate
    /\ ~MustReturn
    /\ task' = [task EXCEPT ![w] = Head(queue_)]
    /\ queue_' = Popped
    /\ pc' = [pc EXCEPT ![w] = "run"]
    /\ UNCHANGED <<done_, result, clientVars>>

\* task(): the packaged_task stores a value or the exception it caught.
Run(w) ==
    /\ pc[w] = "run"
    /\ \E o \in {"value", "exception"} :
           result' = [result EXCEPT ![task[w]] = o]
    /\ task' = [task EXCEPT ![w] = None]
    /\ pc' = [pc EXCEPT ![w] = "lock"]
    /\ UNCHANGED <<queue_, done_, clientVars>>

\* The operating system unblocks a waiting thread for no reason.
SpuriousWakeup(w) ==
    /\ pc[w] = "wait"
    /\ pc' = [pc EXCEPT ![w] = "lock"]
    /\ UNCHANGED <<queue_, done_, task, result, clientVars>>

-------------------------------------------------------------------------------
(* The thread that owns the pool.                                          *)

\* cv_.notify_one() releases one blocked thread, if there is one.
NotifyOne ==
    \/ \E w \in Worker : /\ pc[w] = "wait"
                         /\ pc' = [pc EXCEPT ![w] = "lock"]
    \/ /\ \A w \in Worker : pc[w] # "wait"
       /\ UNCHANGED pc

NotifyAll ==
    pc' = [w \in Worker |-> IF pc[w] = "wait" THEN "lock" ELSE pc[w]]

\* Defect: the task is named by the counter before its increment.
NewTask_StaleCounter == submitted

NewTask == submitted + 1

SubmitPush ==
    /\ client = "submit"
    /\ submitted < NTask
    /\ submitted' = submitted + 1
    /\ queue_' = Append(queue_, NewTask)
    /\ client' = "notify"
    /\ UNCHANGED <<done_, workerVars, result, got>>

\* Defect: only a push on an empty queue notifies.
WakeForTask_OnlyFirst ==
    IF Len(queue_) > 1 THEN UNCHANGED pc ELSE NotifyOne

WakeForTask == NotifyOne

SubmitNotify ==
    /\ client = "notify"
    /\ WakeForTask
    /\ client' = "submit"
    /\ UNCHANGED <<queue_, done_, task, result, submitted, got>>

\* The client has submitted what it wants.  It goes on to wait for all the
\* futures, as main() does, or discards them ("fire-and-forget").
StopSubmitting ==
    /\ client = "submit"
    /\ client' \in {"get", "close"}
    /\ UNCHANGED <<queue_, done_, workerVars, result, submitted, got>>

\* get() blocks until the future is ready; an exception leaves the loop and
\* unwinds the stack into ~ThreadPool().
Get ==
    /\ client = "get"
    /\ got < submitted
    /\ result[got + 1] # "pending"
    /\ got' = got + 1
    /\ client' = IF result[got + 1] = "exception" THEN "close" ELSE "get"
    /\ UNCHANGED <<queue_, done_, workerVars, result, submitted>>

\* The loop is over and the pool goes out of scope.
LeaveScope ==
    /\ client = "get"
    /\ got = submitted
    /\ client' = "close"
    /\ UNCHANGED <<queue_, done_, workerVars, result, submitted, got>>

CloseSetDone ==
    /\ client = "close"
    /\ done_' = TRUE
    /\ client' = "notify_all"
    /\ UNCHANGED <<queue_, workerVars, result, submitted, got>>

WakeForShutdown == NotifyAll

CloseNotify ==
    /\ client = "notify_all"
    /\ WakeForShutdown
    /\ client' = "join"
    /\ UNCHANGED <<queue_, done_, task, result, submitted, got>>

Join ==
    /\ client = "join"
    /\ \A w \in Worker : pc[w] = "exit"
    /\ client' = "end"
    /\ UNCHANGED <<queue_, done_, workerVars, result, submitted, got>>

-------------------------------------------------------------------------------

WorkerStep(w) == Block(w) \/ Pop(w) \/ Exit(w) \/ Run(w)

ClientStep ==
    \/ SubmitPush
    \/ SubmitNotify
    \/ StopSubmitting
    \/ Get
    \/ LeaveScope
    \/ CloseSetDone
    \/ CloseNotify
    \/ Join

\* main() has returned.
Terminated ==
    /\ client = "end"
    /\ UNCHANGED vars

Next ==
    \/ \E w \in Worker : WorkerStep(w) \/ SpuriousWakeup(w)
    \/ ClientStep
    \/ Terminated

\* The operating system runs every thread that can run, and tasks return.
\* Nothing obliges it to produce a spurious wakeup.
Fairness ==
    /\ \A w \in Worker : WF_vars(WorkerStep(w))
    /\ WF_vars(ClientStep)

Spec == Init /\ [][Next]_vars

FairSpec == Spec /\ Fairness

-------------------------------------------------------------------------------
(* Properties.                                                             *)

\* Every task is in exactly one place.  The queue holds the newest tasks in the
\* order of submission; a popped task is held by one worker, or its future is
\* ready.  So no task is run twice, dropped between pop() and task(), or
\* started before a task that was submitted earlier.
NPopped == submitted - Len(queue_)

TaskAccounting ==
    /\ Len(queue_) <= submitted
    /\ \A i \in 1 .. Len(queue_) : queue_[i] = NPopped + i
    /\ \A w \in Worker :
           /\ task[w] # None <=> pc[w] = "run"
           /\ task[w] <= NPopped
    /\ \A v, w \in Worker : v # w /\ task[v] = task[w] => task[v] = None
    /\ \A t \in Task :
           result[t] = "pending" <=> t > NPopped \/ \E w \in Worker : task[w] = t

\* Who may still be where once ~ThreadPool() has begun: done_ follows the
\* destructor, and a worker only leaves when the queue is empty for good.
ShutdownOrder ==
    /\ done_ <=> client \in {"notify_all", "join", "end"}
    /\ \A w \in Worker : pc[w] = "exit" => done_ /\ queue_ = <<>>
    /\ client = "end" => \A w \in Worker : pc[w] = "exit"

\* The comment of the class: "Workers drain any remaining tasks before
\* exiting."  When ~ThreadPool() has returned, every task that was ever
\* submitted has run, whether or not somebody waited for its future.
DrainedAtShutdown ==
    client = "end" => \A t \in 1 .. submitted : result[t] # "pending"

\* No lost wakeup: while some worker sleeps, enough workers are awake and on
\* their way to mtx_ to take every queued task (up to the one whose
\* notify_one is still to come), so a task never waits for a running task to
\* end while an idle worker sleeps on.
Awake == {w \in Worker : pc[w] = "lock"}
Asleep == {w \in Worker : pc[w] = "wait"}

WorkConserving ==
    Asleep # {} =>
        Cardinality(Awake) + (IF client = "notify" THEN 1 ELSE 0) >= Len(queue_)

\* Once ~ThreadPool() has called notify_all, no worker can be blocked in
\* cv_.wait or block there again: join() waits for running threads only.
NobodySleepsThroughShutdown == client \in {"join", "end"} => Asleep = {}

\* The pool implements the executor its clients see: each submitted task is
\* started once and finished once, and the destructor returns only when no
\* task is queued or running.
StatusOf(t) ==
    IF t > submitted THEN "new"
    ELSE IF \E w \in Worker : task[w] = t THEN "running"
    ELSE IF result[t] # "pending" THEN "finished"
    ELSE "queued"

E == INSTANCE Executor WITH
         status <- [t \in Task |-> StatusOf(t)],
         closed <- (client = "end")

ImplementsExecutor == E!Spec

\* The destructor terminates: no schedule leaves join() waiting forever.
ShutdownCompletes == (client = "close") ~> (client = "end")
===============================================================================
