------------------------------- MODULE Scheduler -------------------------------
(***************************************************************************)
(* class Scheduler and the jobs of src/coroutines/06_scheduler.cpp: a      *)
(* single-threaded round-robin scheduler of coroutines.  main() spawns a   *)
(* batch of jobs and calls run(); a job runs from one suspension point to  *)
(* the next in one action.  The batches of main() are among those checked. *)
(***************************************************************************)
EXTENDS Integers, Sequences, SequencesExt

CONSTANTS MaxSteps,   \* bound on the argument of counter, producer, consumer
          MaxBatch    \* bound on the number of jobs that main() spawns

\* A job, its argument, and the job that spawned it (0: main).
Child(k, n, p) == [kind |-> k, n |-> n, by |-> p]
Job(k, n) == Child(k, n, 0)

Counters == {Job("counter", n) : n \in 0 .. MaxSteps}

\* Jobs that do not depend on others, and a producer with its consumer.
Batches ==
    SeqOf(Counters \cup {Job("spawner", 0)}, MaxBatch)
      \cup UNION {{<<Job("producer", n), Job("consumer", n), c>>,
                   <<Job("consumer", n), c, Job("producer", n)>>} :
                      n \in 1 .. MaxSteps, c \in Counters}

VARIABLES
    jobs,          \* the jobs spawned so far; their handles are 1 .. Len(jobs)
    ready_,
    turns,         \* how often each handle has been resumed
    frame,         \* "suspended" at a yield, or at "final" suspension
    shared_queue, received,
    run            \* "loop" while run() executes, then "returned"

vars == <<jobs, ready_, turns, frame, shared_queue, received, run>>

Handle == 1 .. Len(jobs)

TypeInv ==
    /\ ready_ \in Seq(Handle)
    /\ DOMAIN turns = Handle
    /\ \A j \in Handle : turns[j] \in Nat
    /\ frame \in [Handle -> {"suspended", "final", "destroyed"}]
    /\ shared_queue \in Seq(0 .. MaxSteps - 1)
    /\ received \in 0 .. MaxSteps
    /\ run \in {"loop", "returned"}

\* spawn() for each job of the batch, then run().
Init ==
    /\ jobs \in Batches
    /\ ready_ = [j \in 1 .. Len(jobs) |-> j]
    /\ turns = [j \in 1 .. Len(jobs) |-> 0]
    /\ frame = [j \in 1 .. Len(jobs) |-> "suspended"]
    /\ shared_queue = <<>>
    /\ received = 0
    /\ run = "loop"

-------------------------------------------------------------------------------

\* enqueue(h), called by spawn() and by the awaiter of yield().
Enqueued(q, j) == Append(q, j)

\* A job's turns, counted up to a bound that no job of the batches needs.
TurnBound == 2 * MaxSteps + 4
Turned(j) == [turns EXCEPT ![j] = IF @ < TurnBound THEN @ + 1 ELSE @]

rest == Tail(ready_)

\* The running job suspends in co_await sched.yield().
Yield(j) ==
    /\ ready_' = Enqueued(rest, j)
    /\ UNCHANGED <<jobs, frame>>
    /\ turns' = Turned(j)

\* The running job reaches the end of its body.
Finish(j) ==
    /\ ready_' = rest
    /\ frame' = [frame EXCEPT ![j] = "final"]
    /\ turns' = Turned(j)
    /\ UNCHANGED jobs

CounterLoops(j) == turns[j] < jobs[j].n

Counter(j) ==
    /\ jobs[j].kind = "counter"
    /\ IF CounterLoops(j) THEN Yield(j) ELSE Finish(j)
    /\ UNCHANGED <<shared_queue, received>>

Producer(j) ==
    /\ jobs[j].kind = "producer"
    /\ IF turns[j] < jobs[j].n
       THEN Yield(j) /\ shared_queue' = Append(shared_queue, turns[j])
       ELSE Finish(j) /\ UNCHANGED shared_queue
    /\ UNCHANGED received

\* Defect: an item that was taken is not counted.
Counted_Forgotten == received

Counted == received + 1

\* The consumer yields also when it found the queue empty.
Consumer(j) ==
    /\ jobs[j].kind = "consumer"
    /\ IF received >= jobs[j].n
       THEN Finish(j) /\ UNCHANGED <<shared_queue, received>>
       ELSE /\ Yield(j)
            /\ IF shared_queue # <<>>
               THEN shared_queue' = Tail(shared_queue) /\ received' = Counted
               ELSE UNCHANGED <<shared_queue, received>>

\* Defect: a handle that was moved from is enqueued.
SpawnQueue_Miscounted(j) ==
    Enqueued(Enqueued(Enqueued(rest, Len(jobs) + 2), Len(jobs) + 3), j)

\* The two sub-tasks enter the queue before the spawner yields.
SpawnQueue(j) == Enqueued(Enqueued(Enqueued(rest, Len(jobs) + 1), Len(jobs) + 2), j)

Spawner(j) ==
    /\ jobs[j].kind = "spawner"
    /\ \/ /\ turns[j] = 0
          /\ jobs' = jobs \o <<Child("counter", 2, j), Child("counter", 2, j)>>
          /\ ready_' = SpawnQueue(j)
          /\ turns' = [turns EXCEPT ![j] = 1] \o <<0, 0>>
          /\ frame' = frame \o <<"suspended", "suspended">>
       \/ /\ turns[j] > 0
          /\ Finish(j)
    /\ UNCHANGED <<shared_queue, received>>

\* One iteration of the loop in run().
Resume ==
    /\ run = "loop"
    /\ ready_ # <<>>
    /\ LET h == Head(ready_) IN Counter(h) \/ Producer(h) \/ Consumer(h) \/ Spawner(h)
    /\ UNCHANGED run

RunReturns ==
    /\ run = "loop"
    /\ ready_ = <<>>
    /\ run' = "returned"
    /\ UNCHANGED <<jobs, ready_, turns, frame, shared_queue, received>>

Next == Resume \/ RunReturns

Spec == Init /\ [][Next]_vars

-------------------------------------------------------------------------------
(* Properties.                                                             *)

\* Round robin: of two unfinished jobs that were spawned together, the earlier
\* one is at most one turn ahead and never behind, whatever the other jobs do
\* and however many jobs they spawn.
RoundRobin ==
    \A a, b \in Handle :
        /\ a < b
        /\ jobs[a].by = jobs[b].by
        /\ frame[a] = "suspended"
        /\ frame[b] = "suspended"
        => turns[a] - turns[b] \in {0, 1}

\* Every unfinished coroutine is in the ready queue exactly once, a finished
\* one is not: no handle is lost or resumed after its final suspension.
ReadyExactlyOnce ==
    \A j \in Handle :
        Len(SelectSeq(ready_, LAMBDA x : x = j))
          = (IF frame[j] = "suspended" THEN 1 ELSE 0)

\* "drain the queue until all tasks complete": when run() returns, every job
\* has run its whole body, those spawned by jobs included, and the consumer
\* has taken everything the producer pushed.
TurnsNeeded(job) ==
    IF job.kind = "spawner" THEN 2 ELSE job.n + 1

AllComplete ==
    run = "returned" =>
        /\ \A j \in Handle : frame[j] = "final" /\ turns[j] >= TurnsNeeded(jobs[j])
        /\ \A j \in Handle : jobs[j].kind = "consumer" => received = jobs[j].n
        /\ shared_queue = <<>>

================================================================================
