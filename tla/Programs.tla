------------------------------- MODULE Programs -------------------------------
(***************************************************************************)
(* The programs that run in one process, one at a time: the coroutines     *)
(* (suite Coroutines), the gRPC services of src/grpc_proto, the programs   *)
(* of src/libraries, src/concurrency and src/performance in which threads  *)
(* share a queue, a counter, a pool or futures, and the sequential         *)
(* computations (Kernels).  A behaviour is a run of one program, chosen in *)
(* Init; v1 to v17 are the variables of that program's module, in the      *)
(* order in which it declares them.                                        *)
(***************************************************************************)
EXTENDS Integers, Sequences

VARIABLES program, v1, v2, v3, v4, v5, v6, v7, v8, v9, v10, v11, v12, v13, v14, v15, v16, v17

vars == <<program, v1, v2, v3, v4, v5, v6, v7, v8, v9, v10, v11, v12, v13, v14, v15, v16, v17>>

\* src/coroutines, itself a suite.
Coro == INSTANCE Coroutines WITH
    program <- v1, v1 <- v2, v2 <- v3, v3 <- v4, v4 <- v5, v5 <- v6, v6 <- v7, v7 <- v8, v8 <- v9,
    v9 <- v10, v10 <- v11

\* grpc_proto/04 to 07 and 10: two messages in flight each way.
Calls == INSTANCE GrpcCalls WITH
    Window <- 2, Work <- 3, MaxPoints <- 6,
    kind <- v1, up <- v2, upDone <- v3, down <- v4, hpc <- v5, r <- v6, i <- v7, accepted <- v8,
    rejected <- v9, cancelled <- v10, wi <- v11, wpc <- v12, rdone <- v13, got <- v14,
    trailer <- v15, status <- v16, broken <- v17

\* grpc_proto/08: three calls, two threads on the completion queue.
Async == INSTANCE GrpcAsync WITH
    N <- 3, Workers <- {1, 2},
    state <- v1, req <- v2, registered <- v3, finishing <- v4, cq <- v5, todo <- v6, tag <- v7,
    fresh <- v8, sent <- v9, waiting <- v10, answers <- v11, arrived <- v12, done <- v13,
    mpc <- v14

\* folly/06 and concurrency/06.
Fut == INSTANCE Futures WITH
    Workers <- {1, 2, 3}, Programs <- {"folly", "std"},
    program <- v1, at <- v2, stage <- v3, result <- v4, doing <- v5, queue <- v6, futs <- v7,
    got <- v8

\* boost/07 and folly/03.
Queue == INSTANCE QueueDrain WITH
    Producers <- {1, 2}, Consumers <- {1, 2}, ItemsEach <- 3, Capacity <- 6,
    Demos <- {"spsc", "spsc_relaxed", "mpmc", "drain"},
    demo <- v1, left <- v2, done <- v3, written <- v4, taken <- v5, total <- v6, view <- v7,
    pc <- v8

\* folly/07 and abseil/09.
Ends == INSTANCE Completion WITH
    Workers <- {1, 2}, NumTasks <- 4, Demos <- {"pool", "latch", "barrier"},
    demo <- v1, queue <- v2, submitted <- v3, running <- v4, state <- v5, count <- v6,
    main <- v7

\* concurrency/02 to 05 and 07, raii/04, performance/08 and 10, abseil/08, folly/04,
\* build_tooling/04.  (The cache of folly/10 has a run of its own.)
Mem == INSTANCE SharedMemory WITH
    Demos <- {"guard", "scopes", "fetch_mul", "atomic", "flag", "publish", "acquire_release", "cas",
              "fetch_add", "relaxed", "stats", "absl", "await", "vector", "writers",
              "condvar", "handlers", "condvar_absl", "mutex_price", "atomic_price"},
    demo <- v1, code <- v2, pc <- v3, reg <- v4, hist <- v5, seen <- v6, owner <- v7, upgrader <- v8,
    sharers <- v9, released <- v10, waiting <- v11

\* concurrency/01 and 09 and boost/05: room for late threads and slow callbacks.
Timer == INSTANCE Timers WITH
    Interval <- 2, Cutoff <- 5, Limit <- 3, MaxTime <- 7,
    Demos <- {"one_shot", "repeating", "jthread", "asio"},
    demo <- v1, now <- v2, pc <- v3, begun <- v4, next <- v5, cancelled <- v6, fired <- v7,
    late <- v8, main <- v9, waits <- v10, log <- v11

\* lambdas/03 and 05, boost/10, errors/05 and grpc_proto/09: three handlers, and a
\* client that has the token or another.
Back == INSTANCE Callbacks WITH
    Events <- {"data", "error"}, MaxOn <- 3, Tokens <- {"secret", "other"},
    demo <- v1, slots <- v2, next_id <- v3, live <- v4, fired <- v5, scoped <- v6, guard <- v7,
    call <- v8

\* concurrency/02 and build_tooling/04: scoped_lock, each thread with an order of
\* its own.
Scoped == INSTANCE LockOrder WITH
    Threads <- {1, 2, 3}, Mutexes <- {1, 2, 3}, Rounds <- 2, Scoped <- TRUE,
    Orders <- <<<<1, 2, 3>>, <<3, 2, 1>>, <<2, 3, 1>>>>,
    held <- v1, first <- v2, next <- v3, rounds <- v4

\* The sequential computations: 4-bit ints, arrays of 4, streams of 5.
Kern == INSTANCE Kernels WITH
    Width <- 4, MaxLen <- 4, MaxStream <- 5, Threshold <- 5, BufSize <- 4, Window <- 3,
    Capacity <- 120, SizeBits <- 8,
    kernel <- v1, input <- v2

-------------------------------------------------------------------------------

\* Variables that a program does not have.
rest15 == <<program, v15, v16, v17>>
rest12 == <<v12, v13, v14, rest15>>
rest9 == <<v9, v10, v11, rest12>>
rest8 == <<v8, rest9>>
rest5 == <<v5, v6, v7, rest8>>
rest3 == <<v3, v4, rest5>>

Unused15 == v15 = 0 /\ v16 = 0 /\ v17 = 0
Unused12 == v12 = 0 /\ v13 = 0 /\ v14 = 0 /\ Unused15
Unused9 == v9 = 0 /\ v10 = 0 /\ v11 = 0 /\ Unused12
Unused8 == v8 = 0 /\ Unused9
Unused5 == v5 = 0 /\ v6 = 0 /\ v7 = 0 /\ Unused8
Unused3 == v3 = 0 /\ v4 = 0 /\ Unused5

Init ==
    \/ program = "coroutines" /\ Coro!Init /\ Unused12
    \/ program = "calls" /\ Calls!Init
    \/ program = "async" /\ Async!Init /\ Unused15
    \/ program = "futures" /\ Fut!Init /\ Unused9
    \/ program = "queues" /\ Queue!Init /\ Unused9
    \/ program = "completion" /\ Ends!Init /\ Unused8
    \/ program = "memory" /\ Mem!Init /\ Unused12
    \/ program = "timers" /\ Timer!Init /\ Unused12
    \/ program = "callbacks" /\ Back!Init /\ Unused9
    \/ program = "locks" /\ Scoped!Init /\ Unused5
    \/ program = "kernels" /\ Kern!Init /\ Unused3

\* main(), and what a program on one thread does,
Main ==
    \/ program = "coroutines" /\ Coro!Alone /\ UNCHANGED rest12
    \/ program = "calls" /\ Calls!Writer /\ UNCHANGED program
    \/ program = "async" /\ Async!MainStep /\ UNCHANGED rest15
    \/ program = "futures" /\ Fut!Main /\ UNCHANGED rest9
    \/ program = "completion" /\ Ends!Main /\ UNCHANGED rest8
    \/ program = "timers" /\ Timer!Main /\ UNCHANGED rest12
    \/ program = "callbacks" /\ (Back!Guarded \/ Back!Intercepted) /\ UNCHANGED rest9

\* the client's other thread,
Client ==
    \/ program = "calls" /\ Calls!Reader /\ UNCHANGED program
    \/ program = "async" /\ Async!ClientStep /\ UNCHANGED rest15

\* handlers and workers of a pool, consumers,
Worker(w) ==
    \/ program = "coroutines" /\ Coro!PoolWorker(<<"c1", "c2", "i1">>[w]) /\ UNCHANGED rest12
    \/ program = "calls" /\ w = 1 /\ Calls!Handler /\ UNCHANGED program
    \/ program = "async" /\ w \in {1, 2} /\ Async!WorkerStep(w) /\ UNCHANGED rest15
    \/ program = "futures" /\ Fut!Worker(w) /\ UNCHANGED rest9
    \/ program = "completion" /\ w \in {1, 2} /\ Ends!Worker(w) /\ UNCHANGED rest8
    \/ program = "queues" /\ w \in {1, 2} /\ Queue!Consume(w) /\ UNCHANGED rest9
    \/ program = "timers" /\ w = 1 /\ (Timer!Thread \/ Timer!Handler) /\ UNCHANGED rest12

\* producers, and threads that end at a latch or a barrier;
Thread(k) ==
    \/ program = "queues" /\ k \in {1, 2} /\ Queue!Produce(k) /\ UNCHANGED rest9
    \/ program = "completion" /\ Ends!Thread(k) /\ UNCHANGED rest8
    \/ program = "memory" /\ k <= 3 /\ Mem!Thread_Step(k) /\ UNCHANGED rest12

\* a pop that sees an item, which Worker has too,
PopSees(c) == program = "queues" /\ Queue!Pop(c) /\ UNCHANGED rest9

\* a compare_exchange that succeeds and a mutex that is got, which Thread has too,
GetsThrough(k) ==
    program = "memory" /\ (Mem!CasStep(k) \/ Mem!LockStep(k) \/ Mem!Relock(k)) /\ UNCHANGED rest12

\* the clock,
Tick == program = "timers" /\ Timer!Tick /\ UNCHANGED rest12

\* gRPC: what a deadline, a cancelled call, a new call and a response set off,
Deadline == program = "calls" /\ Calls!Deadline /\ UNCHANGED program
Notice == program = "calls" /\ Calls!Notice /\ UNCHANGED program
Match == program = "async" /\ Async!Match /\ UNCHANGED rest15
SendDone == program = "async" /\ Async!SendDone /\ UNCHANGED rest15

\* and what need not happen: a cancellation, a broken connection, a spurious wake-up,
\* another handler or event, one more critical section or input.
Optional ==
    \/ program = "coroutines" /\ Coro!CancelStep /\ UNCHANGED rest12
    \/ program = "calls" /\ Calls!Break /\ UNCHANGED program
    \/ program = "memory" /\ Mem!Spurious /\ UNCHANGED rest12
    \/ program = "callbacks" /\ Back!Registered /\ UNCHANGED rest9
    \/ program = "locks" /\ Scoped!Next /\ UNCHANGED rest5
    \/ program = "kernels" /\ Kern!Next /\ UNCHANGED rest3

Next ==
    \/ Main \/ Client \/ Deadline \/ Notice \/ Match \/ SendDone \/ Tick \/ Optional
    \/ \E w \in 1 .. 3 : Worker(w)
    \/ \E k \in 1 .. 4 : Thread(k)

\* Threads that can run do; a deadline passes, the end of a call reaches the
\* server, and gRPC completes what it was asked for.  A push becomes visible in the
\* end: pop succeeds if it can again and again, and so do a compare_exchange
\* and a lock.
Fairness ==
    /\ WF_vars(Main) /\ WF_vars(Client)
    /\ WF_vars(Deadline) /\ WF_vars(Notice) /\ WF_vars(Match) /\ WF_vars(SendDone)
    /\ \A w \in 1 .. 3 : WF_vars(Worker(w))
    /\ \A k \in 1 .. 4 : WF_vars(Thread(k))
    /\ \A c \in 1 .. 2 : SF_vars(PopSees(c))
    /\ \A k \in 1 .. 3 : SF_vars(GetsThrough(k))
    /\ WF_vars(Tick)

Spec == Init /\ [][Next]_vars /\ Fairness

-------------------------------------------------------------------------------
(* Properties.                                                             *)

\* The variables of every program have their types; no queue of gRPC holds more
\* than the window, no counter runs past its loop.
TypeOK ==
    CASE program = "coroutines" -> Coro!TypeOK
      [] program = "calls" -> Calls!TypeInv
      [] program = "async" -> Async!TypeInv
      [] program = "queues" -> Queue!TypeInv
      [] program = "completion" -> Ends!TypeInv
      [] program = "memory" -> Mem!TypeInv
      [] program = "timers" -> Timer!TypeInv
      [] program = "callbacks" -> Back!TypeInv
      [] program = "locks" -> Scoped!TypeInv
      [] OTHER -> TRUE

\* A suspended coroutine has one resumer (src/coroutines).
ResumedOnce == program = "coroutines" => Coro!ResumedOnce

\* A program of src/coroutines ends with what the same computation without coroutines
\* gives.
CoroutinesRight == program = "coroutines" => Coro!ResultsRight

\* Control is on the stack depth, the pool or the turn that src/coroutines promises.
ControlInTurn == program = "coroutines" => Coro!ControlInTurn

\* Nothing is lost, doubled or out of order: responses arrive as they were written
\* and a client that is told OK has them all; a call is answered once whichever
\* thread takes its events; every item is received and counted once, by folly's relaxed
\* consumer if it sees the last push; ticks stay evenly spaced; the futures give what
\* the comments say; handlers fire once each while they are registered, and a call that
\* is refused gets no answer.
ResultsRight ==
    CASE program = "calls" -> Calls!InOrder /\ Calls!OkMeansAll
      [] program = "async" -> Async!AnsweredOnce
      [] program = "futures" -> Fut!PrintsRight
      [] program = "queues" -> Queue!AllReceived /\ Queue!ReceivedIfSeen /\ Queue!CountsMatch
      [] program = "timers" -> Timer!EvenlySpaced /\ Timer!AsioRight
      [] program = "callbacks" -> Back!EmitsExactly /\ Back!CleansUp /\ Back!Authorised
      [] OTHER -> TRUE

\* Threads that share memory under a mutex, by atomic operations or by a published flag:
\* no plain variable is raced for, no increment is lost, what a flag or a lock publishes
\* is seen, and the results are those of the comments.
SharedRight == program = "memory" => Mem!NoDataRace /\ Mem!Outcome

\* Nobody goes on too early: no thread is in a CallData that another has deleted, no
\* call is asked for after the shutdown of the queue and one CallData is left at the
\* end; join(), Wait() and Block() return when all have arrived; a cancelled timer calls
\* back once more at most, and never after its destructor.
NobodyTooEarly ==
    CASE program = "async" -> /\ Async!NoUseAfterDelete /\ Async!NoRequestAfterShutdown
                              /\ Async!OneLeftAtEnd
      [] program = "completion" -> Ends!JoinMeansAll /\ Ends!PhasesApart
      [] program = "timers" -> Timer!CutOff /\ Timer!NeverDangling
      [] OTHER -> TRUE

\* "both locked, deadlock-free": while a thread has critical sections to go, one of
\* those that have can move.
NoDeadlock == program = "locks" => Scoped!NoDeadlock /\ Scoped!HoldsInAttempt

\* The sequential computations are right where they are defined,
ComputesRight == program = "kernels" => Kern!ComputesRight

\* and what they keep is kept in its place.
StoredRight == program = "kernels" => Kern!StoredRight

\* Coroutines and their pools end.  Every call ends for the client and for the server,
\* which can shut down; every future gets its result; consumers leave, no wake-up being
\* lost; retry loops end; main() gets past join().
Completes ==
    <>(CASE program = "coroutines" -> Coro!Finished
         [] program = "calls" -> Calls!Finished
         [] program = "async" -> Async!Finished
         [] program = "futures" -> Fut!Finished
         [] program = "queues" -> Queue!Ended
         [] program = "completion" -> Ends!AtEnd
         [] program = "memory" -> Mem!Finished
         [] program = "timers" -> Timer!AtEnd
         [] program = "callbacks" -> Back!Finished
         [] OTHER -> TRUE)
================================================================================
