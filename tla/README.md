# Verification of applied-cpp

TLA+ models of the stateful parts of this repository: what they promise, checked
by TLC on small instances and, for the parts many others resemble, proved with
TLAPS for every value of the constants. `PROJECT.json` is the machine-readable
index: components and their modules, runs, the lines each definition models,
mutants, hazards, findings and theorems. Paths below are relative to `src/`.

Contents: [the system](#the-system) · [how the models are
built](#how-the-models-are-built) · [modules](#modules) · [runs](#runs) ·
[bounds](#bounds) · [fairness](#fairness) · [proofs](#proofs) ·
[findings](#findings) · [not modelled](#not-modelled) ·
[running it](#running-it)

## The system

The repository is a course: fifteen topics, each a directory of small complete
programs (188 files). Programs do not call each other. What interacts is inside
a program: threads over a queue, processes over a pipe or a shared segment, a
client and a server over a socket, coroutines over a scheduler. The inventory:

| directory | parts with state | the rest |
|---|---|---|
| `concurrency/` | thread pool, mutexes, futures, posted handlers, producer and consumers, timers, atomics and publication | starting and joining single threads |
| `coroutines/` | tasks and continuations, awaitables, thread hopping, scheduler, pipelines, `when_all`, cancellation, asio sessions | |
| `networking/` | TCP echo, ping-pong, non-blocking I/O, UDP feed and gap detection, multicast, readiness loops, Unix sockets, zero-copy transfer, io_uring, framing, reconnection and pooling | option setting |
| `system_calls/` | files, links, mappings and replacement, shared memory, fork and wait, signals, pipes, poll/epoll/kqueue loops, file locks and lock files | durability |
| `grpc_proto/` | the synchronous calls, the asynchronous server, interceptors | messages |
| `libraries/` | queues, executors, futures, counters, latches and barriers, CondVar, `Synchronized`, Asio timers and echo server, signals, pools and arenas | containers and utilities |
| `performance/` | SPSC ring, lock-free counters, latency statistics, sample ring and histogram, arena, the computations that are timed | measurements |
| `raii/`, `oop/` | owning classes, scoped locks | value classes, dispatch |
| `lambdas/`, `testing/`, `build_tooling/`, `errors/` | event emitter and bus, scope guard, order book, lock order, checked arithmetic | language and framework features |
| `algorithms/`, `templates/` | | straight-line programs |

`components` in `PROJECT.json` lists every source file with its module or the
reason why it has none.

## How the models are built

*One module per component*: its objects and locals as variables, one action per
step that others can observe, and `Next`. A step ends where another thread,
process or the kernel may come in between: at an atomic access, at a lock or
unlock, at a system call, at a suspension point. Under a mutex nobody else can
look, so a critical section is one action (`ThreadPool!Pop`); a plain load and
store of a shared variable are two (`SharedMemory!Increment`).

*What is modelled of the environment.*

- Condition variables: a set of sleeping threads, `notify_one` wakes any of
  them, spurious wake-ups happen at any time (`ThreadPool!SpuriousWakeup`).
- Atomics and plain variables that threads share: `SharedMemory` keeps the stores
  to each variable and how far each thread must have seen them. A load may return
  any store that is not older; a release store hands what its thread has seen to
  the acquire load that reads it, an unlock to the next lock, the end of a thread
  to `join()`. The SPSC ring has its own form of it (`lagH`, `lagT`), and so have
  the relaxed `done` and the indices of the queues in `QueueDrain`. Elsewhere the
  code uses the default order, and steps interleave.
- Time: `Timers` has a discrete clock; a thread runs when it is due or later, and a
  callback takes any time.
- Sockets and pipes: bounded buffers; every call may move any non-empty part of
  what it could. Peers may be early, late, or reset the connection.
- UDP and multicast: loss, overtaking, and datagrams before the bind or the join.
- Processes: file descriptors, open file descriptions, inodes and names are
  separate things, because that is where lock files go wrong; processes crash
  between any two calls where the file deals with crashes.
- Sleeps that only order two threads in practice order nothing in the model.
  Timeouts may expire whenever what they wait for is not there. `SocketPatterns`
  adds up the delays of the backoff.
- gRPC, Folly, Boost, Abseil: modelled from how the code uses them and marked
  external in the map.

*Data* is what the properties tell apart: a message is its number or its bytes'
positions, a price is the number of its update, a payload is its length.

*Suites.* Programs of one topic do not run together, but they raise the same
questions. A suite module (`Network`, `Processes`, `Programs`, and `Coroutines`
inside `Programs`) has a variable `program` that `Init` sets and nobody changes, and
variables `v1`, `v2`, ... that are, by `INSTANCE ... WITH`, the variables of the
module of that program, in the order in which it declares them. Its behaviours
are exactly those of its components, one program each; its properties ask one
question of every program in the topic (a `CASE` on `program`), and each
component module states what the question means for it. Fairness is stated in
the suite, per thread or process. The constants of the components are given in
the `INSTANCE`s, which are the place to read the bounds.

*Abstract specifications.* `Executor` is what a queue with workers promises
(every task runs once, by one worker, and closing waits for all); `ThreadPool`
implements it. `BoundedFifo` is a channel of bounded size; `SpscQueue`
implements it. The refinement mappings are `INSTANCE ... WITH` in the detailed
modules; the abstract specifications are checked as properties and proved.

*Defects.* Before some definitions stands a variant marked `\* Defect:`, with
the change a plausible mistake in that code would make: a dropped guard, an
off-by-one, a swapped order. They are not part of any specification.
`mutants` in `PROJECT.json` pairs each property with one, and with that
definition in place TLC finds the property violated: no property holds merely by
the shape of its model.

## Modules

Four components have a specification with constants and a run of their own.

| module | code | state and actions |
|---|---|---|
| `ThreadPool` | `concurrency/08_thread_pool.cpp` | `queue_`, `done_`, a program counter and current task per worker, the client with its futures. `Block`, `Pop`, `Exit`, `Run` are the passes of `work()`; `SubmitPush`/`SubmitNotify` the two halves of `submit()` on each side of the unlock; `CloseSetDone`, `CloseNotify`, `Join` the destructor |
| `Executor` | | what the pool promises: submit, start once, finish once, close |
| `SpscQueue` | `performance/08_lockfree.cpp` | `head_`, `tail_`, `buf_`, how far each side's copy of the other's index lags, and the two loops of `demo_spsc`. One action per load, slot access and store |
| `BoundedFifo` | | a FIFO of at most `Bound` messages |
| `Seqlock` | `system_calls/04_mmap_ipc.cpp` | the shared record (`seq`, `mid`, `spread`, `n_updates`); the child's five stores and the parent's loads are one action each |
| `Ownership` | `raii/01`–`03`, `oop/05_copy_and_swap.cpp`, `errors/04_exception_safety.cpp` | which object points to which resource, for five owning classes; `Construct`, `Copy`, `Move`, `Destroy`, `Assign`, `MoveAssign`, and copy-and-swap as `CopyParam`/`MoveParam`, `Swap`, `EndParam` |

The proofs of the thread pool are in `ThreadPoolProofs`; the others stand at the end
of `SpscQueue`, `Seqlock`, `Ownership`, `LockOrder`, `Timers` and `WhenAll`.

The other components are run by their suite.

| suite | module | code |
|---|---|---|
| `Coroutines` (in `Programs`) | `CoroTask` | `coroutines/02`, `03`, `04`: frames, continuations, symmetric transfer, awaitables, exceptions |
| | `Pipeline` | `coroutines/01`, `07`: lazy sources and adaptors |
| | `ThreadHop` | `coroutines/05`: a coroutine that moves between two pools |
| | `Scheduler` | `coroutines/06`: round-robin jobs |
| | `Cancellation` | `coroutines/10`: timer thread against stop callback |
| | `WhenAll` | `coroutines/09`: wrappers that count down, a parent, a pool, frames that are destroyed early |
| `Network` | `TcpEcho`, `PingPong` | `networking/01`, `02`: echo with length prefix; round trips |
| | `UdpFeed`, `Multicast` | `networking/04`, `05`: datagrams, gap detection, groups |
| | `UnixSockets`, `FileSend` | `networking/07`, `08`: local sockets; `sendfile` and `splice` |
| | `Framing`, `SocketPatterns` | `networking/10`: framed protocol; connect, reconnect, pool |
| | `EventDemos`, `EventLoop` | `networking/06`, `system_calls/08`, `10`: select, poll, epoll, kqueue |
| | `NonblockingIo`, `IoUring` | `networking/03`, `09` |
| | `AsioEcho` | `libraries/boost/06`, `coroutines/08` |
| `Processes` | `PipeFork`, `ForkReap` | `system_calls/05`, `07`: ends of pipes, EOF; who reaps whom |
| | `Signals` | `system_calls/06`: flags, masks, nested handlers |
| | `FileLocks`, `PidLockFile` | `system_calls/09`: flock, fcntl records, the PID file |
| | `Files` | `system_calls/01`–`04`: scripts of system calls on descriptors, inodes and names; appending, replacement, `O_EXCL`, mappings, the named segment |
| `Programs` | `GrpcCalls`, `GrpcAsync` | `grpc_proto/04`–`08`, `10` |
| | `Futures`, `Completion` | `concurrency/06`, `libraries/folly/06`, `07`, `libraries/abseil/09` |
| | `QueueDrain` | `libraries/boost/07`, `libraries/folly/03` |
| | `SharedMemory` | `concurrency/02`–`05`, `07`, `raii/04`, `performance/08`, `10`, `libraries/abseil/08`, `libraries/folly/04`, `10`, `build_tooling/04`: each function a script of loads, stores, compare-exchanges, locks, waits and notifications, one action per kind of step |
| | `Timers` | `concurrency/01`, `09`, `libraries/boost/05`: one-shot, repeating, jthread, Asio timers and strand |
| | `Callbacks` | `lambdas/03`, `05`, `libraries/boost/10`, `errors/05`, `grpc_proto/09`: handlers, slots, scope guard, interceptors |
| | `LockOrder` | `concurrency/02`, `build_tooling/04` |
| | `Kernels` | `performance/01`–`07`, `09`, `10`, `build_tooling/03`, `libraries/boost/08`, `09`, `libraries/folly/09`, `testing/02`: a kernel and the inputs it has been fed; one action, `Feed`. Each kernel is an operator on the inputs, beside its reference definition. An `int` has `Width` bits and the result of an overflow is any `int`; a `size_t` has `SizeBits` bits and wraps; doubles are exact |

The comment at the head of each module says how its state corresponds to the
code and where a step begins and ends; `map` gives the lines of every
definition.

## Runs

Seven runs pass. In each, every action and every alternative of the next-state
relation fires. Times are for two TLC workers.

| run | distinct states | what it asks and finds |
|---|---|---|
| `pool` | 15,107 | Does a notification sent outside the lock ever get lost? No: while a worker sleeps there are enough awake to take what is queued (`WorkConserving`). Every task is in exactly one place (`TaskAccounting`), the destructor returns (`ShutdownCompletes`) with nothing left (`DrainedAtShutdown`), and all of it is an `Executor`. |
| `spsc` | 10,312 | May both sides work with old indices? Yes: no slot is read and written at once (`NoDataRace`), messages come in order (`InOrder`), the ring is a `BoundedFifo`, and all is delivered although both only spin. |
| `seqlock` | 15,855 | Can the reader print half an update? No (`NotTorn`, from the inductive `SeqlockInv`); labels grow (`LabelsIncrease`) and the polling ends. |
| `ownership` | 352,204 | Is there a sequence of calls on an owning class that frees twice, leaks, or aliases two values? No (`NoDoubleFree`, `OneOwner`, `ValueRight`), also between the steps of copy-and-swap and for self-assignment and self-move. A moved-from object stands for no value, and neither does a copy of it, which reads through null: what is in that copy is left open. |
| `network` | 301,792 | Does a stream cut anywhere confuse a receiver (`ReceivedAsSent`), or a lost, early or overtaken datagram the counters (`DatagramsCounted`)? Does a byte or a descriptor vanish (`NothingLeaks`)? Is an event lost between the report and the reads, at the registration, or at a hang-up with data unread (`EventsAccounted`, `AllRead`)? No; but a thread may wait for ever in the cases that `Completes` names (see [fairness](#fairness)). |
| `processes` | 177,220 | Are children collected once and is everything written to a pipe read (`CollectedOnce`); are files replaced in one step and appended to without loss (`FilesRight`); do locks and lock files exclude across unlink, fork and crash (`LockedOut`); does anyone wait for ever (`Completes`)? |
| `programs` | 256,874 | Who resumes a suspended coroutine? Exactly one (`ResumedOnce`); it computes what straight-line code would (`CoroutinesRight`), on the stack depth, pool or turn promised (`ControlInTurn`). Are responses, items, ticks, callbacks and results complete and in order (`ResultsRight`); are shared variables right whatever old values loads return (`SharedRight`); is anything used before it is ready or after it is gone (`NobodyTooEarly`); can threads with opposite lock orders block each other (`NoDeadlock`)? Do reordered, branchless, unrolled, vectorised and checked computations agree with the plain ones where these are defined (`ComputesRight`); are blocks, chunks and members aligned and apart, windows and books as the code keeps them at every prefix (`StoredRight`)? Does every call, future, timer, wait and join end (`Completes`)? |

`TypeOK` and `TypeInv` are the type invariants. Some of the conjuncts that a
question stands for:

- `WorkConserving` counts: workers on their way to the mutex, plus the
  notification still to be sent, cover the queue whenever somebody sleeps. A
  weaker form ("not everybody sleeps while the queue is not empty") would hold
  for a pool that serialises its tasks.
- `EventDemos!NoLostEdge`: an edge-triggered server never goes back to wait with
  unread data and no edge to come.
- `GrpcAsync!NoUseAfterDelete`: an event for a `CallData` may be taken by a
  second worker while the first is still inside `Proceed`; the order in which
  `Proceed` sets its state and starts the next operation makes that safe.
- `FileSend!Conserved`: every byte is in the file, the pipe, the socket or
  received, after any sequence of short counts. That a byte may stay in the pipe
  is `StuckInPipe`, a case of `Completes`.
- `UdpFeed!GapsExact`: the gap counter, a fold over what has arrived, counts
  exactly the numbers that had not been seen when a higher one was; without
  overtaking these are the ones that are missing.
- `Pipeline!FinishedRight` compares the elements a consumer gets with the same
  operations on sequences, for all pipelines of up to three adaptors.
- `SharedMemory!NoDataRace`: at a plain access a thread has seen every store to the
  variable, and no other thread is at one that conflicts; it holds in each demo
  only because of the ordering that its locks or its release and acquire give.
- `Files!ReplacedAtOnce`: a reader that opens the final path at any moment has all
  that was in the new file when it was renamed, or finds none.
- `QueueDrain!ReceivedIfSeen`: with the relaxed `done` of `libraries/folly/03` the
  consumer has received everything if it saw the last push; `AllReceived` is claimed
  of the other demos.
- `Timers!CutOff` allows one callback after `cancel()`, which the code does too.
- `WhenAll!OneResumer` with `ResultsComplete`: the decrement decides who is last,
  whatever became of the frames in the meantime.

Five runs end in a violation; see [findings](#findings).

Deadlock is checked in `pool`, `spsc` and `seqlock`, whose specifications have
an explicit final step. The other programs end, or wait for a peer that has
gone, and their cfgs say `CHECK_DEADLOCK FALSE`; that they do not stop too early
is `Completes`.

## Bounds

| where | bound | why it is enough |
|---|---|---|
| `ThreadPool` | 3 workers, 4 tasks | more tasks than workers, and a worker asleep, one awake and one running at once |
| `SpscQueue` | `Capacity` 8, `N` 20 | fills, empties and wraps more than twice; every lag up to the capacity |
| `Seqlock` | 5 updates | a reader overtaken by several updates, and by none |
| `Ownership` | 3 objects, 4 resources, 2 values | self-, two- and three-party assignments with the by-value parameter as a fourth owner; a copy of a moved-from object, and of that copy |
| `Kernels` | 4-bit integers, arrays of 4, streams of 5, ring of 4, window of 3, arena of 120 bytes with an 8-bit `size_t` | every pair of 4-bit integers, so both ends of the range; rings and windows wrap; a vector of four and what is left of an array; the arena runs out, is used again after a reset, and is asked for more than `size_t` can add up |
| `CoroTask` | chains of 3 and 4 | an inner coroutine that both awaits and is awaited |
| `Pipeline` | 3 adaptors; sources of 0, 4 and endless, `MaxSource` 10 | every pair of adaptors with a third before or after; `MaxSource` only stops pipelines that would pull for ever |
| `ThreadHop`, `WhenAll`, `Scheduler` | 2 requests and 3 threads; the 3 tasks of `main` on 2 threads; batches of 3 jobs of up to 4 steps | two coroutines in one queue; two children that count down at once while a third waits; a spawn in the middle of a round |
| TCP modules | messages of 1–3 bytes, buffers of 2–5 bytes | every cut of a prefix and a payload, and a full buffer in the middle of each |
| `UdpFeed`, `Multicast` | 4 datagrams; 2 receivers, 3 packets | loss at the start, middle and end, and all overtakings, per receiver |
| `SocketPatterns` | 4 attempts, pool of 3, 4 descriptors, 4 operations by 2 users (`MaxOps`) | descriptors run out and are reused; two users at the limit |
| `EventDemos`, `EventLoop` | `MaxRounds` 3; 3 feeds of 2 ticks | several ready descriptors in one report |
| `IoUring` | the code's 20 turns, and 7 | 7 are used up in the middle of a message |
| `PipeFork`, `ForkReap`, `Signals` | pipe of 3 for 5 pieces; the code's numbers; 2 signals from outside (`MaxExtra`) | the writer blocks; the 10 polls run out; a handler inside a handler |
| `FileLocks`, `PidLockFile` | 3 instances | one that unlinks, one that creates anew, one that holds the old file |
| `GrpcCalls`, `GrpcAsync` | window 2, 6 points; 3 calls, 2 workers | flow control blocks; two workers on one `CallData` |
| `QueueDrain`, `Completion`, `LockOrder` | 2 + 2 threads of 3 items; 4 tasks on 2 workers; 3 threads and mutexes, 2 rounds | two of each role at once; cyclic orders of length three |
| `SharedMemory` | 3 threads, up to 3 repetitions of a loop | two consumers or readers beside a producer or writer; a thread between another's load and store. `concurrency/02` and `raii/04` call some functions from one thread or not at all; the model runs them on several, as they are written for |
| `Timers` | interval 2, cancelled from time 5, clock to 7 | a thread or callback late by more than an interval, a cancellation before, at and after a tick |
| `Files` | 3 appending or locking processes, 2 updates | two contenders beside a holder that is killed |
| `Callbacks` | 3 registrations of 2 events | one handler removed between two that stay |

No run uses symmetry: most have liveness properties.

## Fairness

Weak fairness of each thread, process or handler that is ready: the operating
system schedules it. Nothing more is assumed of optional behaviour: no fairness
of crashes, resets, broken connections, spurious wake-ups, signals from outside,
further calls by a user, or datagram loss as opposed to delivery. The additions:

- `SpscQueue`: a load that sees the current index happens if one is tried again
  and again (`WF` of `PushLoad(0)` and `PopLoad(0)`): a store becomes visible in
  finite time, as the C++ standard asks of implementations. `PopSees` in
  `Programs` (strong fairness) is the same for the library queues.
- `GetsThrough` in `Programs` (strong fairness): a thread that tries a
  compare-exchange or a mutex again and again gets it once. The standard promises
  no such fairness of a mutex, but here every rival runs a finite script, so a
  thread that loses for ever would lose to nobody; what the assumption excludes is
  a `compare_exchange_weak` that fails spuriously for ever.
- `Programs`: the clock ticks, up to the bound.
- `Processes`: a blocking `flock()` is granted if the lock keeps coming free
  (strong fairness): the kernel wakes its waiters in turn.
- `Programs`: a deadline passes, the server notices that a call is gone, and
  gRPC completes what it was asked for. These are promises of the library.
- `Network`: a datagram under way arrives or is lost in the end.

Under these `Completes` is what a run would check by never hanging. Where the
code can wait for ever, or die, the property names the condition: the feed of
`UdpFeed` ends exactly if nothing was lost, a receiver of `Multicast` unless it
missed a packet, `TcpEcho` and `UnixSockets` unless the client was there first,
`PingPong` and `Framing` unless SIGPIPE ends the process, `FileSend` unless a short
`splice()` into the socket left bytes in the pipe (`StuckInPipe`), `IoUring` unless
pieces used up the server's turns (`OutOfTurns`); a lock file is left only by a
process that was killed.

## Proofs

TLAPS checks every proof; nothing is assumed but the named assumptions on the
constants. `theorems` in `PROJECT.json` lists the results.

**Thread pool** (`PoolAssumption`: `Worker` finite and not empty, `NTask` a
natural number). `TypeCorrect`, then the invariants in an order in which each
uses those before it: `ShutdownOrder` (who may be where once `done_` is set),
`TaskAccounting`, and `WorkConserving`. The last is a statement about a
cardinality; lemmas say how `Awake` changes with each step and the induction goes
through because a worker that blocks has seen an empty queue, and every pushed
task brings one notification. `Drained` follows from the first two.
`NobodySleeps` says that no worker blocks once `notify_all` has been called.
`Refinement` maps a task's status to `Executor`'s: every step is a step of
`Executor` or leaves the mapped variables alone.

**SPSC ring** (`SpscAssumption`: `Capacity >= 2`, `N` a natural number).
`InOrder` is not inductive. The inductive invariant is `RingInv`: types,
`RingShape` (indices differ by the number of messages; a stale copy of `tail_`
makes the ring look only fuller, one of `head_` only emptier; a thread that
passed its test keeps its slot until it publishes) and `RingContents` (slot
`tail_ + k` holds message `received + k`). The arithmetic of wrapping indices is
in lemmas stated once. `RaceFree`, `Delivery` (with the sum that the demo
prints) and `RingIsFifo` follow. Capacity 1, which the code's `static_assert`
admits, gives a ring with no usable slot; nothing instantiates it.

**Seqlock** (`UpdatesAssumption`: at least one update). `SeqlockInv` says where
the writer's fields are relative to `seq` (`WriterShape`), and that what the
reader has loaded since an even `s1` is update `s1 / 2` as long as `seq` still
equals `s1` (`ReaderShape`). `NeverTorn`, `LabelsNotBehind` and the action
property `LabelsGrow` follow.

**Scoped locking** (any sets of threads and mutexes, any naming orders,
`Rounds` a natural number). `HoldsInAttempt`: a thread at the start of an attempt
holds nothing. A thread that holds something only tries, and never blocks; so if
anybody blocks, the holder can move (`ScopedLockNoDeadlock`).

**Timers** (every interval, cut-off and limit). `TimersStop`: a cancelled timer
calls back once more at most, and when a destructor returns the thread has ended
and a one-shot has fired. The strengthening `TimerInv` ties the number of late
callbacks to the place of the thread: after one, it has still to pass the test of
the loop, which it fails.

**when_all** (any number of children and any set of workers). `ParentResumedLast`.
The inductive invariant `WhenAllInv` has `Places` (a child is not launched, in the
queue, or with one worker, and in one place only), `Counted` (`remaining` is the
number of children that have not counted down, and all others have stored their
result) and `Resumed` (whoever takes itself for the last has seen zero). The proof
is about a cardinality: a step either moves a child from one place to another and
leaves the set alone, or takes one child out and decrements.

**Ownership** (`OwnershipAssumption`: finitely many objects, the parameter is
not one of them, null is neither a resource nor a value). `OwnershipInv`: the
resources in use are exactly those pointed to by live objects, each by one, and the
parameter is alive exactly during an assignment. `NeverDoubleFree` and
`AlwaysOneOwner` follow for any number of objects, resources and values.
`ValuesKept` is `ValueRight`, which is inductive with the types of `content` and
`value` (`ValueInv`) and `OwnershipInv`: what is written to belongs to one object.

Only model-checked: the other components of the suites, and every liveness property
(`ShutdownCompletes`, `AllDelivered`, `Completes`), because liveness under
fairness and `ENABLED` are out of the prover's reach. So is induction over data:
that a fold or a recursive function (`UdpFeed!Gaps`, `Pipeline!Reference`, the
kernels) computes the right value is checked for bounded inputs. `RECURSIVE` operators
would cost the SMT backend, so the modules under proof have none.

## Findings

Five violation runs, each against a sentence of the repository:

- `thread_hop_frame`: `sync_wait` in `coroutines/05_thread_hop.cpp` returns at
  the first hop and the `Task` destroys the frame while the pool still
  has the handle; line 33 calls this "perfectly safe across thread boundaries".
- `sentinel`: in `libraries/folly/07_executors.cpp` the sentinel task is taken
  last but may finish first; lines 53–54 say "All prior tasks are guaranteed
  complete now".
- `pid_lock_single`: `demo_pid_lockfile` in `system_calls/09_file_locking.cpp`
  unlinks the path before it opens it, so two instances hold locks on two inodes;
  line 169 calls it a "single-instance trading process".
- `cache_reads`: the readers of `libraries/folly/10_shared_mutex.cpp:60` increment a
  plain counter while they share the lock, and increments are lost; line 40 calls it
  "protected by mu" and line 76 expects "4000 (8 × 500)". (The two accesses also race;
  the model gives such a race the outcome of a load and a store.)
- `best_bid`: `cancel()` in `testing/02_gtest_fixtures.cpp:48` keeps a level without
  orders, whose price `best_bid()` returns; the test at lines 127–131 expects "best is
  now 99.50".

Met while modelling, and part of the models where the module exists:

- `coroutines/04_awaitable.cpp:61`: `unhandled_exception()` is empty, so a task
  that throws looks like one that returned a default value (`CoroTask!Unhandled`), not
  "same as 02_task.cpp" (31). A task that is parked when `sync_wait` returns yields
  the default value in 04 and would throw `bad_variant_access` in 02.
- `coroutines/03_coroutine_handle.cpp:52` and `:94` and parts of
  `coroutines/09_when_all.cpp` are not well-formed C++.
- `coroutines/06_scheduler.cpp:45`: finished frames are never destroyed, although
  line 77 says "scheduler takes ownership".
- `coroutines/10_cancellation.cpp`: `sync_wait` (line 103) reads the result at the
  first suspension; the detached timer resumes a frame that is gone (152); the
  `stop_callback` is a temporary (159), so a later stop wakes nobody.
- `coroutines/09_when_all.cpp:158`: the last child may finish between
  `await_ready` and `await_suspend` and resume a null handle; a task that hops to
  the pool is destroyed with its wrapper while its handle is queued, and
  `main`'s `sync_wait` reads a result that may not be there.
- `networking/03_nonblocking_io.cpp:116` counts reads and prints them as
  messages; `networking/04_udp_basics.cpp:242` reports an overtaken packet as a
  gap and as a duplicate; `networking/05_udp_multicast.cpp:250` ("Both receivers
  get every packet") depends on a sleep; `networking/10_socket_patterns.cpp:217`
  returns a non-blocking socket when `connect()` succeeds at once.
- `networking/08_sendfile_zerocopy.cpp:255`: after a short `splice()` into the
  socket the rest stays in the pipe and is never sent.
- `system_calls/10_epoll_kqueue.cpp:277` says edge-triggered epoll "fires once per
  burst"; both bursts are written before the one wait, which reports one event.
- `system_calls/04_mmap_ipc.cpp`: the label (91) may be ahead of the prices; the
  reader of the named segment ignores `seq` (159), gives up after a second
  `shm_open` (145), and may map the segment before `ftruncate` has given it a size
  and die of SIGBUS.
- `system_calls/05_fork_exec.cpp:183`: `waitpid(-1)` may collect the child that an
  earlier demo gave up on, and leaves one of its own.
- `system_calls/06_signals.cpp:97` blocks only SIGUSR1 in a section "that must not
  be interrupted"; SIGTERM interrupts it. A SIGTERM from outside that comes between
  the first loop and the reset of the flag (149) is erased.
- `system_calls/09_file_locking.cpp:77`: the child opens the path again, and locks
  another inode if the path was unlinked meanwhile.
- `system_calls/01_file_io.cpp`: a short append is continued by a second `write()`
  (103), so that a record is not one of the atomic writes of line 98, and the `O_EXCL` file outlives a crash (125), although line 123 says "The
  OS releases the file when the process dies — crash-safe".
- `system_calls/02_stat_links.cpp:128`: one `write()` whose count nobody looks at, so
  that readers "will always see a complete file" (124) only if it was not short.
- `grpc_proto/09_grpc_interceptors.cpp:87` says "rejects calls missing a token";
  the interceptor only proceeds, and the service rejects.
- `grpc_proto/08_grpc_async.cpp:37` says the replacement `CallData` is made after
  FINISH; the code makes it in PROCESS, which is right.
- `libraries/folly/03_queues.cpp:44` reads `done` relaxed and may leave with items
  unread, against the "190" of line 50 (`QueueDrain!ReceivedIfSeen`).
- `build_tooling/04_tsan.cpp:141` can deadlock, as it is meant to.
- `oop/05_copy_and_swap.cpp:32`: copying a moved-from `String` reads from null.
- `performance/02_memory_layout.cpp` counts seven bytes of padding where the
  layout has ten.
- `performance/07_allocators.cpp:69`: the test for exhaustion wraps near
  `SIZE_MAX`, and a block past the buffer is handed out (`Kernels!Wraps`);
  `testing/07_gmock_actions.cpp:66` resends although the cancel failed.

## Not modelled

- `algorithms/` calls one standard algorithm after another on literal data: a model
  would be of the standard library. `templates/` happens at compile time.
- Most of `oop/`, `lambdas/`, `errors/`: dispatch, captures, operators, error types
  and exceptions in straight-line programs, without state that outlives a call.
- `testing/` but for the order book: pure functions, matchers and mocks; a property
  would restate the assertion of the test. The order router forwards to a mock.
- `build_tooling/`: the ASan and MSan files are defects written for the tools to
  report, undefined from the first statement on; the rest is build configuration.
- Containers, strings, options, logging and serialisation in `libraries/`, protobuf
  messages and arenas in `grpc_proto/`: calls into libraries and generated code in
  one thread, whose results are theirs.
- How long anything takes: the benchmarks' computations are in `Kernels`, their
  clocks are not.
- Inside modelled files: socket options, printing, `perf_event_open`,
  `SA_SIGINFO`, `msync` and `madvise`, the macOS branch of `sendfile`, `zip` in
  `coroutines/07`, the polling generator of `coroutines/10`.
- Weak memory beyond what is described above; power failures (crashes kill
  processes, the page cache survives).

Library internals (gRPC, Folly, Boost, Abseil, the kernel) are modelled from
their use and marked external in the map. `readIfEmpty` in
`libraries/folly/03_queues.cpp` does what the comment beside it says;
`collectAll` returns its results in the order of its inputs.

## Running it

In this directory:

    tlc -workers 2 -config Programs.cfg Programs     # one run; likewise the others
    tlapm ThreadPoolProofs.tla                       # the proofs of one module

The longest run (`processes`) takes about a minute, the proofs together a few
minutes, `WhenAll` most of them.
