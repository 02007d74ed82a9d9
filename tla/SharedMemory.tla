------------------------------ MODULE SharedMemory -----------------------------
(***************************************************************************)
(* The programs in which threads share a few variables under a mutex, by   *)
(* atomic operations or by a published flag.  Each function of the source  *)
(* is a script, a sequence of memory and lock operations; the actions run  *)
(* the scripts of one demo's threads.                                      *)
(*                                                                         *)
(* Memory is that of C++ with stores in one order for each variable: a     *)
(* load may return any store that is not older than what the thread must   *)
(* have seen.  A release store carries what its thread has seen to the     *)
(* acquire load that reads it, an unlock to the next lock, the end of a    *)
(* thread to join().  ++ of a plain variable is a load and a store.        *)
(***************************************************************************)
EXTENDS Integers, SequencesExt

CONSTANT Demos   \* the demos this model runs

Threads == 1 .. 3

Op(o, x, v) == [op |-> o, x |-> x, v |-> v, to |-> 0]
Lock == Op("lock", "", 0)
LockShared == Op("lock_shared", "", 0)
Unlock == Op("unlock", "", 0)
Join == Op("join", "", 0)
NotifyOne == Op("notify_one", "", 0)
NotifyAll == Op("notify_all", "", 0)
\* Jumps are relative.
JumpIf(x, v, k) == [op |-> "jump_if", x |-> x, v |-> v, to |-> k]
JumpUnless(x, v, k) == [op |-> "jump_unless", x |-> x, v |-> v, to |-> k]
Jump(k) == [op |-> "jump", x |-> "", v |-> 0, to |-> k]
Get(x) == Op("get", x, 0)
Put(x, v) == Op("put", x, v)
Add(x, n) == Op("add", x, n)
Increment(x) == <<Get(x), Add(x, 1)>>
Load(x) == Op("load", x, 0)
Spin(x) == Op("spin", x, 0)
Store(x, v) == Op("store", x, v)
Release(x, v) == Op("release", x, v)
FetchAdd(x, n) == Op("fetch_add", x, n)
Repeat(n, s) == FlattenSeq([k \in 1 .. n |-> s])

-------------------------------------------------------------------------------
(* The functions and thread bodies of the source.                          *)

\* concurrency/02: lock_guard, and unique_lock with an early unlock.
increment_guard == <<Lock>> \o Increment("counter") \o <<Unlock>>
increment_unique == <<Lock>> \o Increment("counter") \o <<Unlock>>

\* raii/04: the lock is given up in the middle of the scope and taken again.
safe_increment == <<Lock>> \o Increment("counter") \o <<Unlock>>
work_with_unlock ==
    <<Lock>> \o Increment("counter") \o <<Unlock, Lock>> \o Increment("counter") \o <<Unlock>>

\* concurrency/04: val *= 3 by compare_exchange, fetch_add, and a flag.
fetch_mul == <<Load("val"), Op("cas_mul", "val", 3)>>
count_atomically == <<FetchAdd("counter", 1)>>
flag_worker == <<Spin("ready"), Store("result", 42)>>
flag_main == <<Release("ready", 1), Join, Load("result")>>

\* Defect: the flag is set before the data.
publisher_Early == <<Release("flag", 1), Store("data", 42)>>

\* concurrency/05.
publisher == <<Store("data", 42), Release("flag", 1)>>
subscriber == <<Spin("flag"), Load("data")>>
safe_write(v) == <<Lock, Put("shared_val", v), Unlock>>
safe_read == <<Lock, Get("shared_val"), Unlock>>

\* performance/08: publication of plain data, and counters.
producer == <<Put("price", 101), Put("qty", 200), Release("ready", 1)>>
consumer == <<Spin("ready"), Get("price"), Get("qty")>>
cas_loop == <<Load("counter"), Op("cas_add", "counter", 1)>>
fetch_add_loop == <<FetchAdd("counter", 1)>>
stats_orders == Repeat(2, <<FetchAdd("orders_sent", 1)>>)
stats_fills == <<FetchAdd("fills_received", 1)>>
stats_main == <<Join, Load("orders_sent"), Load("fills_received")>>

\* performance/10: LatencyStats::record and print.
record(ns) ==
    <<FetchAdd("count", 1), FetchAdd("total_ns", ns), Load("min_ns"), Op("cas_min", "min_ns", ns),
      Load("max_ns"), Op("cas_max", "max_ns", ns)>>
print == <<Load("count"), Load("total_ns"), Load("min_ns"), Load("max_ns")>>

\* abseil/08: SafeCounter.
increment == <<Lock>> \o Increment("count_") \o <<Unlock>>
get == <<LockShared, Get("count_"), Unlock>>

\* abseil/08: Await returns with the mutex held and the condition true.
setter == <<Lock, Put("value", 42), Unlock>>
await_value == <<Op("await", "value", 0), Get("value"), Unlock>>

\* folly/04.  The vector 1 .. n is modelled by n, its size and its last element.
wlock_block == <<Lock>> \o Repeat(3, Increment("vec")) \o <<Unlock>>
rlock_block == <<LockShared, Get("vec"), Unlock>>
withWLock == <<Lock>> \o Increment("vec") \o <<Unlock>>
withULockPtr ==
    <<Op("ulock", "", 0), Get("vec"), JumpUnless("vec", 4, 3),
      Op("upgrade", "", 0), Add("vec", 1), Unlock>>
shared_writers == Repeat(2, <<Lock>> \o Increment("shared") \o <<Unlock>>)

\* folly/10: readers of the cache count themselves under the shared lock.
cache_reader == <<LockShared, Get("value")>> \o Increment("reads") \o <<Unlock>>
cache_writer == <<Lock>> \o Increment("value") \o <<Unlock>>

\* build_tooling/04: a price written under a mutex, and by atomic stores.
mutex_price(base) == Repeat(2, <<Lock, Put("price", base), Unlock>>)
atomic_price(base) == Repeat(2, <<Store("price", base)>>)

\* concurrency/03: items are pushed under the mutex and announced outside it.  The
\* queue is its length; got counts what consumers have taken.
push_item == <<Lock>> \o Increment("queue") \o <<Unlock, NotifyOne>>
set_done == <<Lock, Put("done", 1), Unlock, NotifyAll>>
cv_consumer ==
    <<Lock, Op("wait", "queue", 0), Get("queue"), JumpIf("queue", 0, 5), Add("queue", -1), Unlock,
      FetchAdd("got", 1), Jump(-7), Unlock>>

\* concurrency/07: TaskQueue.  The handler runs outside the lock.
post == <<Lock>> \o Increment("queue") \o <<Unlock, NotifyOne>>
TaskQueue_destructor == <<Lock, Put("done", 1), Unlock, NotifyAll, Join, Get("queue")>>
run ==
    <<Lock, Op("wait", "queue", 0), Get("queue"), JumpIf("queue", 0, 5), Add("queue", -1), Unlock,
      FetchAdd("got", 1), Jump(-7), Unlock>>

\* abseil/08: signals under the mutex; the consumer drains the queue each time.
absl_producer ==
    Repeat(2, <<Lock>> \o Increment("queue") \o <<NotifyOne, Unlock>>)
        \o <<Lock, Put("done", 1), NotifyAll, Unlock>>
absl_consumer ==
    <<Lock, Op("wait_timed", "queue", 0), Get("queue"), JumpIf("queue", 0, 4), Add("queue", -1),
      FetchAdd("got", 1), Jump(-4), Get("done"), JumpUnless("done", 0, 3), Unlock, Jump(-10), Unlock>>

\* The demos: what threads 1, 2 and 3 run.
Scripts(d) ==
    CASE d = "guard" -> <<increment_guard, increment_guard, increment_unique>>
      [] d = "scopes" -> <<safe_increment \o work_with_unlock, work_with_unlock, <<>>>>
      [] d = "fetch_mul" -> <<fetch_mul, fetch_mul, fetch_mul>>
      [] d = "atomic" -> <<count_atomically, count_atomically, count_atomically>>
      [] d = "flag" -> <<flag_worker, flag_main, <<>>>>
      [] d = "publish" -> <<publisher, subscriber, <<Join>> \o safe_write(99) \o safe_read>>
      [] d = "acquire_release" -> <<producer, consumer, <<>>>>
      [] d = "cas" -> <<Repeat(2, cas_loop), Repeat(2, cas_loop), cas_loop>>
      [] d = "fetch_add" -> <<Repeat(2, fetch_add_loop), Repeat(2, fetch_add_loop), fetch_add_loop>>
      [] d = "relaxed" -> <<stats_orders, stats_fills, stats_main>>
      [] d = "stats" -> <<record(3), record(5), <<Join>> \o print>>
      [] d = "absl" -> <<increment \o increment, increment, get>>
      [] d = "await" -> <<setter, await_value, <<>>>>
      [] d = "vector" -> <<wlock_block \o rlock_block \o withWLock \o withULockPtr, withULockPtr, rlock_block>>
      [] d = "writers" -> <<shared_writers, shared_writers, <<>>>>
      [] d = "cache" -> <<cache_reader, cache_reader, Repeat(2, cache_writer)>>
      [] d = "condvar" -> <<Repeat(3, push_item) \o set_done, cv_consumer, cv_consumer>>
      [] d = "handlers" -> <<run, Repeat(3, post) \o TaskQueue_destructor, <<>>>>
      [] d = "condvar_absl" -> <<absl_producer, absl_consumer, <<>>>>
      [] d = "mutex_price" -> <<mutex_price(100), mutex_price(200), <<Join, Get("price")>>>>
      [] d = "atomic_price" -> <<atomic_price(100), atomic_price(200), <<Join, Load("price")>>>>

LocsOf(scripts) ==
    UNION {{scripts[t][k].x : k \in DOMAIN scripts[t]} : t \in Threads} \ {""}

Initial(x) == CASE x = "val" -> 20 [] x = "min_ns" -> 99 [] OTHER -> 0

-------------------------------------------------------------------------------
VARIABLES
    demo,
    code,      \* thread -> its script
    pc,        \* thread -> the operation of its script it is at
    reg,       \* thread -> variable -> the value it last read
    hist,      \* variable -> its stores in order: value, and the view it carries
    seen,      \* thread -> variable -> the oldest store it may still read
    owner,     \* the thread that holds the mutex exclusively, as a set
    upgrader,  \* the thread that holds it upgradeable, as a set
    sharers,   \* the threads that hold it shared
    released,  \* what the threads that unlocked the mutex had seen
    waiting    \* the threads blocked on the condition variable

vars == <<demo, code, pc, reg, hist, seen, owner, upgrader, sharers, released, waiting>>

Locs == DOMAIN hist
Nothing == [x \in Locs |-> 1]
Merge(v, w) == [x \in Locs |-> IF v[x] < w[x] THEN w[x] ELSE v[x]]
Latest(x) == Last(hist[x]).val
Script(t) == code[t]
Ended(t) == pc[t] > Len(Script(t))
Is(t, ops) == ~Ended(t) /\ Script(t)[pc[t]].op \in ops
X(t) == Script(t)[pc[t]].x
V(t) == Script(t)[pc[t]].v

Init ==
    /\ demo \in Demos /\ code = Scripts(demo)
    /\ pc = [t \in Threads |-> 1]
    /\ reg = [t \in Threads |-> [x \in LocsOf(code) |-> 0]]
    /\ released = [x \in LocsOf(code) |-> 1]
    /\ hist = [x \in LocsOf(code) |-> <<[val |-> Initial(x), view |-> released]>>]
    /\ seen = [t \in Threads |-> released]
    /\ owner = {} /\ upgrader = {} /\ sharers = {} /\ waiting = {}

TypeInv ==
    /\ demo \in Demos
    /\ \A t \in Threads : pc[t] \in 1 .. Len(Script(t)) + 1
    /\ \A t \in Threads, x \in Locs : seen[t][x] \in DOMAIN hist[x] /\ reg[t][x] \in Int
    /\ \A x \in Locs : released[x] \in DOMAIN hist[x]
    /\ owner \cup upgrader \cup sharers \cup waiting \subseteq Threads

Advance(t, n) == pc' = [pc EXCEPT ![t] = @ + n]

\* Thread t reads the k-th store of x.
Read(t, x, k, acquire) ==
    /\ reg' = [reg EXCEPT ![t][x] = hist[x][k].val]
    /\ seen' = [seen EXCEPT ![t] = LET own == [@ EXCEPT ![x] = k]
                                   IN  IF acquire THEN Merge(own, hist[x][k].view) ELSE own]

\* Thread t stores v into x; carried is the view an acquire load of it gets.
Write(t, x, v, carried) ==
    /\ hist' = [hist EXCEPT ![x] = Append(@, [val |-> v, view |-> [carried EXCEPT ![x] = Len(hist[x]) + 1]])]
    /\ seen' = [seen EXCEPT ![t][x] = Len(hist[x]) + 1]

MutexSame == UNCHANGED <<owner, upgrader, sharers, released, waiting>>
MemorySame == UNCHANGED <<reg, hist>>

(* Loads and stores, plain, relaxed, acquire and release.                  *)
LoadStep(t) ==
    /\ Is(t, {"get", "load", "spin"})
    /\ \E k \in seen[t][X(t)] .. Len(hist[X(t)]) :
         /\ Is(t, {"spin"}) => hist[X(t)][k].val # 0
         /\ Read(t, X(t), k, Is(t, {"spin"}))
    /\ Advance(t, 1) /\ MutexSame /\ UNCHANGED <<demo, code, hist>>

StoreStep(t) ==
    /\ Is(t, {"put", "add", "store", "release"})
    /\ Write(t, X(t), V(t) + (IF Is(t, {"add"}) THEN reg[t][X(t)] ELSE 0),
             IF Is(t, {"release"}) THEN seen[t] ELSE Nothing)
    /\ Advance(t, 1) /\ MutexSame /\ UNCHANGED <<demo, code, reg>>

(* Read-modify-writes act on the latest store and carry on its view.       *)
FetchAddStep(t) ==
    /\ Is(t, {"fetch_add"})
    /\ Write(t, X(t), Latest(X(t)) + V(t), Last(hist[X(t)]).view)
    /\ Advance(t, 1) /\ MutexSame /\ UNCHANGED <<demo, code, reg>>

Cas == {"cas_add", "cas_mul", "cas_min", "cas_max"}

\* The value the retry loop wants to store over cur.
Desired(t, cur) ==
    CASE Is(t, {"cas_add"}) -> cur + V(t)
      [] Is(t, {"cas_mul"}) -> cur * V(t)
      [] OTHER -> V(t)

\* The loops for the minimum and the maximum end when there is nothing to store.
CasNeeded(t) ==
    /\ Is(t, {"cas_min"}) => V(t) < reg[t][X(t)]
    /\ Is(t, {"cas_max"}) => V(t) > reg[t][X(t)]

CasStep(t) ==
    /\ Is(t, Cas) /\ CasNeeded(t) /\ Latest(X(t)) = reg[t][X(t)]
    /\ Write(t, X(t), Desired(t, reg[t][X(t)]), Last(hist[X(t)]).view)
    /\ Advance(t, 1) /\ MutexSame /\ UNCHANGED <<demo, code, reg>>

\* compare_exchange_weak fails, perhaps spuriously, and reads the value.
CasFails(t) ==
    /\ Is(t, Cas) /\ CasNeeded(t)
    /\ \E k \in seen[t][X(t)] .. Len(hist[X(t)]) : Read(t, X(t), k, FALSE)
    /\ UNCHANGED <<demo, code, pc, hist>> /\ MutexSame

CasUnneeded(t) ==
    /\ Is(t, Cas) /\ ~CasNeeded(t)
    /\ Advance(t, 1) /\ MutexSame /\ MemorySame /\ UNCHANGED <<demo, code, seen>>

(* The mutex.                                                              *)
Acquire(t) == seen' = [seen EXCEPT ![t] = Merge(@, released)]

LockStep(t) ==
    /\ Is(t, {"lock", "await"})
    /\ owner = {} /\ upgrader = {} /\ sharers = {}
    /\ Is(t, {"await"}) => Latest(X(t)) # 0
    /\ owner' = {t} /\ Acquire(t)
    /\ Advance(t, 1) /\ MemorySame /\ UNCHANGED <<demo, code, upgrader, sharers, released, waiting>>

LockSharedStep(t) ==
    /\ Is(t, {"lock_shared"}) /\ owner = {}
    /\ sharers' = sharers \cup {t} /\ Acquire(t)
    /\ Advance(t, 1) /\ MemorySame /\ UNCHANGED <<demo, code, owner, upgrader, released, waiting>>

\* An upgradeable lock admits readers and keeps writers and upgraders out.
UpgradeLockStep(t) ==
    /\ Is(t, {"ulock"}) /\ owner = {} /\ upgrader = {}
    /\ upgrader' = {t} /\ Acquire(t)
    /\ Advance(t, 1) /\ MemorySame /\ UNCHANGED <<demo, code, owner, sharers, released, waiting>>

\* moveFromUpgradeToWrite: waits for the readers, and lets no writer in between.
UpgradeStep(t) ==
    /\ Is(t, {"upgrade"}) /\ sharers = {}
    /\ upgrader' = {} /\ owner' = {t} /\ Acquire(t)
    /\ Advance(t, 1) /\ MemorySame /\ UNCHANGED <<demo, code, sharers, released, waiting>>

UnlockStep(t) ==
    /\ Is(t, {"unlock"})
    /\ owner' = owner \ {t} /\ upgrader' = upgrader \ {t} /\ sharers' = sharers \ {t}
    /\ released' = Merge(released, seen[t])
    /\ Advance(t, 1) /\ MemorySame /\ UNCHANGED <<demo, code, seen, waiting>>

(* The condition variable.                                                 *)
Wait == {"wait", "wait_timed"}

\* The predicate of wait(): an item, or the end.
Ready == Latest("queue") # 0 \/ Latest("done") # 0

WaitStep(t) ==
    /\ Is(t, Wait) /\ owner = {t}
    /\ IF ~Ready
       THEN /\ owner' = {} /\ waiting' = waiting \cup {t}
            /\ released' = Merge(released, seen[t]) /\ UNCHANGED pc
       ELSE Advance(t, 1) /\ UNCHANGED <<owner, waiting, released>>
    /\ MemorySame /\ UNCHANGED <<demo, code, seen, upgrader, sharers>>

\* A woken thread locks the mutex again and goes back to the predicate.
Relock(t) ==
    /\ Is(t, Wait) /\ t \notin waiting
    /\ owner = {} /\ upgrader = {} /\ sharers = {}
    /\ owner' = {t} /\ Acquire(t)
    /\ MemorySame /\ UNCHANGED <<demo, code, pc, upgrader, sharers, released, waiting>>

Wake(t) ==
    /\ t \in waiting
    /\ waiting' = waiting \ {t}
    /\ MemorySame /\ UNCHANGED <<demo, code, pc, seen, owner, upgrader, sharers, released>>

TimesOut(t) == Is(t, {"wait_timed"}) /\ Wake(t)

NotifyStep(t) ==
    /\ Is(t, {"notify_one", "notify_all"})
    /\ IF Is(t, {"notify_all"}) \/ waiting = {}
       THEN waiting' = {}
       ELSE \E u \in waiting : waiting' = waiting \ {u}
    /\ Advance(t, 1) /\ MemorySame /\ UNCHANGED <<demo, code, seen, owner, upgrader, sharers, released>>

(* Control.                                                                *)
Jumps(t) ==
    CASE Is(t, {"jump_if"}) -> reg[t][X(t)] = V(t)
      [] Is(t, {"jump_unless"}) -> reg[t][X(t)] # V(t)
      [] OTHER -> TRUE

JumpStep(t) ==
    /\ Is(t, {"jump", "jump_if", "jump_unless"})
    /\ Advance(t, IF Jumps(t) THEN Script(t)[pc[t]].to ELSE 1)
    /\ MutexSame /\ MemorySame /\ UNCHANGED <<demo, code, seen>>

JoinStep(t) ==
    /\ Is(t, {"join"})
    /\ \A u \in Threads \ {t} : Ended(u) \/ Is(u, {"join"})
    /\ seen' = [seen EXCEPT ![t] = [x \in Locs |-> Max({seen[u][x] : u \in Threads})]]
    /\ Advance(t, 1) /\ MutexSame /\ MemorySame /\ UNCHANGED <<demo, code>>

Thread_Step(t) ==
    \/ LoadStep(t) \/ StoreStep(t) \/ FetchAddStep(t)
    \/ CasStep(t) \/ CasFails(t) \/ CasUnneeded(t)
    \/ LockStep(t) \/ LockSharedStep(t) \/ UpgradeLockStep(t) \/ UpgradeStep(t) \/ UnlockStep(t)
    \/ WaitStep(t) \/ Relock(t) \/ TimesOut(t) \/ NotifyStep(t)
    \/ JumpStep(t) \/ JoinStep(t)

Spurious == \E t \in Threads : Wake(t)

Next == Spurious \/ \E t \in Threads : Thread_Step(t)

Spec == Init /\ [][Next]_vars

-------------------------------------------------------------------------------
Finished == \A t \in Threads : Ended(t)

\* Plain accesses of one variable by two threads are ordered: a thread at one
\* has seen every store, and no other thread is at one too when either writes.
NoDataRace ==
    \A t \in Threads : Is(t, {"get", "put", "add"}) =>
        /\ seen[t][X(t)] = Len(hist[X(t)])
        /\ \A u \in Threads \ {t} :
             ~(Is(t, {"put", "add"}) /\ Is(u, {"get", "put", "add"}) /\ X(u) = X(t))

\* The results the demos print are those that the comments beside the prints promise:
\* "4000 (8 x 500)" reads of the cache by eight readers, here 2 by two, and so on.
Outcome ==
    Finished =>
      CASE demo = "guard" -> Latest("counter") = 3
        [] demo = "scopes" -> Latest("counter") = 5
        [] demo = "fetch_mul" -> Latest("val") = 20 * 27
        [] demo = "atomic" -> Latest("counter") = 3
        [] demo = "flag" -> reg[2]["result"] = 42
        [] demo = "publish" -> reg[2]["data"] = 42 /\ reg[3]["shared_val"] = 99
        [] demo = "acquire_release" -> reg[2]["price"] = 101 /\ reg[2]["qty"] = 200
        [] demo \in {"cas", "fetch_add"} -> Latest("counter") = 5
        [] demo = "relaxed" -> reg[3]["orders_sent"] = 2 /\ reg[3]["fills_received"] = 1
        [] demo = "stats" -> reg[3] = [count |-> 2, total_ns |-> 8, min_ns |-> 3, max_ns |-> 5]
        [] demo = "absl" -> Latest("count_") = 3
        [] demo = "await" -> reg[2]["value"] = 42
        [] demo = "vector" -> Latest("vec") = 5
        [] demo = "writers" -> Latest("shared") = 4
        [] demo = "condvar" -> Latest("got") = 3 /\ Latest("queue") = 0
        [] demo = "handlers" -> Latest("got") = 3 /\ reg[2]["queue"] = 0
        [] demo = "condvar_absl" -> Latest("got") = 2 /\ Latest("queue") = 0
        [] demo = "cache" -> Latest("value") = 2 /\ Latest("reads") = 2
        [] OTHER -> reg[3]["price"] = Latest("price") /\ Latest("price") \in {100, 200}
================================================================================
