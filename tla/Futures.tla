-------------------------------- MODULE Futures --------------------------------
(***************************************************************************)
(* The future chains of src/libraries/folly/06_futures.cpp, which run on a *)
(* pool of two threads, and those of src/concurrency/06_async_future.cpp.  *)
(* A stage is one callable with its future: it becomes ready once its      *)
(* predecessor has a result, is run by the thread its executor names, and  *)
(* stores a value or an exception.  main() starts one demo after another   *)
(* and waits for its last future.                                          *)
(***************************************************************************)
EXTENDS Integers, SequencesExt

CONSTANTS
    Workers,    \* threads of the pool
    Programs    \* of {"folly", "std"}

Value(v) == [kind |-> "value", v |-> v]
Thrown == [kind |-> "error", v |-> 0]
Pending == [kind |-> "pending", v |-> 0]

\* The demos of each program, in the order of main().
Demos == [folly |-> <<"chain", "via", "promise", "recover", "all">>,
          std   |-> <<"async", "bad", "set", "task">>]

\* A stage: its place in the demo, which results it handles, who runs it.
\* "inline" is the thread that has the result, "pool" a worker of the pool,
\* "thread" a thread of its own.
Stages == [
    chain   |-> <<[on |-> "value", by |-> "inline"], [on |-> "value", by |-> "inline"]>>,
    via     |-> <<[on |-> "value", by |-> "pool"], [on |-> "value", by |-> "pool"]>>,
    promise |-> <<[on |-> "value", by |-> "thread"]>>,
    recover |-> <<[on |-> "error", by |-> "inline"], [on |-> "value", by |-> "inline"]>>,
    async   |-> <<[on |-> "value", by |-> "thread"]>>,
    bad     |-> <<[on |-> "value", by |-> "thread"]>>,
    set     |-> <<[on |-> "value", by |-> "thread"]>>,
    task    |-> <<[on |-> "value", by |-> "thread"]>>]

\* What the demo begins with: the made future, or the argument of the task.
Source == [chain |-> Value(42), via |-> Value(10), promise |-> Value(7),
           recover |-> Thrown, async |-> Value(7), bad |-> Value(0),
           set |-> Value(100), task |-> Value(9)]

\* What stage k of demo d does with the value v.
Body(d, k, v) ==
    CASE d = "chain"   -> Value(IF k = 1 THEN v * 2 ELSE v + 1)
      [] d = "via"     -> Value(IF k = 1 THEN v * v ELSE v)
      [] d = "recover" -> Value(IF k = 1 THEN -1 ELSE v + 100)
      [] d \in {"promise", "set"} -> Value(v)
      [] d \in {"async", "task"} -> Value(v * v)
      [] d = "bad"     -> Thrown

Fanout == 4     \* futures given to collectAll

VARIABLES
    program,
    at,         \* index of the demo main() is in
    stage,      \* stages of that demo that are over
    result,     \* the result the last of them left
    doing,      \* what each worker runs: 0 or a task of the pool
    queue,      \* tasks of the pool: stage numbers, or the i of collectAll
    futs,       \* collectAll: result of each future, in the order they ended
    got         \* what main() printed for each demo

vars == <<program, at, stage, result, doing, queue, futs, got>>

Demo == Demos[program][at]

Begin(p, k) == IF k <= Len(Demos[p]) /\ Demos[p][k] # "all"
               THEN Source[Demos[p][k]] ELSE Pending

Init ==
    /\ program \in Programs
    /\ at = 1 /\ stage = 0 /\ result = Begin(program, 1)
    /\ doing = [w \in Workers |-> 0] /\ queue = <<>> /\ futs = <<>>
    /\ got = <<>>

Running == at <= Len(Demos[program])

InChain == Running /\ Demo # "all" /\ stage < Len(Stages[Demo])

\* thenValue is called on values only, thenError on exceptions only.
Handles(k) == Stages[Demo][k].on = result.kind

\* Stage k ends: its callable is called, or the result is passed on.
Settle(k) ==
    /\ result' = IF Handles(k) THEN Body(Demo, k, result.v) ELSE result
    /\ stage' = k

\* A stage that runs in the completing thread or in a thread of its own.
RunHere ==
    /\ InChain /\ Stages[Demo][stage + 1].by # "pool"
    /\ Settle(stage + 1)
    /\ UNCHANGED <<program, at, doing, queue, futs, got>>

\* A stage handed to the pool: via(&pool).
Enqueue ==
    /\ InChain /\ Stages[Demo][stage + 1].by = "pool"
    /\ queue = <<>> /\ \A w \in Workers : doing[w] = 0
    /\ queue' = <<stage + 1>>
    /\ UNCHANGED <<program, at, stage, result, doing, futs, got>>

\* folly::via(&pool, ...) four times.
FanOut ==
    /\ Running /\ Demo = "all" /\ stage = 0
    /\ queue' = [k \in 1 .. Fanout |-> k]
    /\ stage' = 1
    /\ UNCHANGED <<program, at, result, doing, futs, got>>

\* A worker takes the oldest task.
Take(w) ==
    /\ doing[w] = 0 /\ queue # <<>>
    /\ doing' = [doing EXCEPT ![w] = Head(queue)]
    /\ queue' = Tail(queue)
    /\ UNCHANGED <<program, at, stage, result, futs, got>>

\* A worker ends its task.
Finish(w) ==
    /\ doing[w] # 0
    /\ doing' = [doing EXCEPT ![w] = 0]
    /\ IF Demo = "all"
       THEN /\ futs' = Append(futs, <<doing[w], (doing[w] - 1) * (doing[w] - 1)>>)
            /\ UNCHANGED <<stage, result>>
       ELSE Settle(doing[w]) /\ UNCHANGED futs
    /\ UNCHANGED <<program, at, queue, got>>

\* collectAll: the results in the order of the vector.
Collected ==
    [k \in 1 .. Fanout |-> (CHOOSE f \in ToSet(futs) : f[1] = k)[2]]

AllDone == Len(futs) = Fanout

\* get(): main() blocks until the demo's last future has a result, prints the
\* value or catches the exception, and goes on to the next demo.
Get ==
    /\ Running
    /\ IF Demo = "all"
       THEN AllDone /\ got' = Append(got, [kind |-> "all", v |-> Collected])
       ELSE ~InChain /\ got' = Append(got, result)
    /\ at' = at + 1 /\ stage' = 0 /\ result' = Begin(program, at + 1)
    /\ futs' = <<>>
    /\ UNCHANGED <<program, doing, queue>>

Main == RunHere \/ Enqueue \/ FanOut \/ Get

Worker(w) == Take(w) \/ Finish(w)

Next == Main \/ \E w \in Workers : Worker(w)

Spec == Init /\ [][Next]_vars

---------------------------------------------------------------------------
\* main() prints what the comments say: 85, 100, the promise's value, 99 after
\* the error and 0 1 4 9 from collectAll in folly/06; 49, the exception, 100
\* and 81 in concurrency/06.
Expected == [
    folly |-> <<Value(85), Value(100), Value(7), Value(99),
                [kind |-> "all", v |-> <<0, 1, 4, 9>>]>>,
    std   |-> <<Value(49), Thrown, Value(100), Value(81)>>]

PrintsRight == \A k \in DOMAIN got : got[k] = Expected[program][k]

\* main() reaches its end: every future it waits for gets a result.
Finished == ~Running
================================================================================
