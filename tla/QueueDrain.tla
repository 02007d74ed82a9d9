------------------------------- MODULE QueueDrain ------------------------------
(***************************************************************************)
(* Consumers that must know when a concurrent queue is drained, in         *)
(* src/libraries/boost/07_lockfree.cpp and src/libraries/folly/03_queues   *)
(* .cpp.  In demo_spsc the producer sets a flag after its last push and    *)
(* the consumer leaves when it sees the flag and then an empty queue; in   *)
(* the demos with several producers the consumers count the items, or one  *)
(* call takes all after the producers are joined.  The queues are          *)
(* libraries: only their counts matter here.  A thread may see an old      *)
(* index of the queue until it synchronises with the thread that moved it. *)
(***************************************************************************)
EXTENDS Integers, FiniteSets

CONSTANTS
    Producers, Consumers,
    ItemsEach,   \* items each producer pushes
    Capacity,
    Demos        \* of "spsc", "spsc_relaxed", "mpmc" and "drain"

VARIABLES
    demo,
    left,     \* producer -> items it has still to push
    done,     \* the flag of demo_spsc
    written,  \* items pushed so far
    taken,    \* items popped so far
    total,    \* what the consumers have counted
    view,     \* pushes the consumer of demo_spsc is sure to see
    pc        \* consumer -> "loop", "second", "pop", "try", "count" or "end"

vars == <<demo, left, done, written, taken, total, view, pc>>

Single == demo \in {"spsc", "spsc_relaxed"}

\* demo_spsc has one producer and one consumer.
Pushers == IF Single THEN {CHOOSE p \in Producers : TRUE} ELSE Producers
Poppers == IF demo = "mpmc" THEN Consumers ELSE {CHOOSE c \in Consumers : TRUE}

All == Cardinality(Pushers) * ItemsEach

TypeInv ==
    /\ demo \in Demos
    /\ left \in [Producers -> 0 .. ItemsEach] /\ done \in BOOLEAN
    /\ written \in Nat /\ taken \in Nat /\ total \in Nat /\ view \in Nat
    /\ pc \in [Consumers -> {"loop", "second", "pop", "try", "count", "end"}]

Init ==
    /\ demo \in Demos
    /\ left = [p \in Producers |-> ItemsEach]
    /\ done = FALSE
    /\ written = 0 /\ taken = 0 /\ total = 0 /\ view = 0
    /\ pc = [c \in Consumers |-> "loop"]

Goto(c, where) == pc' = [pc EXCEPT ![c] = where]

-------------------------------------------------------------------------------
(* The producers.                                                          *)

\* while (!q.push(i)) {} and blockingWrite(): waits while the queue is full.
Push(p) ==
    /\ p \in Pushers /\ left[p] > 0
    /\ written - taken < Capacity
    /\ left' = [left EXCEPT ![p] = @ - 1]
    /\ written' = written + 1
    /\ UNCHANGED <<demo, done, taken, total, view, pc>>

MayFinish(p) == left[p] = 0

\* done = true
SetDone(p) ==
    /\ Single /\ p \in Pushers /\ ~done
    /\ MayFinish(p)
    /\ done' = TRUE
    /\ UNCHANGED <<demo, left, written, taken, total, view, pc>>

-------------------------------------------------------------------------------
(* The consumer of demo_spsc: while (!done || !q.empty()) pop.             *)

\* Defect: while (!q.empty() || !done)
Condition_Swapped == <<"empty", "done">>

\* The order in which the operands of || are evaluated.
Condition == <<"done", "empty">>

\* Reading the flag.  A sequentially consistent (or acquire) load that sees it
\* set also sees the pushes before it; the relaxed load does not.
ReadDone(c, otherwise) ==
    /\ view' = IF done /\ demo = "spsc" THEN written ELSE view
    /\ Goto(c, IF done THEN otherwise ELSE "pop")

\* q.empty() sees an index that is not older than one seen before.
ReadEmpty(c, otherwise) ==
    /\ view' \in view .. written
    /\ Goto(c, IF view' = taken THEN otherwise ELSE "pop")

Test(c, operand, otherwise) ==
    IF operand = "done" THEN ReadDone(c, otherwise) ELSE ReadEmpty(c, otherwise)

TestFirst(c) ==
    /\ Single /\ c \in Poppers /\ pc[c] = "loop"
    /\ Test(c, Condition[1], "second")
    /\ UNCHANGED <<demo, left, done, written, taken, total>>

TestSecond(c) ==
    /\ Single /\ c \in Poppers /\ pc[c] = "second"
    /\ Test(c, Condition[2], "end")
    /\ UNCHANGED <<demo, left, done, written, taken, total>>

\* pop succeeds: boost's consumer goes on popping, folly's tests again.
Pop(c) ==
    /\ Single /\ c \in Poppers /\ pc[c] = "pop"
    /\ view' \in (taken + 1) .. written /\ view' >= view
    /\ taken' = taken + 1 /\ total' = total + 1
    /\ Goto(c, IF demo = "spsc" THEN "pop" ELSE "loop")
    /\ UNCHANGED <<demo, left, done, written>>

\* pop fails: it sees no item.
PopFails(c) ==
    /\ Single /\ c \in Poppers /\ pc[c] = "pop"
    /\ view <= taken
    /\ Goto(c, "loop")
    /\ UNCHANGED <<demo, left, done, written, taken, total, view>>

-------------------------------------------------------------------------------
(* Several producers.                                                      *)

\* total.load() < N * items_each
More == total < All

\* folly's consumers spin while readIfEmpty() is true, which by the use made of it takes
\* nothing and is true of an empty queue: the branch does nothing.
ReadIfEmpty(c) ==
    /\ demo = "mpmc" /\ pc[c] = "loop"
    /\ IF More THEN written > taken /\ Goto(c, "try") ELSE Goto(c, "end")
    /\ UNCHANGED <<demo, left, done, written, taken, total, view>>

\* Else tryRead(): the other consumer may have been there since.  An item is taken, then
\* counted.
TryRead(c) ==
    /\ demo = "mpmc" /\ pc[c] = "try"
    /\ IF written > taken THEN taken' = taken + 1 /\ Goto(c, "count")
                          ELSE Goto(c, "loop") /\ UNCHANGED taken
    /\ UNCHANGED <<demo, left, done, written, total, view>>

\* total.fetch_add(1)
Counted == total + 1

Count(c) ==
    /\ demo = "mpmc" /\ pc[c] = "count"
    /\ total' = Counted
    /\ Goto(c, "loop")
    /\ UNCHANGED <<demo, left, done, written, taken, view>>

\* p1.join(); p2.join()
Joined == \A p \in Producers : left[p] = 0

\* boost's consume_all
ConsumeAll(c) ==
    /\ demo = "drain" /\ c \in Poppers /\ pc[c] = "loop"
    /\ Joined
    /\ taken' = written /\ total' = total + (written - taken)
    /\ Goto(c, "end")
    /\ UNCHANGED <<demo, left, done, written, view>>

-------------------------------------------------------------------------------

Produce(p) == Push(p) \/ SetDone(p)

Consume(c) ==
    \/ TestFirst(c) \/ TestSecond(c) \/ Pop(c) \/ PopFails(c)
    \/ ReadIfEmpty(c) \/ TryRead(c) \/ Count(c) \/ ConsumeAll(c)

Next == (\E p \in Producers : Produce(p)) \/ (\E c \in Consumers : Consume(c))

Spec == Init /\ [][Next]_vars

-------------------------------------------------------------------------------
(* Properties.                                                             *)

Ended == \A c \in Poppers : pc[c] = "end"

\* "spsc sum: 0+1+...+9 = 45", "MPMC total consumed: 100", "mpmc queue consumed:
\* 10": consumers that leave have left nothing behind.
AllReceived == Ended /\ demo # "spsc_relaxed" => written = All /\ taken = All /\ total = All

\* "SPSC sum: 0+...+19 = 190" of folly's demo_spsc, whose load of the flag is relaxed: it
\* is the sum if isEmpty() sees the last push, which nothing orders before it.  What is
\* missing otherwise is still in the queue.
ReceivedIfSeen == Ended /\ demo = "spsc_relaxed" => written = All /\ (view = All => total = All)

\* An item in hand is counted; none is counted twice.
CountsMatch == total + Cardinality({c \in Consumers : pc[c] = "count"}) = taken /\ taken <= written
================================================================================
