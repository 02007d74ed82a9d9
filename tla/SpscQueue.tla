------------------------------- MODULE SpscQueue -------------------------------
(***************************************************************************)
(* class SpscQueue and demo_spsc (src/performance/08_lockfree.cpp): a ring *)
(* shared by one producer and one consumer thread, synchronised only by    *)
(* the atomic indices head_ and tail_.                                     *)
(*                                                                         *)
(* Each access to shared memory is an action.  A thread reads its own      *)
(* index exactly; a load of the other thread's index may return a stale    *)
(* value, but never one older than the value it returned before (the       *)
(* coherence order of C++ atomics).  lagT counts the stores to tail_ that  *)
(* the producer has not seen yet, lagH the stores to head_ that the        *)
(* consumer has not seen yet.  The release stores and acquire loads make   *)
(* the plain accesses to buf_ that precede a store visible to a thread     *)
(* that loads the stored value, so buf_ is one array here as long as the   *)
(* two threads never access the same slot at once (NoDataRace).            *)
(***************************************************************************)
EXTENDS Integers, Sequences, SequenceTheorems, TLAPS

CONSTANTS Capacity,   \* the template parameter Capacity
          N           \* number of messages of demo_spsc

ASSUME SpscAssumption == Capacity \in Nat /\ Capacity >= 2 /\ N \in Nat

Slot == 0 .. Capacity - 1

VARIABLES
    buf_, head_, tail_,
    lagT, lagH,
    ppc, i,                     \* the producer thread and its loop counter
    cpc, value, received, sum   \* the consumer thread and its locals

prodVars == <<ppc, i, lagT>>
consVars == <<cpc, value, received, sum, lagH>>
vars == <<buf_, head_, tail_, lagT, lagH, ppc, i, cpc, value, received, sum>>

TypeInv ==
    /\ buf_ \in [Slot -> Int]
    /\ head_ \in Slot
    /\ tail_ \in Slot
    /\ lagT \in Nat
    /\ lagH \in Nat
    /\ ppc \in {"load", "write", "store", "done"}
    /\ i \in 0 .. N
    /\ cpc \in {"load", "read", "store", "done"}
    /\ value \in Int
    /\ received \in 0 .. N
    /\ sum \in Int

Init ==
    /\ buf_ = [s \in Slot |-> 0]
    /\ head_ = 0
    /\ tail_ = 0
    /\ lagT = 0
    /\ lagH = 0
    /\ ppc = IF N = 0 THEN "done" ELSE "load"
    /\ i = 0
    /\ cpc = IF N = 0 THEN "done" ELSE "load"
    /\ value = -1
    /\ received = 0
    /\ sum = 0

\* (k + 1) & mask_ for a slot k: the mask wraps because Capacity is a power of
\* two (the static_assert of the class).
Succ(k) == IF k = Capacity - 1 THEN 0 ELSE k + 1

\* The slot n steps before and after slot k, for n below Capacity.
Back(k, n) == IF k >= n THEN k - n ELSE k - n + Capacity
Forth(k, n) == IF k + n < Capacity THEN k + n ELSE k + n - Capacity

-------------------------------------------------------------------------------
(* try_push(i), called by the producer until it returns true.              *)

\* Defect: the full queue is not noticed.
HasRoom_Unchecked(head, tail) == TRUE

HasRoom(head, tail) == Succ(head) # tail

\* Load both indices and test; try_push returns false if the queue is full.
PushLoad(lag) ==
    /\ ppc = "load"
    /\ lagT' = lag
    /\ ppc' = IF HasRoom(head_, Back(tail_, lag)) THEN "write" ELSE "load"
    /\ UNCHANGED <<buf_, head_, tail_, i, consVars>>

WriteSlot == head_

PushWrite ==
    /\ ppc = "write"
    /\ buf_' = [buf_ EXCEPT ![WriteSlot] = i]
    /\ ppc' = "store"
    /\ UNCHANGED <<head_, tail_, i, lagT, consVars>>

\* Publish the slot, return true and go on with the next message.
PushStore ==
    /\ ppc = "store"
    /\ head_' = Succ(head_)
    /\ lagH' = lagH + 1
    /\ i' = i + 1
    /\ ppc' = IF i + 1 < N THEN "load" ELSE "done"
    /\ UNCHANGED <<buf_, tail_, lagT, cpc, value, received, sum>>

-------------------------------------------------------------------------------
(* try_pop(), called by the consumer until it has received N messages.     *)

\* Defect: the empty queue is not noticed.
HasItem_Unchecked(tail, head) == TRUE

\* Defect: an off-by-one leaves the last message in the ring.
HasItem_KeepsLast(tail, head) == tail # head /\ Succ(tail) # head

HasItem(tail, head) == tail # head

\* Load both indices and test; try_pop returns nullopt if the queue is empty.
PopLoad(lag) ==
    /\ cpc = "load"
    /\ lagH' = lag
    /\ cpc' = IF HasItem(tail_, Back(head_, lag)) THEN "read" ELSE "load"
    /\ UNCHANGED <<buf_, head_, tail_, prodVars, value, received, sum>>

PopRead ==
    /\ cpc = "read"
    /\ value' = buf_[tail_]
    /\ cpc' = "store"
    /\ UNCHANGED <<buf_, head_, tail_, prodVars, received, sum, lagH>>

\* Release the slot and use the value.
PopStore ==
    /\ cpc = "store"
    /\ tail_' = Succ(tail_)
    /\ lagT' = lagT + 1
    /\ sum' = sum + value
    /\ received' = received + 1
    /\ cpc' = IF received + 1 < N THEN "load" ELSE "done"
    /\ UNCHANGED <<buf_, head_, ppc, i, value, lagH>>

-------------------------------------------------------------------------------

Producer == (\E lag \in 0 .. lagT : PushLoad(lag)) \/ PushWrite \/ PushStore

Consumer == (\E lag \in 0 .. lagH : PopLoad(lag)) \/ PopRead \/ PopStore

\* Both threads have been joined.
Joined ==
    /\ ppc = "done"
    /\ cpc = "done"
    /\ UNCHANGED vars

Next == Producer \/ Consumer \/ Joined

Spec == Init /\ [][Next]_vars

\* Both threads keep running, and a store becomes visible to the other thread
\* in finite time, so a spinning load returns the current value eventually.
Fairness ==
    /\ WF_vars(Producer)
    /\ WF_vars(Consumer)
    /\ WF_vars(PushLoad(0))
    /\ WF_vars(PopLoad(0))

FairSpec == Spec /\ Fairness

-------------------------------------------------------------------------------
(* Properties.                                                             *)

\* The producer never writes the slot that the consumer is reading, even
\* though both act on stale copies of each other's index: buf_ needs no lock.
NoDataRace == ~(ppc = "write" /\ cpc = "read" /\ WriteSlot = tail_)

\* Why the ring is safe.  The slots from tail_ on hold the messages that are
\* still to be delivered, in order.  The producer's stale copy of tail_ can
\* only make the ring look fuller than it is (lagT), the consumer's stale copy
\* of head_ only emptier (lagH), and a thread that passed its test keeps its
\* claim on the slot until it publishes it.
Count == i - received

RingShape ==
    /\ Count \in 0 .. Capacity - 1
    /\ head_ = Forth(tail_, Count)
    /\ lagT + Count <= Capacity - 1
    /\ lagH <= Count
    /\ ppc \in {"write", "store"} => lagT + Count <= Capacity - 2
    /\ cpc \in {"read", "store"} => lagH < Count
    /\ ppc # "done" <=> i < N
    /\ cpc # "done" <=> received < N

RingContents ==
    /\ \A k \in 0 .. Capacity - 1 :
           k < Count => buf_[Forth(tail_, k)] = received + k
    /\ ppc = "store" => buf_[head_] = i
    /\ value = IF cpc = "store" THEN received ELSE received - 1
    /\ 2 * sum = received * (received - 1)

\* Messages arrive in the order they were pushed, without loss, duplicate or
\* value from an unwritten slot: the k-th try_pop that succeeds returns k.
InOrder == cpc = "store" => value = received

\* The comment in demo_spsc, "sum should equal N*(N-1)/2", when both threads
\* have been joined.
SumCorrect == cpc = "done" => 2 * sum = N * (N - 1)

\* Seen from outside, the ring is a FIFO channel that holds at most
\* Capacity - 1 items (one slot stays free to tell full from empty).  A push
\* takes effect at the store to head_, a pop at the store to tail_.
Fifo == INSTANCE BoundedFifo WITH
            Bound <- Capacity - 1,
            items <- [k \in 1 .. Count |-> buf_[Forth(tail_, k - 1)]],
            sent <- i,
            last <- IF cpc = "store" THEN received - 1 ELSE value

ImplementsFifo == Fifo!Spec

\* Every message is delivered: neither thread spins forever.
AllDelivered == <>(cpc = "done" /\ ppc = "done")

-------------------------------------------------------------------------------
(* Proofs, for every capacity of at least two and every number of          *)
(* messages.                                                               *)

RingInv == TypeInv /\ RingShape /\ RingContents

\* Stepping through the ring.
LEMMA SlotArithmetic ==
  ASSUME NEW s \in Slot, NEW k \in 0 .. Capacity - 1
  PROVE  /\ Succ(s) \in Slot
         /\ Forth(s, k) \in Slot
         /\ Back(s, k) \in Slot
         /\ Forth(s, 0) = s
         /\ k > 0 => Forth(s, k) # s
         /\ k > 0 => Forth(Succ(s), k - 1) = Forth(s, k)
         /\ k < Capacity - 1 => Forth(s, k + 1) = Succ(Forth(s, k))
         /\ \A n \in 0 .. Capacity - 1 : n # k => Forth(s, n) # Forth(s, k)
BY SpscAssumption DEF Slot, Succ, Forth, Back

\* The two tests, made with a stale copy of the other index, are exact about
\* the copy: a free slot remains, or an unread message remains.
LEMMA Tests ==
  ASSUME NEW s \in Slot, NEW n \in Nat, NEW lag \in Nat, n + lag <= Capacity - 1
  PROVE  /\ HasRoom(Forth(s, n), Back(s, lag)) <=> n + lag < Capacity - 1
         /\ lag <= n => (HasItem(s, Back(Forth(s, n), lag)) <=> lag < n)
BY SpscAssumption DEF Slot, Succ, Forth, Back, HasRoom, HasItem

\* The empty ring satisfies the invariant.
LEMMA RingInit == Init => RingInv
<1> SUFFICES ASSUME Init PROVE RingInv
  OBVIOUS
<1> USE SpscAssumption DEF Init
<1>1. TypeInv
  BY DEF TypeInv, Slot
<1>2. RingShape
  BY DEF RingShape, Count, Forth
<1>3. RingContents
  BY DEF RingContents, Count
<1> QED
  BY <1>1, <1>2, <1>3 DEF RingInv

-------------------------------------------------------------------------------

\* The invariant is preserved by every step of either thread.
LEMMA RingStep ==
  ASSUME RingInv, [Next]_vars
  PROVE  RingInv'
<1> USE SpscAssumption DEF RingInv, TypeInv, prodVars, consVars
<1>0. /\ Count \in Nat /\ Count <= Capacity - 1
      /\ head_ \in Slot /\ tail_ \in Slot /\ head_ = Forth(tail_, Count)
      /\ i \in Int /\ received \in Int
  BY DEF RingShape
<1>1. ASSUME NEW lag \in 0 .. lagT, PushLoad(lag)
      PROVE  RingInv'
  <2>1. HasRoom(head_, Back(tail_, lag)) <=> Count + lag < Capacity - 1
    BY <1>0, Tests DEF RingShape
  <2>2. /\ ppc = "load" /\ lagT' = lag
        /\ ppc' \in {"load", "write"}
        /\ ppc' = "write" => Count + lag <= Capacity - 2
        /\ UNCHANGED <<buf_, head_, tail_, i, cpc, value, received, sum, lagH>>
    BY <1>0, <1>1, <2>1 DEF PushLoad
  <2>3. RingShape'
    BY <1>0, <2>2 DEF RingShape, Count, Forth
  <2>4. RingContents'
    BY <2>2 DEF RingContents, Count, Forth
  <2> QED
    BY <2>2, <2>3, <2>4
<1>2. CASE PushWrite
  <2>1. /\ ppc = "write" /\ ppc' = "store"
        /\ buf_' = [buf_ EXCEPT ![head_] = i]
        /\ UNCHANGED <<head_, tail_, i, lagT, cpc, value, received, sum, lagH>>
    BY <1>2 DEF PushWrite, WriteSlot
  <2>2. RingShape'
    BY <2>1 DEF RingShape, Count, Forth
  <2>3. ASSUME NEW k \in 0 .. Capacity - 1, k < Count
        PROVE  buf_'[Forth(tail_, k)] = received + k
    <3>1. Forth(tail_, k) # head_ /\ Forth(tail_, k) \in Slot
      BY <1>0, <2>3, SlotArithmetic
    <3> QED
      BY <2>1, <2>3, <3>1 DEF RingContents
  <2>4. buf_'[head_] = i
    BY <1>0, <2>1
  <2>5. RingContents'
    <3>1. \A k \in 0 .. Capacity - 1 :
             k < Count' => buf_'[Forth(tail_', k)] = received' + k
      BY <2>1, <2>3 DEF Count
    <3> QED
      BY <2>1, <2>4, <3>1 DEF RingContents
  <2> QED
    BY <2>1, <2>2, <2>5
<1>3. CASE PushStore
  <2>1. /\ ppc = "store" /\ ppc' = IF i + 1 < N THEN "load" ELSE "done"
        /\ head_' = Succ(head_) /\ lagH' = lagH + 1 /\ i' = i + 1
        /\ UNCHANGED <<buf_, tail_, lagT, cpc, value, received, sum>>
    BY <1>3 DEF PushStore
  <2>2. /\ Count' = Count + 1 /\ Count + 1 <= Capacity - 1
        /\ head_' = Forth(tail_, Count + 1) /\ head_' \in Slot
    <3>1. Count' = Count + 1
      BY <1>0, <2>1 DEF Count
    <3>2. Count + 1 <= Capacity - 1
      BY <1>0, <2>1 DEF RingShape
    <3>3. Count \in 0 .. Capacity - 1 /\ Count < Capacity - 1
      BY <1>0, <3>2
    <3>4. head_' = Forth(tail_, Count + 1)
      BY <1>0, <2>1, <3>3, SlotArithmetic, ZenonT(40)
    <3>5. head_' \in Slot
      BY <1>0, <2>1, <3>3, SlotArithmetic
    <3> QED
      BY <3>1, <3>2, <3>4, <3>5
  <2>3. RingShape'
    <3>1. Count' \in 0 .. Capacity - 1 /\ head_' = Forth(tail_', Count')
      BY <1>0, <2>1, <2>2
    <3>2. /\ lagT' + Count' <= Capacity - 1 /\ lagH' <= Count'
          /\ ppc' \in {"write", "store"} => lagT' + Count' <= Capacity - 2
          /\ cpc' \in {"read", "store"} => lagH' < Count'
      BY <1>0, <2>1, <2>2 DEF RingShape
    <3>3. (ppc' # "done" <=> i' < N) /\ (cpc' # "done" <=> received' < N)
      BY <2>1 DEF RingShape
    <3> QED
      BY <3>1, <3>2, <3>3 DEF RingShape
  <2>4. RingContents'
    <3>1. ASSUME NEW k \in 0 .. Capacity - 1, k < Count + 1
          PROVE  buf_[Forth(tail_, k)] = received + k
      <4>1. CASE k < Count
        BY <4>1 DEF RingContents
      <4>2. CASE k = Count
        BY <1>0, <2>1, <4>2 DEF RingContents, Count
      <4> QED
        BY <1>0, <3>1, <4>1, <4>2
    <3> QED
      BY <2>1, <2>2, <3>1 DEF RingContents
  <2> QED
    BY <2>1, <2>2, <2>3, <2>4 DEF RingShape
<1>4. ASSUME NEW lag \in 0 .. lagH, PopLoad(lag)
      PROVE  RingInv'
  <2>1. HasItem(tail_, Back(head_, lag)) <=> lag < Count
    <3>1. lag \in Nat /\ lag <= Count
      BY DEF RingShape
    <3>2. lag < Count \/ lag = Count
      BY <1>0, <3>1
    <3> QED
      BY <1>0, <3>1, <3>2 DEF HasItem, Back, Forth, Slot
  <2>2. /\ cpc = "load" /\ lagH' = lag
        /\ cpc' \in {"load", "read"}
        /\ cpc' = "read" => lag < Count
        /\ UNCHANGED <<buf_, head_, tail_, ppc, i, lagT, value, received, sum>>
    BY <1>4, <2>1 DEF PopLoad
  <2>3. RingShape'
    BY <1>0, <2>2 DEF RingShape, Count, Forth
  <2>4. RingContents'
    BY <2>2 DEF RingContents, Count, Forth
  <2> QED
    BY <2>2, <2>3, <2>4
<1>5. CASE PopRead
  <2>1. /\ cpc = "read" /\ cpc' = "store" /\ value' = buf_[tail_]
        /\ UNCHANGED <<buf_, head_, tail_, ppc, i, lagT, received, sum, lagH>>
    BY <1>5 DEF PopRead
  <2>2. RingShape'
    BY <2>1 DEF RingShape, Count, Forth
  <2>3. buf_[tail_] = received
    <3>1. 0 < Count /\ 0 \in 0 .. Capacity - 1 /\ Forth(tail_, 0) = tail_
      BY <1>0, <2>1, SlotArithmetic DEF RingShape
    <3> QED
      BY <1>0, <3>1 DEF RingContents
  <2>4. RingContents'
    BY <2>1, <2>3 DEF RingContents, Count, Forth
  <2> QED
    BY <1>0, <2>1, <2>2, <2>3, <2>4
<1>6. CASE PopStore
  <2>1. /\ cpc = "store" /\ cpc' = IF received + 1 < N THEN "load" ELSE "done"
        /\ tail_' = Succ(tail_) /\ lagT' = lagT + 1
        /\ sum' = sum + value /\ received' = received + 1
        /\ UNCHANGED <<buf_, head_, ppc, i, value, lagH>>
    BY <1>6 DEF PopStore
  <2>2. /\ Count' = Count - 1 /\ 0 < Count /\ tail_' \in Slot
        /\ Count \in 0 .. Capacity - 1
    BY <1>0, <2>1, SlotArithmetic DEF RingShape, Count
  <2>3. head_ = Forth(tail_', Count')
    BY <1>0, <2>1, <2>2, SlotArithmetic
  <2>4. RingShape'
    <3>1. /\ lagT' + Count' <= Capacity - 1 /\ lagH' <= Count'
          /\ ppc' \in {"write", "store"} => lagT' + Count' <= Capacity - 2
          /\ cpc' \notin {"read", "store"}
      BY <1>0, <2>1, <2>2 DEF RingShape
    <3>2. (ppc' # "done" <=> i' < N) /\ (cpc' # "done" <=> received' < N)
      BY <2>1 DEF RingShape
    <3>3. Count' \in 0 .. Capacity - 1 /\ head_' = Forth(tail_', Count')
      BY <1>0, <2>1, <2>2, <2>3
    <3> QED
      BY <3>1, <3>2, <3>3 DEF RingShape
  <2>5. RingContents'
    <3>1. ASSUME NEW k \in 0 .. Capacity - 1, k < Count - 1
          PROVE  buf_[Forth(tail_', k)] = received + 1 + k
      <4>1. k + 1 \in 0 .. Capacity - 1 /\ k + 1 < Count /\ k + 1 > 0
        BY <1>0, <3>1
      <4>2. Forth(tail_', k) = Forth(tail_, k + 1)
        BY <1>0, <2>1, <4>1, SlotArithmetic
      <4> QED
        BY <1>0, <4>1, <4>2 DEF RingContents
    <3>2. value = received /\ 2 * sum = received * (received - 1)
      BY <2>1 DEF RingContents
    <3>3. 2 * sum' = received' * (received' - 1)
      BY <1>0, <2>1, <3>2
    <3>4. value' = received' - 1
      BY <1>0, <2>1, <3>2
    <3>5. ppc' = "store" => buf_'[head_'] = i'
      BY <2>1 DEF RingContents
    <3> QED
      BY <2>1, <2>2, <3>1, <3>3, <3>4, <3>5 DEF RingContents
  <2> QED
    BY <1>0, <2>1, <2>2, <2>4, <2>5 DEF RingShape
<1>7. CASE UNCHANGED vars
  BY <1>7 DEF vars, RingShape, RingContents, Count, Forth
<1> QED
  BY <1>1, <1>2, <1>3, <1>4, <1>5, <1>6, <1>7
  DEF Next, Producer, Consumer, Joined

\* The ring keeps its shape and its contents, for every schedule of the two
\* threads and every staleness of their copies of the indices.
THEOREM RingInvariant == Spec => []RingInv
BY RingInit, RingStep, PTL DEF Spec

-------------------------------------------------------------------------------

\* Neither thread accesses the slot the other is working on.
THEOREM RaceFree == Spec => []NoDataRace
<1>1. RingInv => NoDataRace
  <2> SUFFICES ASSUME RingInv, ppc = "write", cpc = "read" PROVE head_ # tail_
    BY DEF NoDataRace, WriteSlot
  <2>1. Count \in 0 .. Capacity - 1 /\ Count > 0 /\ tail_ \in Slot
    BY DEF RingInv, RingShape, TypeInv
  <2> QED
    BY <2>1, SlotArithmetic DEF RingInv, RingShape
<1> QED
  BY <1>1, RingInvariant, PTL

\* Messages are delivered in order, each exactly once, and their sum is the
\* one demo_spsc prints as expected.
THEOREM Delivery == Spec => [](InOrder /\ SumCorrect)
<1>1. RingInv => InOrder
  BY DEF RingInv, RingContents, InOrder
<1>2. RingInv => SumCorrect
  <2> SUFFICES ASSUME RingInv, cpc = "done" PROVE 2 * sum = N * (N - 1)
    BY DEF SumCorrect
  <2>1. received = N
    BY SpscAssumption DEF RingInv, RingShape, TypeInv
  <2> QED
    BY <2>1 DEF RingInv, RingContents
<1> QED
  BY <1>1, <1>2, RingInvariant, PTL

-------------------------------------------------------------------------------
(* Refinement of BoundedFifo.                                              *)

Items == [k \in 1 .. Count |-> buf_[Forth(tail_, k - 1)]]
Last == IF cpc = "store" THEN received - 1 ELSE value

ItemsShape ==
    /\ Items = [k \in 1 .. Count |-> received + k - 1]
    /\ Items \in Seq(Int)
    /\ Len(Items) = Count
    /\ Last = received - 1

\* The items in the ring are the numbers of the messages under way.
LEMMA ItemsAre == RingInv => ItemsShape
<1> SUFFICES ASSUME RingInv PROVE ItemsShape
  OBVIOUS
<1>1. Count \in 0 .. Capacity - 1 /\ received \in Int
  BY DEF RingInv, RingShape, TypeInv
<1>2. ASSUME NEW k \in 1 .. Count
      PROVE  buf_[Forth(tail_, k - 1)] = received + k - 1
  <2>1. k - 1 \in 0 .. Capacity - 1 /\ k - 1 < Count
    BY <1>1, SpscAssumption
  <2> QED
    BY <1>1, <2>1 DEF RingInv, RingContents
<1>3. Items = [k \in 1 .. Count |-> received + k - 1]
  BY <1>2 DEF Items
<1>4. \A k \in 1 .. Count : received + k - 1 \in Int
  BY <1>1
<1>5. Items \in Seq(Int) /\ Len(Items) = Count
  BY <1>1, <1>3, <1>4
<1>6. Last = received - 1
  BY DEF Last, RingInv, RingContents
<1> QED
  BY <1>3, <1>5, <1>6 DEF ItemsShape

\* A store to head_ is a Put, a store to tail_ a Get; no other step is seen.
LEMMA StepImplementsFifo ==
  ASSUME RingInv, RingInv', [Next]_vars
  PROVE  [Fifo!Next]_<<Items, i, Last>>
<1>0. /\ Count \in Nat /\ Count <= Capacity - 1
      /\ i \in Int /\ received \in Int /\ Capacity \in Nat
      /\ Count = i - received
  BY SpscAssumption DEF RingInv, RingShape, TypeInv, Count
<1>01. ItemsShape /\ ItemsShape'
  BY ItemsAre, PTL
<1>1. CASE PushStore
  <2>1. i' = i + 1 /\ received' = received /\ Count' = Count + 1 /\ Count < Capacity - 1
    BY <1>0, <1>1 DEF PushStore, Count, RingInv, RingShape, TypeInv
  <2>2. Items' = [k \in 1 .. Count + 1 |-> received + k - 1] /\ Last' = Last
    BY <1>01, <2>1 DEF ItemsShape
  <2>3. Append(Items, i) = [k \in 1 .. Count + 1 |-> received + k - 1]
    BY <1>0, <1>01 DEF ItemsShape
  <2>4. Len(Items) < Capacity - 1
    BY <1>01, <2>1 DEF ItemsShape
  <2> QED
    BY <2>1, <2>2, <2>3, <2>4 DEF Fifo!Next, Fifo!Put, Items, Last
<1>2. CASE PopStore
  <2>1. i' = i /\ received' = received + 1 /\ Count' = Count - 1 /\ Count > 0
    BY <1>0, <1>2 DEF PopStore, Count, RingInv, RingShape, TypeInv
  <2>2. Items' = [k \in 1 .. Count - 1 |-> received + k] /\ Last' = received
    BY <1>0, <1>01, <2>1 DEF ItemsShape
  <2>3. Items # <<>> /\ Head(Items) = received
    <3>1. Items \in Seq(Int) /\ Len(Items) > 0
      BY <1>0, <1>01, <2>1 DEF ItemsShape
    <3>2. 1 \in 1 .. Count
      BY <1>0, <2>1
    <3>3. Items[1] = received
      BY <1>0, <1>01, <3>2 DEF ItemsShape
    <3> HIDE DEF Items
    <3> QED
      BY <3>1, <3>3
  <2>4. Tail(Items) = [k \in 1 .. Count - 1 |-> received + k]
    BY <1>0, <1>01, <2>1 DEF ItemsShape
  <2> QED
    BY <2>1, <2>2, <2>3, <2>4 DEF Fifo!Next, Fifo!Get, Items, Last
<1>3. CASE i' = i /\ received' = received
  <2>1. Count' = Count
    BY <1>3 DEF Count
  <2>2. Items' = Items /\ Last' = Last
    BY <1>01, <1>3, <2>1 DEF ItemsShape
  <2> QED
    BY <1>3, <2>2
<1> QED
  BY <1>1, <1>2, <1>3
  DEF Next, Producer, Consumer, Joined, PushLoad, PushWrite, PopLoad, PopRead,
      consVars, prodVars, vars

\* The ring implements a FIFO channel of Capacity - 1 places.
THEOREM RingIsFifo == Spec => ImplementsFifo
<1>1. Init => Fifo!Init
  BY SpscAssumption DEF Init, Fifo!Init, Count
<1>2. RingInv /\ RingInv' /\ [Next]_vars => [Fifo!Next]_<<Items, i, Last>>
  BY StepImplementsFifo
<1> QED
  BY <1>1, <1>2, RingInvariant, PTL
  DEF Spec, ImplementsFifo, Fifo!Spec, Items, Last
===============================================================================
