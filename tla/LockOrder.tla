------------------------------- MODULE LockOrder -------------------------------
(***************************************************************************)
(* Two mutexes taken by two threads: in opposite orders                    *)
(* (src/build_tooling/04_tsan.cpp, thread_send_order and                   *)
(* thread_process_fill), and with std::scoped_lock, whose std::lock locks  *)
(* one mutex, tries the others, and on a failure gives all up and starts   *)
(* again from the one that was busy (demo_scoped_lock, and                 *)
(* src/concurrency/02_mutex_locks.cpp).                                    *)
(***************************************************************************)
EXTENDS Integers, Sequences, FiniteSets, TLAPS

CONSTANTS
    Threads, Mutexes,
    Orders,   \* thread -> the order in which it names the mutexes
    Rounds,   \* how often each thread takes them
    Scoped    \* std::scoped_lock, or one lock_guard after the other

VARIABLES
    held,    \* thread -> mutexes it holds
    first,   \* thread -> index in its order from which it starts
    next,    \* thread -> how many it has gone through in this attempt
    rounds   \* thread -> rounds left

vars == <<held, first, next, rounds>>

Size == Cardinality(Mutexes)

TypeInv ==
    /\ held \in [Threads -> SUBSET Mutexes]
    /\ first \in [Threads -> 0 .. Size - 1]
    /\ next \in [Threads -> 0 .. Size]
    /\ rounds \in [Threads -> 0 .. Rounds]

Init ==
    /\ held = [t \in Threads |-> {}]
    /\ first = [t \in Threads |-> 0]
    /\ next = [t \in Threads |-> 0]
    /\ rounds = [t \in Threads |-> Rounds]

Free(m) == \A t \in Threads : m \notin held[t]

\* The mutex thread t asks for now, rotated to where it started.
Wanted(t) == Orders[t][((first[t] + next[t]) % Size) + 1]

Trying(t) == rounds[t] > 0 /\ next[t] < Size

Take(t) ==
    /\ held' = [held EXCEPT ![t] = @ \cup {Wanted(t)}]
    /\ next' = [next EXCEPT ![t] = @ + 1]
    /\ UNCHANGED <<first, rounds>>

\* lock() of a mutex that is free; a busy one blocks the thread.
Lock(t) ==
    /\ Trying(t) /\ Free(Wanted(t))
    /\ Take(t)

\* Defect: std::lock waits for the second mutex with the first one held.
GivesUp_Never(t) == FALSE

\* try_lock() failed: this is not the first mutex of the attempt.
GivesUp(t) == Scoped /\ next[t] > 0

\* Unlock what is held, and begin with the busy mutex.
TryLockFails(t) ==
    /\ Trying(t) /\ GivesUp(t) /\ ~Free(Wanted(t))
    /\ held' = [held EXCEPT ![t] = {}]
    /\ first' = [first EXCEPT ![t] = (@ + next[t]) % Size]
    /\ next' = [next EXCEPT ![t] = 0]
    /\ UNCHANGED rounds

AfterUnlock(t) == {}

\* The guards go out of scope.
Unlock(t) ==
    /\ rounds[t] > 0 /\ next[t] = Size
    /\ held' = [held EXCEPT ![t] = AfterUnlock(t)]
    /\ next' = [next EXCEPT ![t] = 0]
    /\ first' = [first EXCEPT ![t] = 0]
    /\ rounds' = [rounds EXCEPT ![t] = @ - 1]

Thread(t) == Lock(t) \/ TryLockFails(t) \/ Unlock(t)

Next == \E t \in Threads : Thread(t)

Spec == Init /\ [][Next]_vars

-------------------------------------------------------------------------------
(* Properties.                                                             *)

\* Thread t can do nothing until another one unlocks.
Blocked(t) == Trying(t) /\ ~GivesUp(t) /\ ~Free(Wanted(t))

\* "both locked, deadlock-free": while a thread has work to do, one that has is
\* not blocked.
NoDeadlock ==
    (\E t \in Threads : rounds[t] > 0) => \E t \in Threads : rounds[t] > 0 /\ ~Blocked(t)

\* What the proof of NoDeadlock needs: a thread that has not locked anything in
\* this attempt, or is done, holds nothing.
HoldsInAttempt ==
    /\ next \in [Threads -> Nat] /\ rounds \in [Threads -> Nat] /\ DOMAIN held = Threads
    /\ \A t \in Threads : next[t] = 0 \/ rounds[t] = 0 => held[t] = {}

-------------------------------------------------------------------------------
(* scoped_lock cannot deadlock, for any number of threads and mutexes and   *)
(* any order in which the threads name them.                               *)

\* Every step keeps it that a thread at the start of an attempt, or done, holds
\* nothing.
THEOREM HoldsInAttemptHolds ==
  ASSUME Rounds \in Nat
  PROVE  Spec => []HoldsInAttempt
<1>1. Init => HoldsInAttempt
  BY DEF Init, HoldsInAttempt
<1>2. HoldsInAttempt /\ [Next]_vars => HoldsInAttempt'
  <2> SUFFICES ASSUME HoldsInAttempt, [Next]_vars PROVE HoldsInAttempt'
    OBVIOUS
  <2>1. ASSUME NEW t \in Threads, Lock(t) PROVE HoldsInAttempt'
    BY <2>1 DEF Lock, Take, Trying, HoldsInAttempt
  <2>2. ASSUME NEW t \in Threads, TryLockFails(t) PROVE HoldsInAttempt'
    BY <2>2 DEF TryLockFails, HoldsInAttempt
  <2>3. ASSUME NEW t \in Threads, Unlock(t) PROVE HoldsInAttempt'
    BY <2>3 DEF Unlock, AfterUnlock, HoldsInAttempt
  <2>4. CASE UNCHANGED vars
    BY <2>4 DEF vars, HoldsInAttempt
  <2> QED
    BY <2>1, <2>2, <2>3, <2>4 DEF Next, Thread
<1> QED
  BY <1>1, <1>2, PTL DEF Spec

\* "both locked, deadlock-free": with scoped_lock some thread that has work to do
\* is never blocked.  A blocked thread is at the start of its attempt and holds
\* nothing; if all were blocked, no mutex would be held.
THEOREM ScopedLockNoDeadlock ==
  ASSUME Rounds \in Nat, Scoped
  PROVE  Spec => []NoDeadlock
<1>1. HoldsInAttempt => NoDeadlock
  <2> SUFFICES ASSUME HoldsInAttempt,
                      NEW t \in Threads, rounds[t] > 0,
                      \A s \in Threads : rounds[s] > 0 => Blocked(s)
               PROVE  FALSE
    BY DEF NoDeadlock
  <2>1. PICK s \in Threads : Wanted(t) \in held[s]
    BY DEF Blocked, Free
  <2>2. next[s] # 0 /\ rounds[s] > 0
    BY <2>1 DEF HoldsInAttempt
  <2>3. Blocked(s)
    BY <2>2
  <2> QED
    BY <2>2, <2>3 DEF Blocked, GivesUp, HoldsInAttempt
<1> QED
  BY <1>1, HoldsInAttemptHolds, PTL
================================================================================
