--------------------------------- MODULE Timers --------------------------------
(***************************************************************************)
(* The one-shot and the repeating timer of src/concurrency/09_timers.cpp,  *)
(* the jthread of src/concurrency/01_thread_basics.cpp, which ticks until  *)
(* it is asked to stop, and the timers and the strand of                   *)
(* src/libraries/boost/05_asio_timers.cpp, on a discrete clock.  A thread  *)
(* runs when it is due or any time later, and a callback takes any time.   *)
(***************************************************************************)
EXTENDS Integers, FiniteSets, Sequences, TLAPS

CONSTANTS
    Interval,   \* interval of the repeating timers, delay of the one-shot
    Cutoff,     \* the time main() sleeps before it cancels
    Limit,      \* the ticks repeat() is asked for
    MaxTime,    \* bound on the clock while somebody is due
    Demos       \* of "one_shot", "repeating", "jthread" and "asio"

VARIABLES
    demo,
    now,
    pc,         \* the thread: "start", "test", "sleep", "check", "call", "callback" or "end"
    begun,      \* when the thread started
    next,       \* when its sleep ends
    cancelled,  \* cancelled_, or the stop token
    fired,      \* callbacks begun
    late,       \* callbacks begun after the cancellation
    main,       \* main(): "sleep", "join" or "end"
    waits,      \* asio: handlers to run -> when they are due
    log         \* asio: the handlers that ran, in order

vars == <<demo, now, pc, begun, next, cancelled, fired, late, main, waits, log>>

\* What main() of boost/05 starts before it calls run(): the cancelled wait of t2
\* is due at once, and so are the tasks posted to the strand.
asio_main == [t1 |-> 3 * Interval, t2 |-> 0, t3 |-> Interval, A |-> 0, B |-> 0, C |-> 0]

Init ==
    /\ demo \in Demos
    /\ now = 0 /\ begun = 0 /\ next = 0
    /\ pc = IF demo = "asio" THEN "end" ELSE "start"
    /\ cancelled = FALSE
    /\ fired = 0 /\ late = 0
    /\ main = IF demo \in {"one_shot", "asio"} THEN "join" ELSE "sleep"
    /\ waits = IF demo = "asio" THEN asio_main ELSE <<>>
    /\ log = <<>>

TypeInv ==
    /\ demo \in Demos /\ now \in Nat /\ begun \in Nat /\ next \in Nat
    /\ pc \in {"start", "test", "sleep", "check", "call", "callback", "end"}
    /\ fired \in Nat /\ late \in Nat /\ cancelled \in BOOLEAN
    /\ main \in {"sleep", "join", "end"}

-------------------------------------------------------------------------------
\* Nobody is due: only the clock can go on.
Idle ==
    /\ pc = "end" \/ (pc = "sleep" /\ now < next)
    /\ main = "sleep" => now < Cutoff
    /\ \A h \in DOMAIN waits : now < waits[h]
    /\ pc = "sleep" \/ main = "sleep" \/ waits # <<>>

Tick ==
    /\ main # "end"
    /\ now < MaxTime \/ Idle
    /\ now' = now + 1
    /\ UNCHANGED <<demo, pc, begun, next, cancelled, fired, late, main, waits, log>>

(* The thread.                                                             *)

\* OneShotTimer sleeps for its delay; RepeatingTimer computes its first deadline.
Start ==
    /\ pc = "start"
    /\ begun' = now /\ next' = now + Interval
    /\ pc' = IF demo = "one_shot" THEN "sleep" ELSE "test"
    /\ UNCHANGED <<fired, late>>

\* while (!cancelled.load()) and while (!st.stop_requested())
Test ==
    /\ pc = "test"
    /\ pc' = IF cancelled THEN "end" ELSE IF demo = "jthread" THEN "check" ELSE "sleep"
    /\ UNCHANGED <<begun, next, fired, late>>

Sleep ==
    /\ pc = "sleep" /\ now >= next
    /\ pc' = IF demo = "jthread" THEN "test" ELSE "check"
    /\ UNCHANGED <<begun, next, fired, late>>

\* Only the repeating timer looks at the flag again after its sleep.
MayCall == demo = "repeating" => ~cancelled

\* next += interval; the jthread sleeps for the interval.
NextDeadline == IF demo = "jthread" THEN now + Interval ELSE next + Interval

Check ==
    /\ pc = "check"
    /\ IF MayCall THEN pc' = "call" /\ UNCHANGED next
                  ELSE pc' = "test" /\ next' = NextDeadline
    /\ UNCHANGED <<begun, fired, late>>

Call ==
    /\ pc = "call"
    /\ fired' = fired + 1 /\ late' = IF cancelled THEN late + 1 ELSE late
    /\ pc' = "callback"
    /\ UNCHANGED <<begun, next>>

Return ==
    /\ pc = "callback"
    /\ pc' = CASE demo = "one_shot" -> "end" [] demo = "jthread" -> "sleep" [] OTHER -> "test"
    /\ next' = NextDeadline
    /\ UNCHANGED <<begun, fired, late>>

Thread ==
    /\ Start \/ Test \/ Sleep \/ Check \/ Call \/ Return
    /\ UNCHANGED <<demo, now, cancelled, main, waits, log>>

(* main() and the destructors.                                             *)

\* cancel() and request_stop(), then the destructor waits in join().
Cancel ==
    /\ main = "sleep" /\ now >= Cutoff
    /\ cancelled' = TRUE /\ main' = "join"

CanJoin == main = "join" /\ pc = "end"

\* join() returns, or run() because no work is left.
Join ==
    /\ CanJoin /\ waits = <<>>
    /\ main' = "end" /\ UNCHANGED cancelled

Main == (Cancel \/ Join) /\ UNCHANGED <<demo, now, pc, begun, next, fired, late, waits, log>>

-------------------------------------------------------------------------------
(* io_context::run() of boost/05, on one thread.                           *)

Times(h) == {k \in DOMAIN log : log[k] = h}

\* The strand runs its tasks in the order of their posts.
Turn(h) == (h = "B" => "A" \notin DOMAIN waits) /\ (h = "C" => "B" \notin DOMAIN waits)

Without(h) == [g \in DOMAIN waits \ {h} |-> waits[g]]

\* if (count < limit), after ++count
Again == Cardinality(Times("t3")) + 1 < Limit

\* repeat(): the handler of t3 starts the next wait, from now.
repeat == IF Again THEN [waits EXCEPT !["t3"] = now + Interval] ELSE Without("t3")

Handler ==
    \E h \in DOMAIN waits :
        /\ waits[h] <= now /\ Turn(h)
        /\ log' = Append(log, h)
        /\ waits' = IF h = "t3" THEN repeat ELSE Without(h)
        /\ UNCHANGED <<demo, now, pc, begun, next, cancelled, fired, late, main>>

Next == Tick \/ Thread \/ Main \/ Handler

Spec == Init /\ [][Next]_vars

-------------------------------------------------------------------------------
(* Properties.                                                             *)

\* "ticks stay evenly spaced": a slow callback or a late thread moves no deadline,
\* and no tick comes before its time.
EvenlySpaced ==
    demo = "repeating" /\ pc # "start" =>
        /\ (next - begun) % Interval = 0
        /\ fired * Interval <= now - begun

\* cancel() stops the repeating timer but for a callback it has just let through;
\* the jthread may tick once more likewise.
CutOff == late <= 1

\* "the reference is never dangling": a destructor returns after the thread has
\* ended, and the one-shot's "blocks until the callback has fired".
NeverDangling ==
    main = "end" => pc = "end" /\ (demo = "one_shot" => fired = 1)

\* run() returns when t1 and the cancelled t2 had their handlers once and t3 "fires
\* 3 times"; the tasks of the strand run in the order of their posts.
AsioRight ==
    /\ main = "end" /\ demo = "asio" =>
         /\ Cardinality(Times("t3")) = Limit
         /\ \A h \in {"t1", "t2", "A", "B", "C"} : Cardinality(Times(h)) = 1
    /\ \A j, k \in DOMAIN log :
         <<log[j], log[k]>> \in {<<"A", "B">>, <<"B", "C">>} => j < k

AtEnd == main = "end"

-------------------------------------------------------------------------------
(* Proofs, for every interval, cut-off and limit.                          *)

\* Where the thread is determines how often it has called back after the
\* cancellation, and the one-shot how often at all.
TimerInv ==
    /\ late \in 0 .. 1 /\ fired \in Nat
    /\ late = 1 =>
         cancelled /\ (pc \in {"callback", "test", "end"} \/ (pc = "sleep" /\ demo = "jthread"))
    /\ demo = "one_shot" =>
         /\ fired = IF pc \in {"callback", "end"} THEN 1 ELSE 0
         /\ pc # "test"
    /\ main = "end" => pc = "end"

\* A cancelled timer calls back once more at most, and its destructor returns when
\* the thread has ended and the one-shot has fired once.
THEOREM TimersStop == Spec => [](CutOff /\ NeverDangling)
<1>1. Init => TimerInv
  BY DEF Init, TimerInv
<1>2. TimerInv /\ [Next]_vars => TimerInv'
  <2> SUFFICES ASSUME TimerInv, [Next]_vars PROVE TimerInv'
    OBVIOUS
  <2>1. CASE UNCHANGED <<demo, pc, cancelled, fired, late, main>>
    BY <2>1 DEF TimerInv
  <2>2. CASE Thread
    <3>1. CASE Start
      BY <3>1, <2>2 DEF Start, Thread, TimerInv
    <3>2. CASE Test
      BY <3>2, <2>2 DEF Test, Thread, TimerInv
    <3>3. CASE Sleep
      BY <3>3, <2>2 DEF Sleep, Thread, TimerInv
    <3>4. CASE Check
      BY <3>4, <2>2 DEF Check, MayCall, Thread, TimerInv
    <3>5. CASE Call
      BY <3>5, <2>2 DEF Call, Thread, TimerInv
    <3>6. CASE Return
      BY <3>6, <2>2 DEF Return, Thread, TimerInv
    <3> QED
      BY <2>2, <3>1, <3>2, <3>3, <3>4, <3>5, <3>6 DEF Thread
  <2>3. CASE Main
    BY <2>3 DEF Main, Cancel, Join, CanJoin, TimerInv
  <2>4. CASE Tick \/ Handler \/ UNCHANGED vars
    BY <2>4, <2>1 DEF Tick, Handler, vars
  <2> QED
    BY <2>2, <2>3, <2>4 DEF Next
<1>3. TimerInv => CutOff /\ NeverDangling
  BY DEF TimerInv, CutOff, NeverDangling
<1> QED
  BY <1>1, <1>2, <1>3, PTL DEF Spec
================================================================================
