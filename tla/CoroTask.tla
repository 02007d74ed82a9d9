-------------------------------- MODULE CoroTask -------------------------------
(***************************************************************************)
(* Coroutine frames, handles and symmetric transfer: Task<T> of            *)
(* src/coroutines/02_task.cpp and of 04_awaitable.cpp with its awaitables, *)
(* and the raw handles of 03_coroutine_handle.cpp.  Coroutine k may await  *)
(* coroutine k + 1; what a coroutine does before it returns is its kind:   *)
(*   return           nothing (compute, level_c); "void" in a Task<void>   *)
(*   throw            throws (will_throw)                                  *)
(*   await, try       awaits the next, "try" inside a try block (level_a,  *)
(*                    level_b, format_result; catches_exception)           *)
(*   ready            awaits something that is ready (ImmediateValue)      *)
(*   park             stores its handle and suspends (AlwaysSuspend, and   *)
(*                    ReadyWhen with the flag false)                       *)
(*   defer            its await_suspend resumes it at once (Deferred)      *)
(*   steps            asks for its promise without suspending and then     *)
(*                    suspends twice (self_aware_coroutine)                *)
(* main runs a script of calls on handles.  Each behaviour is one choice   *)
(* of kinds and script.                                                    *)
(***************************************************************************)
EXTENDS Integers, Sequences, FiniteSets

CONSTANTS
    K,        \* coroutines
    Inner,    \* kinds that await, for coroutines that have a successor
    Leaves,   \* the other kinds
    Stores,   \* unhandled_exception stores the exception (02), or not (04)
    Scripts   \* names of the scripts of main

Coros == 1 .. K
Nobody == 0     \* no handle; as running: main

\* What main does in the programs.
Script(s) ==
    CASE s = "sync_wait" -> <<"resume", "result", "destroy">>
      [] s = "parked"    -> <<"resume", "result", "unpark", "destroy">>
      [] s = "steps"     -> <<"resume", "resume", "resume", "destroy">>
      [] s = "transfer"  -> <<"resume", "destroy", "destroy">>

VARIABLES
    kind,     \* coroutine -> what its body does
    todo,     \* what is left of main's script
    state,    \* coroutine -> its frame
    left,     \* coroutine -> co_await expressions left before it returns
    cont,     \* coroutine -> promise.continuation, promise.next
    result,   \* coroutine -> what the promise holds
    thrown,   \* coroutine -> an exception is on its way through its body
    running,  \* the coroutine that runs, or main
    depth,    \* resume() calls on the machine stack
    parked    \* the global slot

vars == <<kind, todo, state, left, cont, result, thrown, running, depth, parked>>

TypeInv ==
    /\ kind \in [Coros -> Inner \cup Leaves]
    /\ state \in [Coros -> {"none", "suspended", "running", "final", "destroyed"}]
    /\ left \in [Coros -> 0 .. 3]
    /\ cont \in [Coros -> Coros \cup {Nobody}]
    /\ result \in [Coros -> {"none", "value", "void", "exception", "default"}]
    /\ thrown \in [Coros -> BOOLEAN]
    /\ running \in Coros \cup {Nobody} /\ parked \in Coros \cup {Nobody}
    /\ depth \in 0 .. K + 1

\* co_await expressions in a body of each kind.
Awaits(k) == IF k \in {"return", "void", "throw"} THEN 0 ELSE IF k = "steps" THEN 3 ELSE 1

\* The bodies that the demos run under a script.
Fits(s, ks) ==
    /\ ks[K] \in Leaves
    /\ \A c \in Coros : ks[c] = "defer" => c = 1
    /\ (s = "parked") <=> \E c \in Coros : ks[c] = "park" /\ \A d \in 1 .. c - 1 : ks[d] \in Inner
    /\ (s = "steps") <=> (ks[1] = "steps")
    /\ \A c \in 2 .. K : ks[c] # "steps"
    /\ s = "transfer" => K > 1 /\ ks[1] = "return" /\ ks[2] = "return"

Init ==
    \E s \in Scripts :
    /\ kind \in {ks \in [Coros -> Inner \cup Leaves] : Fits(s, ks)}
    /\ todo = Script(s)
    /\ state = [c \in Coros |-> IF c = 1 \/ (s = "transfer" /\ c = 2) THEN "suspended" ELSE "none"]
    /\ left = [c \in Coros |-> Awaits(kind[c])]
    /\ cont = [c \in Coros |-> IF s = "transfer" /\ c = 1 THEN 2 ELSE Nobody]
    /\ result = [c \in Coros |-> "none"]
    /\ thrown = [c \in Coros |-> FALSE]
    /\ running = Nobody /\ depth = 0 /\ parked = Nobody

-------------------------------------------------------------------------------
(* main, which runs while no coroutine does.                               *)

Call(what) == running = Nobody /\ todo # <<>> /\ Head(todo) = what /\ todo' = Tail(todo)

Resume(c) ==
    /\ running' = c /\ depth' = depth + 1
    /\ state' = [state EXCEPT ![c] = "running"]

\* handle_.resume()
Main_Resume ==
    /\ Call("resume")
    /\ Resume(1)
    /\ UNCHANGED <<kind, left, cont, result, thrown, parked>>

\* sync_wait returns await_resume().
Main_Result ==
    /\ Call("result")
    /\ UNCHANGED <<kind, state, left, cont, result, thrown, running, depth, parked>>

\* parked = nullptr
Cleared == Nobody

\* if (parked) { parked.resume(); parked = nullptr; }
Main_Unpark ==
    /\ Call("unpark")
    /\ IF parked # Nobody THEN Resume(parked) ELSE UNCHANGED <<running, depth, state>>
    /\ parked' = Cleared
    /\ UNCHANGED <<kind, left, cont, result, thrown>>

\* ~Task, or destroy() on a raw handle.
Main_Destroy ==
    /\ Call("destroy")
    /\ \E c \in Coros :
           /\ c = IF state[1] # "destroyed" THEN 1 ELSE 2
           /\ state' = [state EXCEPT ![c] = "destroyed"]
    /\ UNCHANGED <<kind, left, cont, result, thrown, running, depth, parked>>

-------------------------------------------------------------------------------
(* A coroutine that runs.                                                  *)

\* Control goes back to main through every resume() on the stack.
ToMain == running' = Nobody /\ depth' = 0

\* Defect: resume() is called where the handle should be returned.
TransferDepth_Nested == depth + 1

\* A handle returned from await_suspend is resumed in place of the caller.
TransferDepth == depth

Transfer(c) == running' = c /\ depth' = TransferDepth

At(c, kinds) == running = c /\ kind[c] \in kinds /\ left[c] > 0

\* handle_.promise().continuation = cont
Continuation(c) == c

\* co_await task: the frame is made, the awaiting coroutine becomes its
\* continuation, and it starts.
Await(c) ==
    /\ At(c, {"await", "try"})
    /\ state' = [state EXCEPT ![c] = "suspended", ![c + 1] = "running"]
    /\ cont' = [cont EXCEPT ![c + 1] = Continuation(c)]
    /\ left' = [left EXCEPT ![c] = @ - 1]
    /\ Transfer(c + 1)
    /\ UNCHANGED <<kind, todo, result, thrown, parked>>

\* await_ready is true: no suspension.
Ready(c) ==
    /\ At(c, {"ready"})
    /\ left' = [left EXCEPT ![c] = @ - 1]
    /\ UNCHANGED <<kind, todo, state, cont, result, thrown, running, depth, parked>>

\* slot = h; back to whoever resumed.
Park(c) ==
    /\ At(c, {"park"})
    /\ parked' = c
    /\ state' = [state EXCEPT ![c] = "suspended"]
    /\ left' = [left EXCEPT ![c] = @ - 1]
    /\ ToMain
    /\ UNCHANGED <<kind, todo, cont, result, thrown>>

\* co_await GetPromise: await_suspend returns false, so the body goes on.
GetPromise(c) ==
    /\ At(c, {"steps"}) /\ left[c] = 3
    /\ left' = [left EXCEPT ![c] = @ - 1]
    /\ UNCHANGED <<kind, todo, state, cont, result, thrown, running, depth, parked>>

\* co_await suspend_always
Suspend(c) ==
    /\ At(c, {"steps"}) /\ left[c] < 3
    /\ state' = [state EXCEPT ![c] = "suspended"]
    /\ left' = [left EXCEPT ![c] = @ - 1]
    /\ ToMain
    /\ UNCHANGED <<kind, todo, cont, result, thrown, parked>>

\* The callback in await_suspend resumes the coroutine that has just suspended.
Defer(c) ==
    /\ At(c, {"defer"})
    /\ left' = [left EXCEPT ![c] = @ - 1]
    /\ Resume(c)
    /\ UNCHANGED <<kind, todo, cont, result, thrown, parked>>

\* await_resume rethrows what the promise of the awaited task holds.
Rethrows(c) == result[c] = "exception"

\* The awaited task has finished: await_resume, and the temporary Task dies.
Awaited(c) ==
    /\ running = c /\ left[c] = 0
    /\ kind[c] \in {"await", "try"} /\ state[c + 1] = "final"
    /\ thrown' = [thrown EXCEPT ![c] = Rethrows(c + 1) /\ kind[c] # "try"]
    /\ state' = [state EXCEPT ![c + 1] = "destroyed"]
    /\ UNCHANGED <<kind, todo, left, cont, result, running, depth, parked>>

\* Task<void>: the promise has no value, all else is as in Task<T>.
ReturnVoid == "void"

\* unhandled_exception() stores the exception, or is empty and leaves T{} in the promise.
Unhandled == IF Stores THEN "exception" ELSE "default"

\* return_value, return_void or unhandled_exception.
Outcome(c) ==
    IF kind[c] = "throw" \/ thrown[c]
    THEN Unhandled
    ELSE IF kind[c] = "void" THEN ReturnVoid ELSE "value"

\* cont ? cont : noop_coroutine()
FinalTarget(c) == cont[c]

\* The body ends: result, final_suspend, transfer to the continuation.
Finish(c) ==
    /\ running = c /\ left[c] = 0
    /\ kind[c] \in {"await", "try"} => state[c + 1] = "destroyed"
    /\ result' = [result EXCEPT ![c] = Outcome(c)]
    /\ IF FinalTarget(c) = Nobody
       THEN ToMain /\ state' = [state EXCEPT ![c] = "final"]
       ELSE /\ Transfer(FinalTarget(c))
            /\ state' = [state EXCEPT ![c] = "final", ![FinalTarget(c)] = "running"]
    /\ UNCHANGED <<kind, todo, left, cont, thrown, parked>>

-------------------------------------------------------------------------------

Next ==
    \/ Main_Resume \/ Main_Result \/ Main_Unpark \/ Main_Destroy
    \/ \E c \in Coros : Await(c) \/ Ready(c) \/ Park(c) \/ GetPromise(c) \/ Suspend(c)
                        \/ Defer(c) \/ Awaited(c) \/ Finish(c)

Spec == Init /\ [][Next]_vars

-------------------------------------------------------------------------------
(* Properties.                                                             *)

\* What a chain of tasks computes, as nested function calls would; a call of 04 that
\* throws gives its caller a default value.
Evaluates[c \in Coros] ==
    CASE kind[c] = "throw" -> Unhandled
      [] kind[c] = "void"  -> "void"
      [] kind[c] = "await" /\ Evaluates[c + 1] = "exception" -> "exception"
      [] OTHER -> "value"

\* "co_await propagates exceptions naturally" in 02: a finished task holds what the
\* same chain of ordinary calls would return or throw.  In 04 an exception ends in the
\* task that throws, and the one that awaits it goes on with a default value.
ResultRight == \A c \in Coros : state[c] = "final" => result[c] = Evaluates[c]

\* "no stack growth regardless of chain depth": all but a callback that resumes
\* from await_suspend run on the one resume() of main.
StackBounded == depth <= IF kind[1] = "defer" THEN 2 ELSE 1

\* Handles that may still be used do not point at destroyed frames, and a frame
\* that is destroyed has finished.
HandlesAlive ==
    /\ parked # Nobody => state[parked] = "suspended"
    /\ \A c \in Coros : state[c] \in {"suspended", "running"} /\ cont[c] # Nobody
                            => state[cont[c]] # "destroyed"
    /\ \A c \in Coros : state[c] = "destroyed" => result[c] # "none"

\* When main is done, every frame that was made has been destroyed.
FramesFreed == todo = <<>> => \A c \in Coros : state[c] \in {"none", "destroyed"}
================================================================================
