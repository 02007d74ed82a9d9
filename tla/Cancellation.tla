------------------------------ MODULE Cancellation ------------------------------
(***************************************************************************)
(* long_operation with its two CancellableDelays, driven by sync_wait, in  *)
(* src/coroutines/10_cancellation.cpp.  Each co_await starts a detached    *)
(* timer thread and constructs a stop_callback that is destroyed at the    *)
(* end of its statement, so it runs its function only if stop is requested *)
(* by then.  Another thread requests the stop in the second demo. *)
(* After a step on a destroyed frame or on a deleted flag (undefined       *)
(* behaviour) the model goes no further.                                   *)
(***************************************************************************)
EXTENDS Integers, FiniteSets

Delays == {1, 2}

VARIABLES
    demo,      \* "normal" or "cancel"
    stop,      \* stop_requested()
    co,        \* the coroutine: <<"ready" | "delay" | "resumed", delay>> or <<"final", 0>>
    suspend,   \* delay -> place in await_suspend
    timer,     \* delay -> its thread
    flag,      \* delay -> *done
    resumes,   \* delay -> h.resume() calls
    result,    \* promise.result
    mpc,       \* main: "start", "sync_wait" or "end" (the Task is destroyed)
    answer     \* what sync_wait returned

vars == <<demo, stop, co, suspend, timer, flag, resumes, result, mpc, answer>>

TypeInv ==
    /\ demo \in {"normal", "cancel"} /\ stop \in BOOLEAN
    /\ co \in ({"ready", "delay", "resumed"} \X Delays) \cup {<<"final", 0>>}
    /\ suspend \in [Delays -> {"none", "timer", "callback", "resuming", "left"}]
    /\ timer \in [Delays -> {"none", "sleeping", "resuming", "deleting", "ended"}]
    /\ flag \in [Delays -> {"none", "false", "true", "deleted"}]
    /\ resumes \in [Delays -> 0 .. 2]
    /\ result \in {"", "cancelled", "completed"} /\ answer \in {"none", "", "cancelled", "completed"}
    /\ mpc \in {"start", "sync_wait", "end"}

Init ==
    /\ demo \in {"normal", "cancel"}
    /\ stop = FALSE
    /\ co = <<"ready", 1>>
    /\ suspend = [d \in Delays |-> "none"]
    /\ timer = [d \in Delays |-> "none"]
    /\ flag = [d \in Delays |-> "none"]
    /\ resumes = [d \in Delays |-> 0]
    /\ result = ""
    /\ mpc = "start" /\ answer = "none"

\* The frame, and stop_source and stop_token with it, exist.
Alive == mpc # "end"

-------------------------------------------------------------------------------
(* The coroutine, on whichever thread resumed it.                          *)

\* handle_.resume() in sync_wait.
Main_Start ==
    /\ mpc = "start"
    /\ mpc' = "sync_wait"
    /\ UNCHANGED <<demo, stop, co, suspend, timer, flag, resumes, result, answer>>

\* await_resume and the test of d.cancelled.
AfterDelay(d) ==
    IF stop THEN co' = <<"final", 0>> /\ result' = "cancelled"
    ELSE IF d = 2 THEN co' = <<"final", 0>> /\ result' = "completed"
    ELSE co' = <<"ready", 2>> /\ UNCHANGED result

\* await_ready
Ready(d) ==
    /\ co = <<"ready", d>> /\ mpc = "sync_wait"
    /\ IF stop
       THEN AfterDelay(d) /\ UNCHANGED suspend
       ELSE /\ co' = <<"delay", d>>
            /\ suspend' = [suspend EXCEPT ![d] = "timer"]
            /\ UNCHANGED result
    /\ UNCHANGED <<demo, stop, timer, flag, resumes, mpc, answer>>

\* The coroutine goes on after h.resume().
Resumed(d) ==
    /\ co = <<"resumed", d>> /\ Alive
    /\ AfterDelay(d)
    /\ UNCHANGED <<demo, stop, suspend, timer, flag, resumes, mpc, answer>>

\* Defect: the flag is set, but not tested.
Wins_Always(d) == flag[d] \in {"false", "true"}

\* !done->exchange(true)
Wins(d) == flag[d] = "false"

\* h.resume(), if this is the first of the two to come here.
TryResume(d) ==
    /\ flag' = [flag EXCEPT ![d] = "true"]
    /\ IF Wins(d)
       THEN co' = <<"resumed", d>> /\ resumes' = [resumes EXCEPT ![d] = @ + 1]
       ELSE UNCHANGED <<co, resumes>>

\* new atomic, and the detached thread.
StartTimer(d) ==
    /\ suspend[d] = "timer"
    /\ flag' = [flag EXCEPT ![d] = "false"]
    /\ timer' = [timer EXCEPT ![d] = "sleeping"]
    /\ suspend' = [suspend EXCEPT ![d] = "callback"]
    /\ UNCHANGED <<demo, stop, co, resumes, result, mpc, answer>>

\* The temporary stop_callback: its function runs now or never.
Callback(d) ==
    /\ suspend[d] = "callback" /\ Alive
    /\ stop => flag[d] # "deleted"
    /\ IF stop
       THEN TryResume(d) /\ suspend' = [suspend EXCEPT ![d] = IF Wins(d) THEN "resuming" ELSE "left"]
       ELSE UNCHANGED <<flag, co, resumes>> /\ suspend' = [suspend EXCEPT ![d] = "left"]
    /\ UNCHANGED <<demo, stop, timer, result, mpc, answer>>

\* Whoever resumed delay d gets control back: the coroutine has suspended
\* again or finished.
Back(d) == co = <<"final", 0>> \/ (d = 1 /\ suspend[2] = "left")

\* await_suspend is left.
CallbackDone(d) ==
    /\ suspend[d] = "resuming" /\ Back(d)
    /\ suspend' = [suspend EXCEPT ![d] = "left"]
    /\ UNCHANGED <<demo, stop, co, timer, flag, resumes, result, mpc, answer>>

-------------------------------------------------------------------------------
(* The other threads, and main.                                            *)

Timer_Expire(d) ==
    /\ timer[d] = "sleeping"
    /\ TryResume(d)
    /\ timer' = [timer EXCEPT ![d] = IF Wins(d) THEN "resuming" ELSE "deleting"]
    /\ UNCHANGED <<demo, stop, suspend, result, mpc, answer>>

Timer_Back(d) ==
    /\ timer[d] = "resuming" /\ Back(d)
    /\ timer' = [timer EXCEPT ![d] = "deleting"]
    /\ UNCHANGED <<demo, stop, co, suspend, flag, resumes, result, mpc, answer>>

\* delete done
Timer_Delete(d) ==
    /\ timer[d] = "deleting"
    /\ flag' = [flag EXCEPT ![d] = "deleted"]
    /\ timer' = [timer EXCEPT ![d] = "ended"]
    /\ UNCHANGED <<demo, stop, co, suspend, resumes, result, mpc, answer>>

RequestStop ==
    /\ demo = "cancel" /\ ~stop /\ Alive
    /\ stop' = TRUE
    /\ UNCHANGED <<demo, co, suspend, timer, flag, resumes, result, mpc, answer>>

\* resume() has returned: await_resume, and the temporary Task dies.
Main_SyncWait ==
    /\ mpc = "sync_wait"
    /\ suspend[1] = "left" \/ (suspend[1] = "none" /\ co = <<"final", 0>>)
    /\ answer' = result
    /\ mpc' = "end"
    /\ UNCHANGED <<demo, stop, co, suspend, timer, flag, resumes, result>>

-------------------------------------------------------------------------------

Next ==
    \/ Main_Start \/ Main_SyncWait \/ RequestStop
    \/ \E d \in Delays : \/ Ready(d) \/ Resumed(d) \/ StartTimer(d) \/ Callback(d) \/ CallbackDone(d)
                         \/ Timer_Expire(d) \/ Timer_Back(d) \/ Timer_Delete(d)

Spec == Init /\ [][Next]_vars

-------------------------------------------------------------------------------
(* Properties.                                                             *)

\* Whatever the order of the timer, the callback and the stop, a co_await is
\* resumed at most once.
OneResume == \A d \in Delays : resumes[d] <= 1
================================================================================
