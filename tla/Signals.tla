-------------------------------- MODULE Signals --------------------------------
(***************************************************************************)
(* main, handle_signal and demo_sigprocmask of                             *)
(* src/system_calls/06_signals.cpp: two loops that run until SIGTERM sets  *)
(* g_stop, a reload flag set by SIGUSR1, and a critical section with       *)
(* SIGUSR1 blocked.  Two children send the signals; MaxExtra more may come *)
(* from outside.                                                           *)
(*                                                                         *)
(* Standard signals: a signal is pending or not, never twice.  Its handler *)
(* may start between any two steps of main, or of the handler of another   *)
(* signal (sa_mask is empty), and takes two steps.                         *)
(***************************************************************************)
EXTENDS Integers, Sequences, FiniteSets

CONSTANT MaxExtra   \* signals from outside

Signals == {"term", "usr1"}

VARIABLES
    pc,           \* main
    g_stop, g_reload,
    g_last_signal,
    pending,      \* signals sent and not delivered
    blocked,      \* the signal mask of main
    handlers,     \* running handlers, innermost last: sequence of <<signal, step>>
    c1, c2,       \* the children
    extra         \* signals that came from outside

vars == <<pc, g_stop, g_reload, g_last_signal, pending, blocked, handlers, c1, c2, extra>>

TypeInv ==
    /\ pc \in {"loop1", "work1", "wait1", "reset", "fork2", "loop2", "poll", "work2",
               "wait2", "block", "critical", "restore", "done"}
    /\ g_stop \in BOOLEAN /\ g_reload \in BOOLEAN
    /\ g_last_signal \in Signals \union {"none"}
    /\ pending \subseteq Signals /\ blocked \subseteq Signals
    /\ handlers \in Seq(Signals \X {1, 2})
    /\ Len(handlers) <= Cardinality(Signals)
    /\ c1 \in {"term", "exited", "reaped"}
    /\ c2 \in {"unborn", "usr1", "term", "exited", "reaped"}
    /\ extra \in 0 .. MaxExtra

\* The handlers are installed and the first child is forked.
Init ==
    /\ pc = "loop1"
    /\ g_stop = FALSE /\ g_reload = FALSE /\ g_last_signal = "none"
    /\ pending = {} /\ blocked = {} /\ handlers = <<>>
    /\ c1 = "term" /\ c2 = "unborn"
    /\ extra = 0

-------------------------------------------------------------------------------
(* Delivery and handle_signal.                                             *)

Running == {handlers[k][1] : k \in 1 .. Len(handlers)}

\* Defect: the handlers are installed with SA_NODEFER.
Masked_NoDefer == blocked

\* A signal is blocked by the mask and while its own handler runs.
Masked == blocked \union Running

\* Delivery may lag behind kill() by any number of steps.
Deliver(sig) ==
    /\ pc # "done"
    /\ sig \in pending \ Masked
    /\ pending' = pending \ {sig}
    /\ handlers' = Append(handlers, <<sig, 1>>)
    /\ UNCHANGED <<pc, g_stop, g_reload, g_last_signal, blocked, c1, c2, extra>>

Flags(sig) ==
    /\ g_stop' = (g_stop \/ sig = "term")
    /\ g_reload' = (g_reload \/ sig = "usr1")

HandlerStep ==
    /\ handlers # <<>>
    /\ LET n == Len(handlers)
           sig == handlers[n][1]
       IN  \/ /\ handlers[n][2] = 1
              /\ g_last_signal' = sig
              /\ handlers' = [handlers EXCEPT ![n] = <<sig, 2>>]
              /\ UNCHANGED <<g_stop, g_reload>>
           \/ /\ handlers[n][2] = 2
              /\ Flags(sig)
              /\ handlers' = SubSeq(handlers, 1, n - 1)
              /\ UNCHANGED g_last_signal
    /\ UNCHANGED <<pc, pending, blocked, c1, c2, extra>>

-------------------------------------------------------------------------------
(* main, which runs when no handler does.                                  *)

Main(from, to) == handlers = <<>> /\ pc = from /\ pc' = to

system == <<g_last_signal, pending, handlers, extra>>

Loop1 ==
    /\ \/ ~g_stop /\ Main("loop1", "work1")
       \/ g_stop /\ Main("loop1", "wait1")
       \/ Main("work1", "loop1")
    /\ UNCHANGED <<g_stop, g_reload, blocked, c1, c2, system>>

\* waitpid() is restarted after a handler.
Wait1 ==
    /\ Main("wait1", "reset")
    /\ c1 = "exited"
    /\ c1' = "reaped"
    /\ UNCHANGED <<g_stop, g_reload, blocked, c2, system>>

\* g_stop.store(false), then fork().
ResetStop ==
    /\ \/ Main("reset", "fork2") /\ g_stop' = FALSE /\ UNCHANGED c2
       \/ Main("fork2", "loop2") /\ c2' = "usr1" /\ UNCHANGED g_stop
    /\ UNCHANGED <<g_reload, blocked, c1, system>>

\* The body takes up a reload: g_reload.exchange(false).
Loop2 ==
    /\ \/ ~g_stop /\ Main("loop2", "poll") /\ UNCHANGED g_reload
       \/ g_stop /\ Main("loop2", "wait2") /\ UNCHANGED g_reload
       \/ Main("poll", "work2") /\ g_reload' = FALSE
       \/ Main("work2", "loop2") /\ UNCHANGED g_reload
    /\ UNCHANGED <<g_stop, blocked, c1, c2, system>>

Wait2 ==
    /\ Main("wait2", "block")
    /\ c2 = "exited"
    /\ c2' = "reaped"
    /\ UNCHANGED <<g_stop, g_reload, blocked, c1, system>>

BlockSet == {"usr1"}

Critical ==
    /\ \/ Main("block", "critical") /\ blocked' = blocked \union BlockSet
       \/ Main("critical", "restore") /\ UNCHANGED blocked
       \/ Main("restore", "done") /\ blocked' = {}
    /\ UNCHANGED <<g_stop, g_reload, c1, c2, system>>

-------------------------------------------------------------------------------
(* The children, and the rest of the world.                                *)

Child1 ==
    /\ c1 = "term"
    /\ c1' = "exited"
    /\ pending' = pending \union {"term"}
    /\ UNCHANGED <<pc, g_stop, g_reload, g_last_signal, blocked, handlers, c2, extra>>

Child2 ==
    /\ c2 \in {"usr1", "term"}
    /\ c2' = IF c2 = "usr1" THEN "term" ELSE "exited"
    /\ pending' = pending \union {c2}
    /\ UNCHANGED <<pc, g_stop, g_reload, g_last_signal, blocked, handlers, c1, extra>>

Extra ==
    /\ pc # "done"
    /\ extra < MaxExtra
    /\ extra' = extra + 1
    /\ \E sig \in Signals : pending' = pending \union {sig}
    /\ UNCHANGED <<pc, g_stop, g_reload, g_last_signal, blocked, handlers, c1, c2>>

-------------------------------------------------------------------------------

MainStep == Loop1 \/ Wait1 \/ ResetStop \/ Loop2 \/ Wait2 \/ Critical

Next ==
    MainStep \/ HandlerStep \/ Child1 \/ Child2 \/ Extra \/ \E sig \in Signals : Deliver(sig)

Spec == Init /\ [][Next]_vars

-------------------------------------------------------------------------------
(* Properties.                                                             *)

\* SIGUSR1 does not interrupt the critical section that blocks it, neither by a
\* handler that started before.  (SIGTERM does: it is not blocked.)
NoReloadInCritical == pc = "critical" => "usr1" \notin Running

\* Both loops end, the children are reaped, main returns.
Finished == pc = "done" /\ c1 = "reaped" /\ c2 = "reaped"
================================================================================
