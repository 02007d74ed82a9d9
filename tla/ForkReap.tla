------------------------------- MODULE ForkReap --------------------------------
(***************************************************************************)
(* Who reaps whom in src/system_calls/05_fork_exec.cpp: demo_basic_fork,   *)
(* demo_execvp, demo_wnohang and demo_multiple_children, which main runs   *)
(* one after the other in one process (demo_pipe_fork between them is in   *)
(* PipeFork).  The table of children outlives the demo that forked them.   *)
(***************************************************************************)
EXTENDS Integers, FiniteSets

CONSTANTS
    Attempts,    \* polls of demo_wnohang (10 in the code)
    NMulti       \* children of demo_multiple_children (3 in the code)

\* The child of demo_basic_fork, of demo_execvp, of demo_wnohang, and the others.
Basic == -2
Exec == -1
Polled == 0
Multi == 1 .. NMulti
Children == Basic .. NMulti

VARIABLES
    pc,         \* main
    state,      \* child -> "unborn", "running", "zombie" or "reaped"
    attempt,    \* of demo_wnohang
    forked,     \* children that demo_multiple_children has forked
    collected,  \* children that its second loop has reaped
    printed     \* child -> times its status was printed

vars == <<pc, state, attempt, forked, collected, printed>>

TypeInv ==
    /\ pc \in {"basic", "wait_basic", "exec", "wait_exec", "fork_polled", "poll",
               "fork_multi", "wait_multi", "done"}
    /\ state \in [Children -> {"unborn", "running", "zombie", "reaped"}]
    /\ attempt \in 0 .. Attempts
    /\ forked \in 0 .. NMulti /\ collected \in 0 .. NMulti
    /\ printed \in [Children -> 0 .. 1]

Init ==
    /\ pc = "basic"
    /\ state = [c \in Children |-> "unborn"]
    /\ attempt = 0 /\ forked = 0 /\ collected = 0
    /\ printed = [c \in Children |-> 0]

Fork(c) == state' = [state EXCEPT ![c] = "running"]

\* A successful waitpid() and print_status.
Reap(c) ==
    /\ state[c] = "zombie"
    /\ state' = [state EXCEPT ![c] = "reaped"]
    /\ printed' = [printed EXCEPT ![c] = @ + 1]

-------------------------------------------------------------------------------

\* exit(), or uname, which execvp made of the child.
Exit(c) ==
    /\ state[c] = "running"
    /\ state' = [state EXCEPT ![c] = "zombie"]
    /\ UNCHANGED <<pc, attempt, forked, collected, printed>>

\* demo_basic_fork and demo_execvp: fork, then wait for that child.
ForkAndWait ==
    /\ \/ pc = "basic" /\ Fork(Basic) /\ pc' = "wait_basic" /\ UNCHANGED printed
       \/ pc = "wait_basic" /\ Reap(Basic) /\ pc' = "exec"
       \/ pc = "exec" /\ Fork(Exec) /\ pc' = "wait_exec" /\ UNCHANGED printed
       \/ pc = "wait_exec" /\ Reap(Exec) /\ pc' = "fork_polled"
    /\ UNCHANGED <<attempt, forked, collected>>

ForkPolled ==
    /\ pc = "fork_polled"
    /\ Fork(Polled)
    /\ pc' = "poll"
    /\ UNCHANGED <<attempt, forked, collected, printed>>

\* break
AfterPolled == "fork_multi"

\* waitpid(child, &status, WNOHANG) returns 0 while the child runs; with any
\* other result the status is printed.
Poll ==
    /\ pc = "poll"
    /\ IF state[Polled] = "running"
       THEN /\ pc' = IF attempt + 1 = Attempts THEN "fork_multi" ELSE "poll"
            /\ UNCHANGED <<state, printed>>
       ELSE /\ state' = [state EXCEPT ![Polled] = "reaped"]
            /\ printed' = [printed EXCEPT ![Polled] = @ + 1]
            /\ pc' = AfterPolled
    /\ attempt' = attempt + 1
    /\ UNCHANGED <<forked, collected>>

ForkMulti ==
    /\ pc = "fork_multi"
    /\ Fork(forked + 1)
    /\ forked' = forked + 1
    /\ pc' = IF forked + 1 = NMulti THEN "wait_multi" ELSE "fork_multi"
    /\ UNCHANGED <<attempt, collected, printed>>

LastCollected(n) == n = NMulti

\* waitpid(-1): any dead child of the process.
WaitAny ==
    /\ pc = "wait_multi"
    /\ \E c \in Children : Reap(c)
    /\ collected' = collected + 1
    /\ pc' = IF LastCollected(collected + 1) THEN "done" ELSE "wait_multi"
    /\ UNCHANGED <<attempt, forked>>

-------------------------------------------------------------------------------

Main == ForkAndWait \/ ForkPolled \/ Poll \/ ForkMulti \/ WaitAny

Next == Main \/ \E c \in Children : Exit(c)

Spec == Init /\ [][Next]_vars

-------------------------------------------------------------------------------
(* Properties.                                                             *)

\* A status is printed once, for a child that was reaped then.
PrintedOnce ==
    \A c \in Children : printed[c] = (IF state[c] = "reaped" THEN 1 ELSE 0)

\* At the end at most one child is not reaped, and only if demo_wnohang had
\* used all its attempts.
OneLeftAtMost ==
    pc = "done" =>
        LET left == {c \in Children : state[c] # "reaped"}
        IN  Cardinality(left) <= (IF attempt = Attempts THEN 1 ELSE 0)

\* main returns: no waitpid() waits for a child that is not there.
Finished == pc = "done"
================================================================================
