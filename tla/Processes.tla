------------------------------- MODULE Processes -------------------------------
(***************************************************************************)
(* The programs of src/system_calls that read and write files, fork, signal *)
(* and lock files, one at a time.  A behaviour is a run of one program (of *)
(* several instances of it where it locks files), chosen in Init; v1 to    *)
(* v10 are the variables of that program's module, in the order in which   *)
(* it declares them.                                                       *)
(***************************************************************************)
EXTENDS Integers, Sequences

VARIABLES program, v1, v2, v3, v4, v5, v6, v7, v8, v9, v10

vars == <<program, v1, v2, v3, v4, v5, v6, v7, v8, v9, v10>>

\* 05_fork_exec.cpp and 07_pipes_fifo.cpp: more data than the pipe holds.
Pipes == INSTANCE PipeFork WITH
    NPieces <- 5, PipeCap <- 3, BufSize <- 8,
    demo <- v1, wpc <- v2, rpc <- v3, wends <- v4, rends <- v5, data <- v6, back <- v7, written
    <- v8, total <- v9

\* 05_fork_exec.cpp, with the numbers of the code.
Reap == INSTANCE ForkReap WITH
    Attempts <- 10, NMulti <- 3,
    pc <- v1, state <- v2, attempt <- v3, forked <- v4, collected <- v5, printed <- v6

\* 06_signals.cpp, with two signals from outside.
Sig == INSTANCE Signals WITH
    MaxExtra <- 2,
    pc <- v1, g_stop <- v2, g_reload <- v3, g_last_signal <- v4, pending <- v5, blocked <- v6,
    handlers <- v7, c1 <- v8, c2 <- v9, extra <- v10

\* 09_file_locking.cpp: three instances on the same files.
Locks == INSTANCE FileLocks WITH
    Instances <- {"i1", "i2", "i3"},
    path <- v1, made <- v2, pc <- v3, fd <- v4, ex <- v5, cpc <- v6, cfd <- v7, sh <- v8, rec <-
    v9

\* 09_file_locking.cpp: three instances of the single-instance process.
Pid == INSTANCE PidLockFile WITH
    Inst <- {"i1", "i2", "i3"},
    name <- v1, used <- v2, content <- v3, owner <- v4, pc <- v5, ino <- v6, cpc <- v7, cino <-
    v8

\* 01_file_io.cpp, 02_stat_links.cpp, 03_mmap_file.cpp and the named segment of
\* 04_mmap_ipc.cpp: three processes append or compete for the lock file.
File == INSTANCE Files WITH
    Demos <- {"csv", "append", "lock", "links", "mmap", "shm"}, Writers <- 1 .. 3, BufSize <- 8,
    Updates <- 2,
    demo <- v1, code <- v2, pc <- v3, part <- v4, dir <- v5, data <- v6, fds <- v7, out <- v8,
    short <- v9, killed <- v10

-------------------------------------------------------------------------------

Init ==
    \/ program = "pipes" /\ Pipes!Init /\ v10 = 0
    \/ program = "reap" /\ Reap!Init /\ v7 = 0 /\ v8 = 0 /\ v9 = 0 /\ v10 = 0
    \/ program = "signals" /\ Sig!Init
    \/ program = "locks" /\ Locks!Init /\ v10 = 0
    \/ program = "pid_lock" /\ Pid!Init /\ v9 = 0 /\ v10 = 0
    \/ program = "files" /\ File!Init

Instances == {"i1", "i2", "i3"}

\* The process that main() is, or the instance "i1" of it,
Parent ==
    \/ program = "pipes" /\ Pipes!W /\ UNCHANGED <<program, v10>>
    \/ program = "reap" /\ Reap!Main /\ UNCHANGED <<program, v7, v8, v9, v10>>
    \/ program = "signals" /\ Sig!MainStep /\ UNCHANGED program
    \/ program = "files" /\ File!Step(1) /\ UNCHANGED program

\* its children, and others that use the same files,
Child(c) ==
    \/ program = "pipes" /\ c = 1 /\ Pipes!R /\ UNCHANGED <<program, v10>>
    \/ program = "reap" /\ Reap!Exit(c) /\ UNCHANGED <<program, v7, v8, v9, v10>>
    \/ program = "signals" /\ c = 1 /\ Sig!Child1 /\ UNCHANGED program
    \/ program = "signals" /\ c = 2 /\ Sig!Child2 /\ UNCHANGED program
    \/ program = "files" /\ c \in {2, 3} /\ File!Step(c) /\ UNCHANGED program

\* the delivery of signals and their handlers,
Handler == program = "signals" /\ Sig!HandlerStep /\ UNCHANGED program
Deliver(sig) == program = "signals" /\ Sig!Deliver(sig) /\ UNCHANGED program

\* the instances that lock files, and their children.
Instance(i) ==
    \/ program = "locks" /\ Locks!Step(i) /\ UNCHANGED <<program, v10>>
    \/ program = "pid_lock" /\ Pid!InstStep(i) /\ UNCHANGED <<program, v9, v10>>
ItsChild(i) ==
    \/ program = "locks" /\ Locks!ChildStep(i) /\ UNCHANGED <<program, v10>>
    \/ program = "pid_lock" /\ Pid!ChildStep(i) /\ UNCHANGED <<program, v9, v10>>
WaitEx(i) == program = "locks" /\ Locks!LockEx(i) /\ UNCHANGED <<program, v10>>
WaitSh(i) == program = "locks" /\ Locks!ChildShare(i) /\ UNCHANGED <<program, v10>>

\* A crash, a signal from outside.
Crash(i) == program = "pid_lock" /\ Pid!Crash(i) /\ UNCHANGED <<program, v9, v10>>
Killed(p) == program = "files" /\ File!Crash(p) /\ UNCHANGED program
Outside == program = "signals" /\ Sig!Extra /\ UNCHANGED program

Next ==
    \/ Parent \/ Handler \/ Outside
    \/ \E c \in -2 .. 3 : Child(c)
    \/ \E sig \in {"term", "usr1"} : Deliver(sig)
    \/ \E i \in Instances : Instance(i) \/ ItsChild(i) \/ Crash(i)
    \/ \E p \in 1 .. 3 : Killed(p)

\* Every process is scheduled, and what is pending and not blocked is delivered.
\* A waiting flock() is granted in turn when the lock keeps coming free.  Nothing
\* is assumed of crashes and of signals from outside.
Fairness ==
    /\ WF_vars(Parent) /\ WF_vars(Handler)
    /\ \A c \in -2 .. 3 : WF_vars(Child(c))
    /\ \A sig \in {"term", "usr1"} : WF_vars(Deliver(sig))
    /\ \A i \in Instances :
           WF_vars(Instance(i)) /\ WF_vars(ItsChild(i)) /\ SF_vars(WaitEx(i)) /\ SF_vars(WaitSh(i))

Spec == Init /\ [][Next]_vars /\ Fairness

-------------------------------------------------------------------------------
(* Properties.                                                             *)

\* The variables of every program have their types.
TypeOK ==
    CASE program = "pipes" -> Pipes!TypeInv
      [] program = "reap" -> Reap!TypeInv
      [] program = "signals" -> Sig!TypeInv
      [] program = "locks" -> Locks!TypeInv
      [] program = "pid_lock" -> Pid!TypeInv
      [] program = "files" -> File!TypeInv

\* A reader that loops to EOF has all that was written, and only a child whose
\* output is read once is killed by SIGPIPE; a status is printed once, for a child
\* reaped then, and one child at most is left to init.
CollectedOnce ==
    CASE program = "pipes" -> Pipes!EofMeansAll /\ Pipes!NoSigpipe
      [] program = "reap" -> Reap!PrintedOnce /\ Reap!OneLeftAtMost
      [] OTHER -> TRUE

\* Files hold and show what was written, whatever pieces write_all() was served in; a
\* reader of a replaced file sees none or all of what was in it when it was renamed; no
\* append overwrites another, and one write() is appended in one piece; a price in the
\* named segment is not older than the update it is printed for.
FilesRight ==
    program = "files" =>
        File!PrintsRight /\ File!ReplacedAtOnce /\ File!NothingOverwritten /\ File!NotStale

\* Who is locked out: the child that tries its parent's lock, unless the path leads
\* to a new file by then; every other instance from the file that a running one has
\* locked, which keeps its PID; the reload handler from the section that blocks its
\* signal; all others from a lock file until its maker unlinks it.  No flock outlives
\* its processes.  A lock file does outlive its maker if that is killed, against the
\* "crash-safe" of 01_file_io.cpp:123, and SIGTERM may come in the section.
LockedOut ==
    CASE program = "locks" -> Locks!ChildRefused
      [] program = "pid_lock" -> Pid!HolderKeepsFile /\ Pid!LockHasProcess
      [] program = "signals" -> Sig!NoReloadInCritical
      [] program = "files" -> File!LockAlone
      [] OTHER -> TRUE

\* No process waits for ever, for an end of a pipe that was forgotten, for a child
\* that is not there, for a flag or for a lock; a flock is gone for good in the
\* end, whoever crashes; no temporary file is left behind, and no lock file unless
\* its maker was killed.
Completes ==
    <>[](CASE program = "pipes" -> Pipes!Finished
           [] program = "reap" -> Reap!Finished
           [] program = "signals" -> Sig!Finished
           [] program = "locks" -> Locks!Finished
           [] program = "pid_lock" -> Pid!AllReleased
           [] program = "files" -> File!Finished)
================================================================================
