------------------------------- MODULE FileLocks -------------------------------
(***************************************************************************)
(* demo_flock() and demo_fcntl_locks() of                                  *)
(* src/system_calls/09_file_locking.cpp, run by several instances of the   *)
(* program at once on the two paths it names.  A path leads to an inode;   *)
(* unlink() takes the path away while locks go on living on the inode.     *)
(* flock locks belong to an open file description, fcntl locks to the      *)
(* process and the inode.                                                  *)
(***************************************************************************)
EXTENDS Naturals, FiniteSets

CONSTANTS Instances

VARIABLES
    path,    \* the inode of each path, 0 when there is no such file
    made,    \* inodes made so far for each path
    pc,      \* each instance's place in the program
    fd,      \* the inode of the instance's descriptor
    ex,      \* instances whose descriptor holds LOCK_EX
    cpc,     \* each instance's child: "none", "open", "lock", "held" or
             \* "exited", and which child it is
    cfd,     \* the inode of the child's own descriptor
    sh,      \* instances whose child holds LOCK_SH
    rec      \* fcntl locks: record -> "none", "rd" or "wr", per instance

vars == <<path, made, pc, fd, ex, cpc, cfd, sh, rec>>
parent == <<path, made, pc, fd, ex, rec>>

Files == {"rates", "book"}
Records == {0, 2}
Unlocked == [k \in Records |-> "none"]

Init ==
    /\ path = [f \in Files |-> 0] /\ made = [f \in Files |-> 0]
    /\ pc = [i \in Instances |-> "open"]
    /\ fd = [i \in Instances |-> 0] /\ ex = {}
    /\ cpc = [i \in Instances |-> [nth |-> 0, at |-> "none"]]
    /\ cfd = [i \in Instances |-> 0] /\ sh = {}
    /\ rec = [i \in Instances |-> Unlocked]

TypeInv ==
    /\ path \in [Files -> Nat] /\ made \in [Files -> 0 .. 2 * Cardinality(Instances)]
    /\ \A f \in Files : path[f] <= made[f]
    /\ pc \in [Instances -> {"open", "lock", "wait1", "wait2", "fopen", "write2", "read0",
                             "unlock2", "fclose", "end", "dead"}]
    /\ fd \in [Instances -> Nat] /\ cfd \in [Instances -> Nat]
    /\ ex \subseteq Instances /\ sh \subseteq Instances
    /\ \A i \in Instances :
           cpc[i].nth \in 0 .. 2 /\ cpc[i].at \in {"none", "open", "lock", "held", "exited"}
    /\ rec \in [Instances -> [Records -> {"none", "rd", "wr"}]]

Goto(i, label) == pc' = [pc EXCEPT ![i] = label]
ChildGoto(i, label) == cpc' = [cpc EXCEPT ![i].at = label]

\* open(path, O_RDWR | O_CREAT | O_TRUNC)
OpenCreate(i, f) ==
    LET ino == IF path[f] = 0 THEN made[f] + 1 ELSE path[f]
    IN /\ path' = [path EXCEPT ![f] = ino]
       /\ made' = [made EXCEPT ![f] = IF path[f] = 0 THEN ino ELSE @]
       /\ fd' = [fd EXCEPT ![i] = ino]

Open(i) ==
    /\ pc[i] = "open"
    /\ OpenCreate(i, "rates")
    /\ Goto(i, "lock")
    /\ UNCHANGED <<ex, cpc, cfd, sh, rec>>

\* Whether an instance not in S holds LOCK_EX, or a child LOCK_SH, on the inode.
HeldEx(S, ino) == \E j \in ex \ S : fd[j] = ino
HeldSh(ino) == \E j \in sh : cfd[j] = ino

\* LOCK_EX waits until no other description holds a lock.
ExFree(i) == ~HeldEx({i}, fd[i]) /\ ~HeldSh(fd[i])

LockEx(i) ==
    /\ pc[i] = "lock" /\ ExFree(i)
    /\ ex' = ex \cup {i}
    /\ Goto(i, "wait1")
    /\ cpc' = [cpc EXCEPT ![i] = [nth |-> 1, at |-> "open"]]
    /\ UNCHANGED <<path, made, fd, cfd, sh, rec>>

\* flock(fd, LOCK_UN)
Unlock(i) == ex' = ex \ {i}

\* The first child is reaped; the lock is released, the second child forked.
Release(i) ==
    /\ pc[i] = "wait1" /\ cpc[i].at = "exited"
    /\ Unlock(i)
    /\ Goto(i, "wait2")
    /\ cpc' = [cpc EXCEPT ![i] = [nth |-> 2, at |-> "open"]]
    /\ UNCHANGED <<path, made, fd, cfd, sh, rec>>

\* The second child is reaped; close() and unlink().
FlockEnds(i) ==
    /\ pc[i] = "wait2" /\ cpc[i].at = "exited"
    /\ ex' = ex \ {i}
    /\ path' = [path EXCEPT !["rates"] = 0]
    /\ Goto(i, "fopen")
    /\ UNCHANGED <<made, fd, cpc, cfd, sh, rec>>

---------------------------------------------------------------------------
\* A child opens the path itself; without the file it dies.
ChildOpen(i) ==
    /\ cpc[i].at = "open"
    /\ IF path["rates"] = 0
       THEN ChildGoto(i, "exited") /\ UNCHANGED cfd
       ELSE cfd' = [cfd EXCEPT ![i] = path["rates"]] /\ ChildGoto(i, "lock")
    /\ UNCHANGED <<sh, parent>>

\* flock(fd2, LOCK_SH | LOCK_NB), then close() and exit() either way.
ChildTry(i) ==
    /\ cpc[i] = [nth |-> 1, at |-> "lock"]
    /\ IF HeldEx({}, cfd[i])
       THEN ChildGoto(i, "exited") /\ UNCHANGED sh
       ELSE sh' = sh \cup {i} /\ ChildGoto(i, "held")
    /\ UNCHANGED <<cfd, parent>>

\* The second child's flock(fd3, LOCK_SH) waits for the exclusive lock.
ChildShare(i) ==
    /\ cpc[i] = [nth |-> 2, at |-> "lock"]
    /\ ~HeldEx({}, cfd[i])
    /\ sh' = sh \cup {i}
    /\ ChildGoto(i, "held")
    /\ UNCHANGED <<cfd, parent>>

\* The lock goes with LOCK_UN or close(), and the child exits.
ChildExit(i) ==
    /\ cpc[i].at = "held"
    /\ sh' = sh \ {i}
    /\ ChildGoto(i, "exited")
    /\ UNCHANGED <<cfd, parent>>

---------------------------------------------------------------------------
\* demo_fcntl_locks(): open the file and write its records.
FcntlOpen(i) ==
    /\ pc[i] = "fopen"
    /\ OpenCreate(i, "book")
    /\ Goto(i, "write2")
    /\ UNCHANGED <<ex, cpc, cfd, sh, rec>>

InFcntl(j) == pc[j] \in {"write2", "read0", "unlock2", "fclose"}

\* A lock of another process on the same record of the same inode is in the way.
Conflict(i, k, kind) ==
    \E j \in Instances \ {i} :
        /\ InFcntl(j) /\ fd[j] = fd[i]
        /\ rec[j][k] = "wr" \/ (rec[j][k] = "rd" /\ kind = "wr")

\* fcntl(F_SETLK): the lock, or die(), which ends the process and its locks.
SetLock(i, k, kind, label) ==
    IF Conflict(i, k, kind)
    THEN rec' = [rec EXCEPT ![i] = Unlocked] /\ Goto(i, "dead")
    ELSE rec' = [rec EXCEPT ![i][k] = kind] /\ Goto(i, label)

\* F_WRLCK on record 2; the F_GETLK that follows asks about our own lock.
WriteLock(i) ==
    /\ pc[i] = "write2"
    /\ SetLock(i, 2, "wr", "read0")
    /\ UNCHANGED <<path, made, fd, ex, cpc, cfd, sh>>

\* F_RDLCK on record 0.
ReadLock(i) ==
    /\ pc[i] = "read0"
    /\ SetLock(i, 0, "rd", "unlock2")
    /\ UNCHANGED <<path, made, fd, ex, cpc, cfd, sh>>

FcntlUnlock(i) ==
    /\ pc[i] = "unlock2"
    /\ rec' = [rec EXCEPT ![i][2] = "none"]
    /\ Goto(i, "fclose")
    /\ UNCHANGED <<path, made, fd, ex, cpc, cfd, sh>>

\* close() gives up the locks of the process on the file; unlink().
FcntlClose(i) ==
    /\ pc[i] = "fclose"
    /\ rec' = [rec EXCEPT ![i] = Unlocked]
    /\ path' = [path EXCEPT !["book"] = 0]
    /\ Goto(i, "end")
    /\ UNCHANGED <<made, fd, ex, cpc, cfd, sh>>

Step(i) ==
    \/ Open(i) \/ LockEx(i) \/ Release(i) \/ FlockEnds(i)
    \/ FcntlOpen(i) \/ WriteLock(i) \/ ReadLock(i) \/ FcntlUnlock(i) \/ FcntlClose(i)

ChildStep(i) == ChildOpen(i) \/ ChildTry(i) \/ ChildShare(i) \/ ChildExit(i)

Next == \E i \in Instances : Step(i) \/ ChildStep(i)

Spec == Init /\ [][Next]_vars

---------------------------------------------------------------------------
\* The first child's LOCK_SH | LOCK_NB fails (lines 71 and 81) on the file that its
\* parent has locked: if it gets a lock, the path has been unlinked and made anew by
\* another instance since the parent opened it, and the lock is on that file.
ChildRefused ==
    \A i \in Instances :
        cpc[i] = [nth |-> 1, at |-> "held"] =>
            /\ i \in ex
            /\ cfd[i] > fd[i]
            /\ \E j \in Instances \ {i} : pc[j] \notin {"open", "lock", "wait1", "wait2"}

\* Nobody waits for ever: an instance that holds the lock while it waits for
\* its child never keeps that child, or another instance, waiting on it.
Finished == \A i \in Instances : pc[i] \in {"end", "dead"}
================================================================================
