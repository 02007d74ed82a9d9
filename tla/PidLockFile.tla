------------------------------ MODULE PidLockFile ------------------------------
(***************************************************************************)
(* demo_pid_lockfile of src/system_calls/09_file_locking.cpp: an instance  *)
(* unlinks the lock file, opens it, takes a non-blocking exclusive flock,  *)
(* writes its PID, forks a second process that tries the same without the  *)
(* unlink, and releases everything.  Several instances run this code and   *)
(* may crash at any point.                                                 *)
(*                                                                         *)
(* flock locks belong to open file descriptions.  The forked child         *)
(* inherits its parent's, so the parent's lock lasts until both are gone.  *)
(***************************************************************************)
EXTENDS Integers, FiniteSets

CONSTANT Inst   \* the instances

NoFile == 0
NoPid == "no pid"
NoLock == <<"nobody", NoPid>>

\* The inodes: every open() with O_CREAT may need a new one.
Inode == 1 .. 2 * Cardinality(Inst)

VARIABLES
    name,     \* the inode that lock_path stands for, or NoFile
    used,     \* number of inodes created so far
    content,  \* [Inode -> the instance whose PID it holds, or NoPid]
    owner,    \* [Inode -> the open file description that has the flock]
    pc, ino,  \* [Inst -> where it is], [Inst -> the inode of its fd]
    cpc, cino \* the same for its child and fd2

vars == <<name, used, content, owner, pc, ino, cpc, cino>>

Description == {"instance", "child"} \X Inst

TypeInv ==
    /\ name \in Inode \cup {NoFile}
    /\ used \in 0 .. 2 * Cardinality(Inst)
    /\ content \in [Inode -> Inst \cup {NoPid}]
    /\ owner \in [Inode -> Description \cup {NoLock}]
    /\ pc \in [Inst -> {"unlink", "open", "flock", "write", "fork", "wait", "release",
                        "remove", "refused", "done", "crashed"}]
    /\ ino \in [Inst -> Inode \cup {NoFile}]
    /\ cpc \in [Inst -> {"none", "open", "flock", "close", "gone"}]
    /\ cino \in [Inst -> Inode \cup {NoFile}]

Init ==
    /\ name = NoFile
    /\ used = 0
    /\ content = [k \in Inode |-> NoPid]
    /\ owner = [k \in Inode |-> NoLock]
    /\ pc = [x \in Inst |-> "unlink"]
    /\ ino = [x \in Inst |-> NoFile]
    /\ cpc = [x \in Inst |-> "none"]
    /\ cino = [x \in Inst |-> NoFile]

-------------------------------------------------------------------------------
(* The kernel.                                                             *)

\* open(O_RDWR | O_CREAT): the inode of the name, or a new one.
Opened == IF name = NoFile THEN used + 1 ELSE name

OpenFile ==
    /\ name' = Opened
    /\ used' = IF name = NoFile THEN used + 1 ELSE used

\* The lock goes when the last descriptor of the description is closed.
Dropped(d) == [k \in Inode |-> IF owner[k] \in d THEN NoLock ELSE owner[k]]

-------------------------------------------------------------------------------
(* An instance.                                                            *)

Goto(x, l) == pc' = [pc EXCEPT ![x] = l]

UnlinkOld(x) ==
    /\ pc[x] = "unlink"
    /\ name' = NoFile
    /\ Goto(x, "open")
    /\ UNCHANGED <<used, content, owner, ino, cpc, cino>>

Open(x) ==
    /\ pc[x] = "open"
    /\ OpenFile
    /\ ino' = [ino EXCEPT ![x] = Opened]
    /\ Goto(x, "flock")
    /\ UNCHANGED <<content, owner, cpc, cino>>

\* Defect: the lock asked for is LOCK_SH.
MayLock_Shared(k) == TRUE

MayLock(k) == owner[k] = NoLock

Lock(x) ==
    /\ pc[x] = "flock"
    /\ MayLock(ino[x])
    /\ owner' = [owner EXCEPT ![ino[x]] = <<"instance", x>>]
    /\ Goto(x, "write")
    /\ UNCHANGED <<name, used, content, ino, cpc, cino>>

\* EWOULDBLOCK: report the PID in the file, close, return.
Refuse(x) ==
    /\ pc[x] = "flock"
    /\ ~MayLock(ino[x])
    /\ ino' = [ino EXCEPT ![x] = NoFile]
    /\ Goto(x, "refused")
    /\ UNCHANGED <<name, used, content, owner, cpc, cino>>

PidText(x) == x

\* ftruncate() and write().
WritePid(x) ==
    /\ pc[x] = "write"
    /\ content' = [content EXCEPT ![ino[x]] = PidText(x)]
    /\ Goto(x, "fork")
    /\ UNCHANGED <<name, used, owner, ino, cpc, cino>>

Fork(x) ==
    /\ pc[x] = "fork"
    /\ cpc' = [cpc EXCEPT ![x] = "open"]
    /\ Goto(x, "wait")
    /\ UNCHANGED <<name, used, content, owner, ino, cino>>

Unlocked(x) == Dropped({<<"instance", x>>})

\* waitpid() returns; flock(LOCK_UN) and close().
Release(x) ==
    /\ pc[x] = "wait"
    /\ cpc[x] = "gone"
    /\ owner' = Unlocked(x)
    /\ ino' = [ino EXCEPT ![x] = NoFile]
    /\ Goto(x, "remove")
    /\ UNCHANGED <<name, used, content, cpc, cino>>

Remove(x) ==
    /\ pc[x] = "remove"
    /\ name' = NoFile
    /\ Goto(x, "done")
    /\ UNCHANGED <<used, content, owner, ino, cpc, cino>>

Over == {"refused", "done", "crashed"}

\* The process dies.  Its description stays open in a child that still runs.
Crash(x) ==
    /\ pc[x] \notin Over
    /\ owner' = IF cpc[x] \in {"none", "gone"} THEN Dropped({<<"instance", x>>}) ELSE owner
    /\ ino' = [ino EXCEPT ![x] = NoFile]
    /\ Goto(x, "crashed")
    /\ UNCHANGED <<name, used, content, cpc, cino>>

-------------------------------------------------------------------------------
(* Its child, the "second instance".                                       *)

ChildOpen(x) ==
    /\ cpc[x] = "open"
    /\ OpenFile
    /\ cino' = [cino EXCEPT ![x] = Opened]
    /\ cpc' = [cpc EXCEPT ![x] = "flock"]
    /\ UNCHANGED <<content, owner, pc, ino>>

ChildLock(x) ==
    /\ cpc[x] = "flock"
    /\ IF MayLock(cino[x])
       THEN owner' = [owner EXCEPT ![cino[x]] = <<"child", x>>]
       ELSE UNCHANGED owner
    /\ cpc' = [cpc EXCEPT ![x] = "close"]
    /\ UNCHANGED <<name, used, content, pc, ino, cino>>

\* close(fd2) and exit(), which also closes the inherited descriptor.
ChildExit(x) ==
    /\ cpc[x] = "close"
    /\ owner' = Dropped({<<"child", x>>}
                        \cup IF pc[x] = "crashed" THEN {<<"instance", x>>} ELSE {})
    /\ cpc' = [cpc EXCEPT ![x] = "gone"]
    /\ cino' = [cino EXCEPT ![x] = NoFile]
    /\ UNCHANGED <<name, used, content, pc, ino>>

-------------------------------------------------------------------------------

InstStep(x) ==
    \/ UnlinkOld(x) \/ Open(x) \/ Lock(x) \/ Refuse(x) \/ WritePid(x) \/ Fork(x)
    \/ Release(x) \/ Remove(x)

ChildStep(x) == ChildOpen(x) \/ ChildLock(x) \/ ChildExit(x)

Next == \E x \in Inst : InstStep(x) \/ ChildStep(x) \/ Crash(x)

Spec == Init /\ [][Next]_vars

-------------------------------------------------------------------------------
(* Properties.                                                             *)

Running(x) == pc[x] \in {"write", "fork", "wait"}

\* A running instance keeps the flock of its own file, and the file keeps its
\* PID, whatever other instances and children do to the name.
HolderKeepsFile ==
    \A x \in Inst : Running(x) =>
        /\ owner[ino[x]] = <<"instance", x>>
        /\ pc[x] # "write" => content[ino[x]] = x

\* A flock outlives neither a clean exit nor a crash for ever: it belongs to an
\* instance that runs, or to one whose child still does.
LockHasProcess ==
    \A k \in Inode : owner[k] # NoLock =>
        \E x \in Inst :
            \/ owner[k] = <<"instance", x>> /\ (Running(x) \/ cpc[x] \in {"open", "flock", "close"})
            \/ owner[k] = <<"child", x>> /\ cpc[x] = "close"

\* "OS releases the lock on crash": in the end no file is locked.
AllReleased == \A k \in Inode : owner[k] = NoLock

\* "single-instance trading process": two instances never run together.
SingleInstance == \A x, y \in Inst : Running(x) /\ Running(y) => x = y
================================================================================
