--------------------------------- MODULE Files ---------------------------------
(***************************************************************************)
(* src/system_calls/01_file_io.cpp, 02_stat_links.cpp, 03_mmap_file.cpp    *)
(* and demo_named_shm of 04_mmap_ipc.cpp: processes as scripts of system   *)
(* calls on one file system.  A unit of a file stands for a few bytes that *)
(* are read and written together, and 0 ends a line.  A write() may be     *)
(* short: write_all() goes on with the rest, the others do not look at the *)
(* result.  A call that a signal interrupts is repeated.                   *)
(* A mapping keeps its inode as an open descriptor does.  The stores and   *)
(* loads of 04 release and acquire, and there is one writer: they show the *)
(* reader no more than their interleavings do.                             *)
(***************************************************************************)
EXTENDS Integers, FiniteSets, SequencesExt

CONSTANTS
    Demos,
    Writers,   \* processes that append, or compete for the lock file
    BufSize,   \* units the buffer of read() holds
    Updates    \* published in shared memory

VARIABLES
    demo,
    code,  \* process -> its script
    pc,    \* process -> its next call, beyond the script when it has ended
    part,  \* process -> units of its write_all() that are written
    dir,   \* path -> inode, 0 for none
    data,  \* inode -> units
    fds,   \* process -> descriptor -> inode and offset
    out,   \* process -> what it has printed
    short, \* processes that had a short write()
    killed \* processes that were killed

vars == <<demo, code, pc, part, dir, data, fds, out, short, killed>>
history == <<short, killed>>

Paths == {"prices", "log", "lock", "file", "hard", "sym", "tmp", "final", "scratch", "ticks", "shm"}
Fds == {"fd", "log_fd", "stdout", "saved", "map"}
Terminal == 1
Inodes == 1 .. 5

-------------------------------------------------------------------------------
(* 01_file_io.cpp                                                          *)

header == <<7, 0>>
Row(k) == <<10 + k, 0>>

write_csv ==
    <<<<"open", "fd", "prices", {"creat", "trunc"}, 1, 0>>, <<"write_all", "fd", header>>,
      <<"write_all", "fd", Row(1)>>, <<"write_all", "fd", Row(2)>>, <<"close", "fd">>>>
read_csv == <<<<"open", "fd", "prices", {}, 1, 0>>, <<"read_all", "fd">>>>
first_line == <<<<"lseek", "fd", Len(header)>>, <<"read_line", "fd">>, <<"close", "fd">>>>
append_line(bytes) ==
    <<<<"open", "fd", "prices", {"append"}, 1, 0>>, <<"write_all", "fd", bytes>>, <<"close", "fd">>>>
redirect ==
    <<<<"open", "log_fd", "log", {"creat", "trunc"}, 1, 0>>, <<"dup", "stdout", "saved">>,
      <<"dup", "log_fd", "stdout">>, <<"write", "stdout", <<5>>>>, <<"dup", "saved", "stdout">>,
      <<"close", "saved">>, <<"close", "log_fd">>, <<"write", "stdout", <<6>>>>>>

lock_file(pid) ==
    <<<<"open", "fd", "lock", {"creat", "excl"}, 1, 4>>, <<"write_all", "fd", <<pid, 0>>>>,
      <<"close", "fd">>, <<"unlink", "lock">>>>
cleanup == <<<<"unlink", "prices">>, <<"unlink", "log">>>>

(* 02_stat_links.cpp                                                       *)

create_curve == <<<<"open", "fd", "file", {"creat", "trunc"}, 1, 0>>, <<"write", "fd", <<45, 47, 51>>>>,
                  <<"close", "fd">>, <<"lstat", "file">>>>
hard_link == <<<<"link", "file", "hard">>, <<"lstat", "file">>, <<"lstat", "hard">>>>
sym_link == <<<<"symlink", "file", "sym">>, <<"lstat", "sym">>, <<"stat", "sym">>>>
fstat_open == <<<<"open", "fd", "file", {}, 1, 0>>, <<"fstat", "fd">>, <<"close", "fd">>>>
publish == <<<<"open", "fd", "tmp", {"creat", "trunc"}, 1, 0>>, <<"write", "fd", <<1, 2>>>>,
             <<"close", "fd">>, <<"rename", "tmp", "final">>, <<"lstat", "final">>>>
unlink_all == <<<<"unlink", "sym">>, <<"unlink", "hard">>, <<"lstat", "file">>, <<"unlink", "file">>,
                <<"unlink", "final">>>>
scratch == <<<<"open", "fd", "scratch", {"creat", "trunc"}, 1, 0>>, <<"unlink", "scratch">>,
             <<"write", "fd", <<9>>>>, <<"lseek", "fd", 0>>, <<"read_all", "fd">>, <<"close", "fd">>>>

\* Readers of the final path, any time.
curve_reader == <<<<"open", "fd", "final", {}, 1, 0>>, <<"read_all", "fd">>, <<"close", "fd">>>>

(* 03_mmap_file.cpp                                                        *)

Ticks == <<100, 101, 102, 103, 104>>
Opened(flags) == <<<<"open", "fd", "ticks", flags, 1, 0>>, <<"mmap", "fd", "map">>, <<"close", "fd">>>>
create_tick_file == <<<<"open", "fd", "ticks", {"creat", "trunc"}, 1, 0>>>> \o [k \in DOMAIN Ticks |-> <<"write", "fd", <<Ticks[k]>>>>]
                    \o <<<<"close", "fd">>>>
scan_ticks == Opened({}) \o <<<<"scan", "map">>, <<"munmap", "map">>>>
adjust_ticks == Opened({}) \o [k \in DOMAIN Ticks |-> <<"scale", "map", k>>] \o <<<<"munmap", "map">>>>
verify_ticks == Opened({}) \o <<<<"get", "map", 1>>, <<"get", "map", Len(Ticks)>>, <<"munmap", "map">>>>
spot_check == Opened({}) \o <<<<"get", "map", 1>>, <<"get", "map", 3>>, <<"munmap", "map">>, <<"unlink", "ticks">>>>

(* 04_mmap_ipc.cpp: cells 1 to 4 are seq, mid, spread and n_updates.       *)

Snapshot(i) == <<<<"store", "map", 1, 2 * i - 1>>, <<"store", "map", 2, i>>, <<"store", "map", 3, i>>,
                 <<"store", "map", 4, i>>, <<"store", "map", 1, 2 * i>>>>
shm_writer ==
    <<<<"open", "fd", "shm", {"creat"}, 1, 0>>, <<"ftruncate", "fd", 4>>, <<"mmap", "fd", "map">>,
      <<"close", "fd">>>> \o FlattenSeq([i \in 1 .. Updates |-> Snapshot(i)])
    \o <<<<"munmap", "map">>, <<"unlink", "shm">>>>

\* A second shm_open when the first fails; four calls for every update seen.
shm_reader ==
    <<<<"open", "fd", "shm", {}, 2, 1>>, <<"open", "fd", "shm", {}, 1, 0>>, <<"mmap", "fd", "map">>,
      <<"close", "fd">>, <<"poll", "map">>, <<"get", "map", 2>>, <<"get", "map", 3>>, <<"again", 3>>,
      <<"munmap", "map">>>>

-------------------------------------------------------------------------------

Procs == CASE demo \in {"csv", "mmap"} -> {1} [] demo \in {"links", "shm"} -> {1, 2} [] OTHER -> Writers

Script(d, p) ==
    CASE d = "csv" -> write_csv \o read_csv \o first_line \o append_line(Row(3)) \o redirect \o lock_file(p) \o cleanup
      [] d = "append" -> append_line(<<10 * p + 1, 10 * p + 2, 0>>)
      [] d = "lock" -> lock_file(p)
      [] d = "links" -> IF p = 1 THEN create_curve \o hard_link \o sym_link \o fstat_open \o publish \o unlink_all \o scratch
                        ELSE curve_reader
      [] d = "mmap" -> create_tick_file \o scan_ticks \o adjust_ticks \o verify_ticks \o spot_check
      [] d = "shm" -> IF p = 1 THEN shm_writer ELSE shm_reader

Init ==
    /\ demo \in Demos
    /\ code = [p \in Procs |-> Script(demo, p)]
    /\ pc = [p \in Procs |-> 1]
    /\ part = [p \in Procs |-> 0]
    /\ dir = [q \in Paths |-> IF demo = "append" /\ q = "prices" THEN 2 ELSE 0]
    /\ data = [i \in Inodes |-> <<>>]
    /\ fds = [p \in Procs |-> [f \in Fds |-> [ino |-> IF f = "stdout" THEN Terminal ELSE 0, off |-> 0]]]
    /\ out = [p \in Procs |-> <<>>]
    /\ short = {} /\ killed = {}

-------------------------------------------------------------------------------
(* The kernel.                                                             *)

Running(p) == pc[p] <= Len(code[p])
Call(p) == code[p][pc[p]]
Is(p, names) == Running(p) /\ Call(p)[1] \in names
Fd(p) == fds[p][Call(p)[2]]
Content(p) == data[Fd(p).ino]
Go(p, by) == pc' = [pc EXCEPT ![p] = @ + by]

Used == {Terminal} \cup {dir[q] : q \in Paths} \cup UNION {{fds[p][f].ino : f \in Fds} : p \in Procs}
Free == Min(Inodes \ Used)
nlink(ino) == Cardinality({q \in Paths : dir[q] = ino})

Die(p) == pc' = [pc EXCEPT ![p] = Len(code[p]) + 1]
SetFd(p, f, ino, off) == fds' = [fds EXCEPT ![p][f] = [ino |-> ino, off |-> off]]

\* open() and shm_open(); where it is an error, the process exits.
Open(p) ==
    LET c == Call(p)
        ino == dir[c[3]]
    IN  /\ Is(p, {"open"})
        /\ \/ /\ IF ino = 0 THEN "creat" \notin c[4] ELSE "excl" \in c[4]
              /\ IF c[6] = 0 THEN Die(p) ELSE Go(p, c[6])
              /\ UNCHANGED <<dir, data, fds>>
           \/ /\ ino # 0 /\ "excl" \notin c[4]
              /\ SetFd(p, c[2], ino, IF "append" \in c[4] THEN -1 ELSE 0)
              /\ data' = IF "trunc" \in c[4] THEN [data EXCEPT ![ino] = <<>>] ELSE data
              /\ Go(p, c[5]) /\ UNCHANGED dir
           \/ /\ ino = 0 /\ "creat" \in c[4]
              /\ dir' = [dir EXCEPT ![c[3]] = Free]
              /\ data' = [data EXCEPT ![Free] = <<>>]
              /\ SetFd(p, c[2], Free, 0) /\ Go(p, c[5])
        /\ UNCHANGED <<demo, code, part, out, history>>

Overlay(s, at, bytes) ==
    [k \in 1 .. Max({Len(s), at + Len(bytes)}) |-> IF k - at \in DOMAIN bytes THEN bytes[k - at] ELSE s[k]]

\* Defect: the file is opened without O_APPEND.
Position_Start(p) == IF Fd(p).off = -1 THEN 0 ELSE Fd(p).off

\* O_APPEND, -1 here: the position of a write is the end of the file.
Position(p) == IF Fd(p).off = -1 THEN Len(Content(p)) ELSE Fd(p).off

\* write() of n units of the buffer, or of the rest of it in write_all(), which goes on
\* until nothing is left.
Write(p) ==
    LET rest == SubSeq(Call(p)[3], part[p] + 1, Len(Call(p)[3]))
    IN  /\ Is(p, {"write", "write_all"})
        /\ \E n \in 1 .. Len(rest) : LET done == n = Len(rest) \/ Call(p)[1] = "write" IN
             /\ data' = [data EXCEPT ![Fd(p).ino] = Overlay(@, Position(p), SubSeq(rest, 1, n))]
             /\ SetFd(p, Call(p)[2], Fd(p).ino, IF Fd(p).off = -1 THEN -1 ELSE Fd(p).off + n)
             /\ part' = [part EXCEPT ![p] = IF done THEN 0 ELSE @ + n]
             /\ Go(p, IF done THEN 1 ELSE 0)
             /\ short' = IF n < Len(rest) THEN short \cup {p} ELSE short
        /\ UNCHANGED <<demo, code, dir, out, killed>>

\* The loop of read() until it returns 0, at the end of the file or of the buffer.
ReadAll(p) ==
    LET most == Min({Len(Content(p)) - Fd(p).off, BufSize - 1 - part[p]})
    IN  /\ Is(p, {"read_all"})
        /\ \/ most = 0 /\ Go(p, 1) /\ part' = [part EXCEPT ![p] = 0] /\ UNCHANGED <<fds, out>>
           \/ \E n \in 1 .. most :
                /\ out' = [out EXCEPT ![p] = @ \o SubSeq(Content(p), Fd(p).off + 1, Fd(p).off + n)]
                /\ SetFd(p, Call(p)[2], Fd(p).ino, Fd(p).off + n)
                /\ part' = [part EXCEPT ![p] = @ + n] /\ UNCHANGED pc
        /\ UNCHANGED <<demo, code, dir, data, history>>

\* What the calls that only look print: a line cut at its end, sizes and numbers of
\* links, and values in a mapping.
Seen(p) ==
    LET c == Call(p)
        status(ino) == <<Len(data[ino]), nlink(ino)>>
    IN  CASE c[1] = "read_line" -> LET s == SubSeq(Content(p), Fd(p).off + 1, Len(Content(p)))
                                   IN  SubSeq(s, 1, SelectInSeq(s, LAMBDA u : u = 0) - 1)
          [] c[1] = "lstat" -> IF dir[c[2]] = 0 THEN <<>> ELSE status(dir[c[2]])
          [] c[1] = "stat" -> <<Len(data[dir["file"]])>>
          [] c[1] = "fstat" -> status(Fd(p).ino)
          [] c[1] = "scan" -> <<Len(Content(p)), FoldLeft(LAMBDA a, v : a + v, 0, Content(p))>>
          [] c[1] = "get" -> <<Content(p)[c[3]]>>
Look(p) ==
    /\ Is(p, {"read_line", "lstat", "stat", "fstat", "scan", "get"})
    /\ out' = [out EXCEPT ![p] = @ \o Seen(p)]
    /\ Go(p, 1)
    /\ UNCHANGED <<demo, code, part, dir, data, fds, history>>

\* Descriptors and mappings.
Descriptor(p) ==
    LET c == Call(p)
    IN  /\ Is(p, {"close", "munmap", "dup", "mmap", "lseek"})
        /\ CASE c[1] \in {"close", "munmap"} -> SetFd(p, c[2], 0, 0)
             [] c[1] \in {"dup", "mmap"} -> SetFd(p, c[3], Fd(p).ino, Fd(p).off)
             [] c[1] = "lseek" -> SetFd(p, c[2], Fd(p).ino, c[3])
        /\ Go(p, 1)
        /\ UNCHANGED <<demo, code, part, dir, data, out, history>>

\* Names: rename() replaces in one step; unlink() leaves the inode to who has it open.
Name(p) ==
    LET c == Call(p)
    IN  /\ Is(p, {"link", "symlink", "rename", "unlink"})
        /\ dir' = CASE c[1] = "link" -> [dir EXCEPT ![c[3]] = dir[c[2]]]
                    [] c[1] = "symlink" -> [dir EXCEPT ![c[3]] = Free]
                    [] c[1] = "rename" -> [dir EXCEPT ![c[3]] = dir[c[2]], ![c[2]] = 0]
                    [] c[1] = "unlink" -> [dir EXCEPT ![c[2]] = 0]
        /\ data' = IF c[1] = "symlink" THEN [data EXCEPT ![Free] = <<4>>] ELSE data
        /\ Go(p, 1)
        /\ UNCHANGED <<demo, code, part, fds, out, history>>

\* ftruncate() to a size, and stores to a mapping.
Store(p) ==
    LET c == Call(p)
    IN  /\ Is(p, {"ftruncate", "scale", "store"})
        /\ data' = [data EXCEPT ![Fd(p).ino] =
             CASE c[1] = "ftruncate" -> [k \in 1 .. c[3] |-> IF k <= Len(@) THEN @[k] ELSE 0]
               [] c[1] = "scale" -> [@ EXCEPT ![c[3]] = 2 * @]
               [] c[1] = "store" -> [@ EXCEPT ![c[3]] = c[4]]]
        /\ Go(p, 1)
        /\ UNCHANGED <<demo, code, part, dir, fds, out, history>>

\* The update the reader has seen last: it prints three values for each.
seen(p) == IF out[p] = <<>> THEN 0 ELSE out[p][Len(out[p]) - 2]

\* A load beyond the end of a segment not yet sized raises SIGBUS.
Poll(p) ==
    /\ Is(p, {"poll"})
    /\ \/ Content(p) = <<>> /\ Die(p) /\ UNCHANGED out
       \/ /\ Content(p) # <<>> /\ Content(p)[4] > seen(p)
          /\ out' = [out EXCEPT ![p] = Append(@, Content(p)[4])]
          /\ Go(p, 1)
    /\ UNCHANGED <<demo, code, part, dir, data, fds, history>>

Again(p) ==
    /\ Is(p, {"again"})
    /\ Go(p, IF seen(p) < Updates THEN -Call(p)[2] ELSE 1)
    /\ UNCHANGED <<demo, code, part, dir, data, fds, out, history>>

Step(p) ==
    p \in Procs /\ (Open(p) \/ Write(p) \/ ReadAll(p) \/ Look(p) \/ Descriptor(p) \/ Name(p) \/ Store(p)
                    \/ Poll(p) \/ Again(p))

\* A process is killed while it has the lock file: the kernel closes its descriptors.
Crash(p) ==
    /\ demo = "lock" /\ p \in Procs /\ pc[p] \in 2 .. 4
    /\ Die(p)
    /\ fds' = [fds EXCEPT ![p] = [f \in Fds |-> [ino |-> 0, off |-> 0]]]
    /\ killed' = killed \cup {p}
    /\ UNCHANGED <<demo, code, part, dir, data, out, short>>

-------------------------------------------------------------------------------
(* Properties.                                                             *)

TypeInv ==
    /\ \A p \in Procs : pc[p] \in 1 .. Len(code[p]) + 1
    /\ dir \in [Paths -> Inodes \cup {0}]
    /\ \A p \in Procs, f \in Fds : fds[p][f].ino \in Inodes \cup {0}

Ended(p) == ~Running(p)
csv_content == header \o Row(1) \o Row(2)

\* What 01, 02 and 03 print: the file, its first line; sizes and links ("nlink is now 2",
\* "nlink goes from 2 -> 1") of files in which curve and new units were written, and what
\* the unlinked file holds; the ticks before and after they are scaled in place.
Expected(curve, new) ==
    CASE demo = "csv" -> csv_content \o <<11>>
      [] demo = "links" -> <<curve, 1, curve, 2, curve, 2, 1, 1, curve, curve, 2, new, 1, curve, 1, 9>>
      [] demo = "mmap" -> <<5, 510, 200, 208, 200, 204>>
      [] OTHER -> <<>>

\* 01, 02 and 03 print this, whatever pieces write_all() and the read loop are served in;
\* a bare write() that is short shows in every size that is printed afterwards.
PrintsRight ==
    demo \in {"csv", "links", "mmap"} =>
        \E curve \in 1 .. 3, new \in 1 .. 2 :
            /\ IsPrefix(out[1], Expected(curve, new))
            /\ Ended(1) => out[1] = Expected(curve, new)
            /\ 1 \notin short => curve = 3 /\ new = 2

\* A reader of the final path sees nothing or all that was in the file when it was
\* renamed, never a file that is being written.  "Readers opening the final path will
\* always see a complete file" needs more, a write() that is not short.
ReplacedAtOnce ==
    demo = "links" /\ Ended(2) /\ out[2] # <<>> =>
        /\ IsPrefix(out[2], <<1, 2>>)
        /\ Len(out[1]) > 12 => Len(out[2]) = out[1][12]
        /\ 1 \notin short => out[2] = <<1, 2>>

\* O_APPEND: the bytes of every writer are in the file in order, none overwritten, and a
\* line that is written in one piece stays in one piece: a write() is appended atomically,
\* a write_all() of several is not.  The line written after the redirection is undone goes
\* to the terminal, the one before to the log.
NothingOverwritten ==
    /\ demo = "append" =>
         \A p \in Procs :
            LET line == <<10 * p + 1, 10 * p + 2>>
                mine == SelectSeq(data[2], LAMBDA u : u \div 10 = p)
            IN  /\ IsPrefix(mine, line) /\ (pc[p] > 2 => mine = line)
                /\ p \notin short /\ pc[p] > 2 =>
                      \E k \in 0 .. Len(data[2]) - 3 : SubSeq(data[2], k + 1, k + 3) = Append(line, 0)
    /\ data[Terminal] \in {<<>>, <<6>>}

\* One process at a time is between its open(O_CREAT | O_EXCL) and its unlink(), and the
\* file is there all that time: one that was told EEXIST does not take it away.
LockAlone ==
    demo = "lock" =>
      /\ Cardinality({p \in Procs : pc[p] \in 2 .. 4}) <= 1
      /\ (\E p \in Procs : pc[p] \in 2 .. 4) => dir["lock"] # 0

\* A reader of the named segment prints no price older than its update: the counter is
\* stored last and loaded first.  It does not test seq, so that mid may be one update
\* ahead of spread, or spread any number ahead of mid; a line of the last update is right.
NotStale ==
    demo = "shm" =>
        \A k \in DOMAIN out[2] :
            LET label == out[2][k - ((k - 1) % 3)]
            IN  /\ out[2][k] >= label
                /\ k % 3 = 0 => out[2][k] >= out[2][k - 1] - 1
                /\ label = Updates => out[2][k] = Updates

\* Processes end, and leave no file behind, a lock file only if its maker was killed.
Finished ==
    /\ \A p \in Procs : Ended(p)
    /\ demo \notin {"append", "lock"} => \A q \in Paths : dir[q] = 0
    /\ demo = "lock" /\ killed = {} => dir["lock"] = 0
================================================================================
