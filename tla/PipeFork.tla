-------------------------------- MODULE PipeFork -------------------------------
(***************************************************************************)
(* Pipes between two processes, with the descriptors that keep them open.  *)
(*   "pipe"     demo_pipe_fork of src/system_calls/05_fork_exec.cpp and    *)
(*              demo_anonymous_pipe of src/system_calls/07_pipes_fifo.cpp: *)
(*              the parent writes, the child reads until EOF;              *)
(*   "capture"  demo_dup2_stdout: the child's stdout, read once;           *)
(*   "pair"     demo_socketpair: a request and its reply;                  *)
(*   "fifo"     demo_fifo: two children meet in open().                    *)
(* W is the process that writes, R the one that reads; the demos share     *)
(* nothing, so each is an initial state.  Data is counted in pieces.       *)
(***************************************************************************)
EXTENDS Integers

CONSTANTS
    NPieces,   \* pieces that W writes
    PipeCap,   \* pieces that fit into the pipe
    BufSize    \* pieces that fit into R's buffer

VARIABLES
    demo,
    wpc, rpc,
    wends, rends,  \* processes that hold the write end, the read end
    data,          \* pieces in the pipe
    back,          \* replies on the way back
    written, total

vars == <<demo, wpc, rpc, wends, rends, data, back, written, total>>

TypeInv ==
    /\ demo \in {"pipe", "capture", "pair", "fifo"}
    /\ wpc \in {"open", "opening", "close", "write", "reply", "wait", "done", "killed"}
    /\ rpc \in {"open", "opening", "close", "read", "reply", "end", "wait", "done"}
    /\ wends \subseteq {"W", "R"} /\ rends \subseteq {"W", "R"}
    /\ data \in 0 .. PipeCap /\ back \in 0 .. 1
    /\ written \in 0 .. NPieces /\ total \in 0 .. BufSize

\* The request of demo_socketpair is one write.
Pieces == IF demo = "pair" THEN 1 ELSE NPieces

\* After fork() both processes hold both ends; a FIFO is not open yet.
Init ==
    /\ demo \in {"pipe", "capture", "pair", "fifo"}
    /\ wpc = IF demo = "fifo" THEN "open" ELSE "close"
    /\ rpc = IF demo = "fifo" THEN "open" ELSE "close"
    /\ wends = IF demo = "fifo" THEN {} ELSE {"W", "R"}
    /\ rends = IF demo = "fifo" THEN {} ELSE {"W", "R"}
    /\ data = 0 /\ back = 0 /\ written = 0 /\ total = 0

-------------------------------------------------------------------------------
(* The writer.                                                             *)

\* open(O_WRONLY) counts as a writer at once and returns when there is a reader.
WOpen ==
    /\ \/ wpc = "open" /\ wpc' = "opening" /\ wends' = {"W"}
       \/ wpc = "opening" /\ rends # {} /\ wpc' = "write" /\ UNCHANGED wends
    /\ UNCHANGED <<demo, rpc, rends, data, back, written, total>>

WCloseUnused ==
    /\ wpc = "close"
    /\ rends' = rends \ {"W"}
    /\ wpc' = "write"
    /\ UNCHANGED <<demo, rpc, wends, data, back, written, total>>

MoreToWrite == written < Pieces

\* write_all: it blocks while the pipe is full; without readers it is SIGPIPE.
Write ==
    /\ wpc = "write"
    /\ MoreToWrite
    /\ \/ /\ rends # {}
          /\ data < PipeCap
          /\ data' = data + 1
          /\ written' = written + 1
          /\ UNCHANGED <<wpc, wends>>
       \/ /\ rends = {}
          /\ wpc' = "killed"
          /\ wends' = wends \ {"W"}
          /\ UNCHANGED <<data, written>>
    /\ UNCHANGED <<demo, rpc, rends, back, total>>

\* close(), exit() or shutdown(SHUT_WR).
WEnd ==
    /\ wpc = "write"
    /\ ~MoreToWrite
    /\ wends' = wends \ {"W"}
    /\ wpc' = CASE demo = "pipe" -> "wait"
                [] demo = "pair" -> "reply"
                [] OTHER -> "done"
    /\ UNCHANGED <<demo, rpc, rends, data, back, written, total>>

\* demo_socketpair reads its reply; EOF would do as well.
WReply ==
    /\ wpc = "reply"
    /\ back > 0
    /\ back' = back - 1
    /\ wpc' = "wait"
    /\ UNCHANGED <<demo, rpc, wends, rends, data, written, total>>

\* The parent's waitpid().
WWait ==
    /\ wpc = "wait"
    /\ rpc = "done"
    /\ wpc' = "done"
    /\ UNCHANGED <<demo, rpc, wends, rends, data, back, written, total>>

-------------------------------------------------------------------------------
(* The reader.                                                             *)

ROpen ==
    /\ \/ rpc = "open" /\ rpc' = "opening" /\ rends' = {"R"}
       \/ rpc = "opening" /\ wends # {} /\ rpc' = "read" /\ UNCHANGED rends
    /\ UNCHANGED <<demo, wpc, wends, data, back, written, total>>

\* Defect: the reader keeps its copy of the write end.
KeepsWriteEnd_Open == {"R"}

KeepsWriteEnd == {}

RCloseUnused ==
    /\ rpc = "close"
    /\ wends' = (wends \ {"R"}) \union KeepsWriteEnd
    /\ rpc' = "read"
    /\ UNCHANGED <<demo, wpc, rends, data, back, written, total>>

LoopsToEof == demo \in {"pipe", "fifo"}

AfterRead == IF LoopsToEof THEN "read" ELSE IF demo = "pair" THEN "reply" ELSE "end"

\* read() of what is there, as far as the buffer has room.
Read ==
    /\ rpc = "read"
    /\ \E k \in 1 .. data :
           /\ k <= BufSize - total
           /\ data' = data - k
           /\ total' = total + k
    /\ rpc' = AfterRead
    /\ UNCHANGED <<demo, wpc, wends, rends, back, written>>

\* Defect: an empty pipe is taken for EOF.
Eof_Empty == data = 0

\* Empty, and nobody is left who could write.
Eof == data = 0 /\ wends = {}

ReadEof ==
    /\ rpc = "read"
    /\ LoopsToEof
    /\ Eof
    /\ rpc' = "end"
    /\ UNCHANGED <<demo, wpc, wends, rends, data, back, written, total>>

\* The child of demo_socketpair answers.
RReply ==
    /\ rpc = "reply"
    /\ back' = back + 1
    /\ rpc' = "end"
    /\ UNCHANGED <<demo, wpc, wends, rends, data, written, total>>

REnd ==
    /\ rpc = "end"
    /\ rends' = rends \ {"R"}
    /\ rpc' = IF demo = "capture" THEN "wait" ELSE "done"
    /\ UNCHANGED <<demo, wpc, wends, data, back, written, total>>

RWait ==
    /\ rpc = "wait"
    /\ wpc \in {"done", "killed"}
    /\ rpc' = "done"
    /\ UNCHANGED <<demo, wpc, wends, rends, data, back, written, total>>

-------------------------------------------------------------------------------

W == WOpen \/ WCloseUnused \/ Write \/ WEnd \/ WReply \/ WWait

R == ROpen \/ RCloseUnused \/ Read \/ ReadEof \/ RReply \/ REnd \/ RWait

Next == W \/ R

Spec == Init /\ [][Next]_vars

-------------------------------------------------------------------------------
(* Properties.                                                             *)

\* A reader that loops to EOF ends with everything that was written, and only
\* after the writer has written everything.
EofMeansAll == demo \in {"pipe", "fifo"} /\ rpc \in {"end", "done"} => total = NPieces

\* Only the child whose output is read once can be killed by SIGPIPE.
NoSigpipe == wpc = "killed" => demo = "capture"

\* Both processes end and the parent has waited: no end that was forgotten
\* keeps a read() from returning, and the two open()s of the FIFO meet.
Finished == wpc \in {"done", "killed"} /\ rpc = "done"
================================================================================
