------------------------------- MODULE FileSend --------------------------------
(***************************************************************************)
(* demo_sendfile and demo_splice of src/networking/08_sendfile_zerocopy.cpp *)
(* (the Linux build): the main thread sends a file over TCP, with          *)
(* sendfile(), or with splice() through a pipe, while a thread receives    *)
(* the number of bytes that the file has.                                  *)
(*                                                                         *)
(* Bytes are counted.  splice() into the socket may return early only if   *)
(* Short: the manual page allows it, a signal can cause it.                *)
(***************************************************************************)
EXTENDS Integers

CONSTANTS
    FileSize,
    PipeCap,     \* capacity of the pipe
    SockBuf,     \* capacity of the connection
    UseSplice,   \* demo_splice, else demo_sendfile
    Short        \* splice() may move fewer bytes than it was asked to

VARIABLES
    tpc,        \* the sending thread
    rpc,        \* the receiving thread
    pending,    \* a connection waits to be accepted
    offset,     \* bytes taken from the file
    pipe, sock, \* bytes in the pipe, in the connection
    remaining,  \* the loop variable of the sender
    n, m,       \* results of the two splices
    total       \* bytes received

vars == <<tpc, rpc, pending, offset, pipe, sock, remaining, n, m, total>>

TypeInv ==
    /\ tpc \in {"connect", "sendfile", "fill", "drain", "closed", "died"}
    /\ rpc \in {"start", "accept", "recv", "done"}
    /\ pending \in BOOLEAN
    /\ offset \in 0 .. FileSize
    /\ pipe \in 0 .. PipeCap
    /\ sock \in 0 .. SockBuf
    /\ remaining \in 0 .. FileSize
    /\ n \in 0 .. PipeCap
    /\ m \in 0 .. n
    /\ total \in 0 .. FileSize

\* create_test_file: a file of FileSize bytes, all of them still to be sent.
TestFile ==
    /\ offset = 0
    /\ remaining = FileSize

Init ==
    /\ TestFile
    /\ tpc = "connect" /\ rpc = "start" /\ pending = FALSE
    /\ pipe = 0 /\ sock = 0
    /\ n = 0 /\ m = 0 /\ total = 0

-------------------------------------------------------------------------------
(* The receiver.                                                           *)

Listen ==
    /\ rpc = "start"
    /\ rpc' = "accept"
    /\ UNCHANGED <<tpc, pending, offset, pipe, sock, remaining, n, m, total>>

Accept ==
    /\ rpc = "accept"
    /\ pending
    /\ pending' = FALSE
    /\ rpc' = "recv"
    /\ UNCHANGED <<tpc, offset, pipe, sock, remaining, n, m, total>>

MoreExpected(t) == t < FileSize

Recv ==
    /\ rpc = "recv"
    /\ MoreExpected(total)
    /\ \E k \in 1 .. sock : sock' = sock - k /\ total' = total + k
    /\ UNCHANGED <<tpc, rpc, pending, offset, pipe, remaining, n, m>>

\* All bytes are there; close().  (The sender closes after its last byte, so
\* that the loop never meets EOF.)
ReceiverDone ==
    /\ rpc = "recv"
    /\ ~MoreExpected(total)
    /\ rpc' = "done"
    /\ UNCHANGED <<tpc, pending, offset, pipe, sock, remaining, n, m, total>>

-------------------------------------------------------------------------------
(* The sender.                                                             *)

\* make_client() dies when nobody listens; demo_splice does not look at the
\* result, and the first splice() into the socket fails instead.
Connect ==
    /\ tpc = "connect"
    /\ \/ /\ rpc = "accept"
          /\ pending' = TRUE
          /\ tpc' = IF UseSplice THEN "fill" ELSE "sendfile"
       \/ /\ rpc = "start"
          /\ tpc' = "died"
          /\ UNCHANGED pending
    /\ UNCHANGED <<rpc, offset, pipe, sock, remaining, n, m, total>>

SendLeft(k) == remaining - k

\* sendfile() advances offset by the bytes it sent.
Sendfile ==
    /\ tpc = "sendfile"
    /\ remaining > 0
    /\ \E k \in 1 .. remaining :
           /\ offset + k <= FileSize /\ sock + k <= SockBuf
           /\ offset' = offset + k
           /\ sock' = sock + k
           /\ remaining' = SendLeft(k)
    /\ UNCHANGED <<tpc, rpc, pending, pipe, n, m, total>>

\* Step 1: splice() from the file into the pipe.  It blocks while the pipe is
\* full and returns 0 at the end of the file.
Fill ==
    /\ tpc = "fill"
    /\ remaining > 0
    /\ \/ /\ offset < FileSize
          /\ \E k \in 1 .. FileSize - offset :
                 /\ pipe + k <= PipeCap
                 /\ n' = k /\ pipe' = pipe + k /\ offset' = offset + k
       \/ /\ offset = FileSize
          /\ n' = 0
          /\ UNCHANGED <<pipe, offset>>
    /\ m' = 0
    /\ tpc' = "drain"
    /\ UNCHANGED <<rpc, pending, sock, remaining, total>>

\* Step 2: splice() of n bytes from the pipe into the socket ...
Drain ==
    /\ tpc = "drain"
    /\ \E k \in 1 .. n - m :
           /\ sock + k <= SockBuf
           /\ m' = m + k /\ pipe' = pipe - k /\ sock' = sock + k
    /\ UNCHANGED <<tpc, rpc, pending, offset, remaining, n, total>>

\* Defect: the bytes that entered the pipe are counted.
LeftAfter_In == remaining - n

LeftAfter == remaining - m

\* ... which returns the number m it moved.
DrainReturn ==
    /\ tpc = "drain"
    /\ m = n \/ (Short /\ m > 0)
    /\ remaining' = LeftAfter
    /\ n' = 0 /\ m' = 0
    /\ tpc' = "fill"
    /\ UNCHANGED <<rpc, pending, offset, pipe, sock, total>>

\* The files and the socket are closed; the receiver is joined.
Close ==
    /\ tpc \in {"sendfile", "fill"}
    /\ remaining = 0
    /\ tpc' = "closed"
    /\ UNCHANGED <<rpc, pending, offset, pipe, sock, remaining, n, m, total>>

-------------------------------------------------------------------------------

Sender == Connect \/ Sendfile \/ Fill \/ Drain \/ DrainReturn \/ Close

Receiver == tpc # "died" /\ (Listen \/ Accept \/ Recv \/ ReceiverDone)

Next == Sender \/ Receiver

Spec == Init /\ [][Next]_vars

-------------------------------------------------------------------------------
(* Properties.                                                             *)

\* No byte of the file is lost or sent twice on its way through pipe and
\* connection, and `remaining` is what the socket has not been given yet.
Conserved ==
    /\ offset = pipe + sock + total
    /\ remaining = FileSize - (sock + total) + m

\* When the sender has closed the connection, every byte is in it or received.
ClosedMeansSent == tpc = "closed" => sock + total = FileSize /\ pipe = 0

\* What a short splice() into the socket leads to: its rest stays in the pipe, the
\* sender blocks on the full pipe or spins at the end of the file, asking for 0
\* bytes, and the receiver waits for the rest.
StuckInPipe ==
    /\ tpc \in {"fill", "drain"} /\ n = 0
    /\ pipe > 0 /\ (offset = FileSize \/ pipe = PipeCap)
    /\ rpc = "recv" /\ sock = 0

\* Both threads end, unless the sender ran ahead of listen().
Finished == tpc = "died" \/ (tpc = "closed" /\ rpc = "done" /\ total = FileSize)
================================================================================
