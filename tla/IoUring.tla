-------------------------------- MODULE IoUring --------------------------------
(***************************************************************************)
(* io_uring_echo_server and tcp_client of src/networking/09_io_uring.cpp:  *)
(* a server that submits one operation, waits for its completion, and      *)
(* submits the next one from there, and the blocking client it echoes to.  *)
(*                                                                         *)
(* A byte is the number under which the client sends it.  The kernel       *)
(* completes a recv or a send with any number of bytes; a send reads, and  *)
(* a recv writes, the one buffer ctx.buf when it completes.                *)
(***************************************************************************)
EXTENDS Integers, Sequences, SequencesExt

CONSTANTS
    MsgLen,     \* lengths of the client's messages
    MaxIter     \* turns of the event loop (20 in the code)

NMsgs == Len(MsgLen)

VARIABLES
    spc,        \* "start", "loop" or "done"
    inflight,   \* operations submitted and not completed
    cq,         \* completions: sequence of <<tag, res>>
    iterations,
    buf,        \* ctx.buf
    fd,         \* client_fd: "none", "open" or "closed"
    cpc, msg,   \* the client, and the message it is at
    conn,       \* "none", "pending", "up"
    inq, outq,  \* bytes on their way to the server, to the client
    nsent,      \* bytes the client has sent
    got         \* bytes the client has received

vars == <<spc, inflight, cq, iterations, buf, fd, cpc, msg, conn, inq, outq, nsent, got>>

client == <<cpc, msg, nsent, got>>

MaxBytes == FoldLeft(LAMBDA a, b : a + b, 0, MsgLen)

Bytes == 1 .. MaxBytes

TypeInv ==
    /\ spc \in {"start", "loop", "done"}
    /\ inflight \subseteq {"accept", "recv", "send"}
    /\ cq \in Seq({"accept", "recv", "send"} \X (-1 .. MaxBytes))
    /\ iterations \in 0 .. MaxIter
    /\ buf \in Seq(Bytes)
    /\ fd \in {"none", "open", "closed"}
    /\ cpc \in {"connect", "send", "recv", "closed", "killed"}
    /\ msg \in 1 .. NMsgs + 1
    /\ conn \in {"none", "pending", "up"}
    /\ inq \in Seq(Bytes) /\ outq \in Seq(Bytes) /\ got \in Seq(Bytes)
    /\ nsent \in 0 .. MaxBytes

Init ==
    /\ spc = "start" /\ inflight = {} /\ cq = <<>> /\ iterations = 0
    /\ buf = <<>> /\ fd = "none"
    /\ cpc = "connect" /\ msg = 1 /\ conn = "none"
    /\ inq = <<>> /\ outq = <<>> /\ nsent = 0 /\ got = <<>>

-------------------------------------------------------------------------------
(* The kernel's side of the ring.                                          *)

Complete(tag, res) ==
    /\ inflight' = inflight \ {tag}
    /\ cq' = Append(cq, <<tag, res>>)
    /\ UNCHANGED <<spc, iterations, fd, client>>

\* The client has closed with bytes unread, or is sent some afterwards.
Reset == cpc = "closed" /\ outq # <<>>

KernelAccept ==
    /\ "accept" \in inflight
    /\ conn = "pending"
    /\ conn' = "up"
    /\ Complete("accept", 0)
    /\ UNCHANGED <<buf, inq, outq>>

KernelRecv ==
    /\ "recv" \in inflight
    /\ \/ \E k \in 1 .. Len(inq) :
              /\ buf' = SubSeq(inq, 1, k)
              /\ inq' = SubSeq(inq, k + 1, Len(inq))
              /\ Complete("recv", k)
       \/ /\ inq = <<>> /\ cpc = "closed"
          /\ Complete("recv", IF Reset THEN -1 ELSE 0)
          /\ UNCHANGED <<buf, inq>>
    /\ UNCHANGED <<conn, outq>>

KernelSend ==
    /\ "send" \in inflight
    /\ \/ \E k \in 1 .. Len(buf) :
              /\ outq' = outq \o SubSeq(buf, 1, k)
              /\ Complete("send", k)
       \/ /\ Reset
          /\ Complete("send", -1)
          /\ UNCHANGED outq
    /\ UNCHANGED <<conn, buf, inq>>

-------------------------------------------------------------------------------
(* io_uring_echo_server                                                    *)

\* The listening socket, the ring, and the first accept.
Listen ==
    /\ spc = "start"
    /\ spc' = "loop"
    /\ inflight' = {"accept"}
    /\ UNCHANGED <<cq, iterations, buf, fd, conn, inq, outq, client>>

\* Operations submitted by a recv with data: the echo.
AfterRecv == {"send"}

\* ... and by a send: the next recv.
AfterSend == {"recv"}

\* goto done
Ends(tag, res) == res < 0 \/ (tag = "recv" /\ res = 0)

HasTurn == iterations < MaxIter

\* io_uring_wait_cqe, io_uring_cqe_seen and the switch.
Handle ==
    /\ spc = "loop"
    /\ HasTurn
    /\ cq # <<>>
    /\ LET tag == Head(cq)[1]
           res == Head(cq)[2]
       IN  /\ cq' = Tail(cq)
           /\ iterations' = iterations + 1
           /\ spc' = IF Ends(tag, res) THEN "done" ELSE "loop"
           /\ fd' = IF tag = "accept" THEN "open"
                    ELSE IF Ends(tag, res) THEN "closed" ELSE fd
           /\ inflight' =
                  IF Ends(tag, res) THEN {}
                  ELSE inflight \union CASE tag = "accept" -> {"recv"}
                                         [] tag = "recv" -> AfterRecv
                                         [] tag = "send" -> AfterSend
    /\ UNCHANGED <<buf, conn, inq, outq, client>>

\* The loop has run its turns: io_uring_queue_exit cancels what is in flight,
\* client_fd stays open.
TurnsUsed ==
    /\ spc = "loop"
    /\ ~HasTurn
    /\ spc' = "done"
    /\ inflight' = {}
    /\ UNCHANGED <<cq, iterations, buf, fd, conn, inq, outq, client>>

-------------------------------------------------------------------------------
(* tcp_client                                                              *)

\* 50 ms after the start.  connect() is not checked: the send() that follows a
\* refused one raises SIGPIPE.
Connect ==
    /\ cpc = "connect"
    /\ \/ /\ spc = "loop"
          /\ conn' = "pending"
          /\ cpc' = "send"
       \/ /\ spc = "start"
          /\ cpc' = "killed"
          /\ UNCHANGED conn
    /\ UNCHANGED <<msg, nsent, got, spc, inflight, cq, iterations, buf, fd, inq, outq>>

Send ==
    /\ cpc = "send"
    /\ msg <= NMsgs
    /\ inq' = inq \o [i \in 1 .. MsgLen[msg] |-> nsent + i]
    /\ nsent' = nsent + MsgLen[msg]
    /\ cpc' = "recv"
    /\ UNCHANGED <<msg, got, spc, inflight, cq, iterations, buf, fd, conn, outq>>

\* One recv() is taken for the reply.
Recv ==
    /\ cpc = "recv"
    /\ \E k \in 1 .. Len(outq) :
           /\ got' = got \o SubSeq(outq, 1, k)
           /\ outq' = SubSeq(outq, k + 1, Len(outq))
    /\ msg' = msg + 1
    /\ cpc' = "send"
    /\ UNCHANGED <<nsent, spc, inflight, cq, iterations, buf, fd, conn, inq>>

Close ==
    /\ cpc = "send"
    /\ msg = NMsgs + 1
    /\ cpc' = "closed"
    /\ UNCHANGED <<msg, nsent, got, spc, inflight, cq, iterations, buf, fd, conn, inq, outq>>

-------------------------------------------------------------------------------

\* SIGPIPE ends the process.
Kernel == cpc # "killed" /\ (KernelAccept \/ KernelRecv \/ KernelSend)

Server == cpc # "killed" /\ (Listen \/ Handle \/ TurnsUsed)

Client == Connect \/ Send \/ Recv \/ Close

Next == Kernel \/ Server \/ Client

Spec == Init /\ [][Next]_vars

-------------------------------------------------------------------------------
(* Properties.                                                             *)

\* The one buffer is never read by a send and written by a recv at a time, and
\* the completion queue never holds more than one entry.
BufferOwned ==
    /\ ~({"recv", "send"} \subseteq inflight)
    /\ Len(cq) + (IF inflight = {} THEN 0 ELSE 1) <= 1

\* Whatever the kernel splits, what comes back is the client's bytes in their
\* order, none twice and none that it has not sent.
EchoOrder ==
    LET echo == got \o outq
    IN  /\ \A i \in 1 .. Len(echo) - 1 : echo[i] < echo[i + 1]
        /\ \A i \in 1 .. Len(echo) : echo[i] <= nsent

\* The turns are used up and client_fd is left open: the client waits for a reply.
OutOfTurns == spc = "done" /\ fd = "open" /\ cpc = "recv" /\ outq = <<>>

\* Client and server end, unless the client ran ahead of listen().
Finished == cpc = "killed" \/ (cpc = "closed" /\ spc = "done")
================================================================================
