----------------------------- MODULE NonblockingIo -----------------------------
(***************************************************************************)
(* nonblocking_server and nonblocking_connect_and_send of                  *)
(* src/networking/03_nonblocking_io.cpp.  The client's connect() is        *)
(* non-blocking, its send() may take a part or nothing; the server polls   *)
(* and drains its socket until EAGAIN.                                     *)
(*                                                                         *)
(* The stream is counted in bytes: TCP keeps their order.  The timeouts of *)
(* poll() may expire whenever there is nothing to report.                  *)
(***************************************************************************)
EXTENDS Integers, Sequences, SequencesExt

CONSTANTS
    MsgLen,   \* lengths of the client's messages
    SockBuf   \* capacity of the connection

Total == FoldLeft(LAMBDA a, b : a + b, 0, MsgLen)

VARIABLES
    spc, cpc,    \* server, client
    conn,        \* "none", "pending" (not accepted yet) or "up"
    sent, rcvd,  \* bytes that left the client, that the server has read
    msg, remaining,  \* the client's loop: its message and what is left of it
    fin,         \* the client has shut down its side
    msg_count,   \* the server's counter
    ended        \* why the server left its loop: "", "eof" or "timeout"

vars == <<spc, cpc, conn, sent, rcvd, msg, remaining, fin, msg_count, ended>>

TypeInv ==
    /\ spc \in {"listen", "accept", "poll", "drain", "close", "done"}
    /\ cpc \in {"sleep", "connect", "poll", "send", "shutdown", "done", "killed"}
    /\ conn \in {"none", "pending", "up"}
    /\ sent \in 0 .. Total
    /\ rcvd \in 0 .. sent
    /\ sent - rcvd <= SockBuf
    /\ msg \in 1 .. Len(MsgLen)
    /\ remaining \in 0 .. MsgLen[msg]
    /\ fin \in BOOLEAN
    /\ msg_count \in 0 .. Total
    /\ ended \in {"", "eof", "timeout"}

Init ==
    /\ spc = "listen"
    /\ cpc = "sleep"
    /\ conn = "none"
    /\ sent = 0
    /\ rcvd = 0
    /\ msg = 1
    /\ remaining = MsgLen[1]
    /\ fin = FALSE
    /\ msg_count = 0
    /\ ended = ""

client == <<cpc, sent, msg, remaining, fin>>
server == <<spc, rcvd, msg_count, ended>>

-------------------------------------------------------------------------------
(* nonblocking_server                                                      *)

Listen ==
    /\ spc = "listen"
    /\ spc' = "accept"
    /\ UNCHANGED <<rcvd, msg_count, ended, conn, client>>

\* poll() reports the connection and accept() returns it; a timeout repeats
\* the loop.
Accept ==
    /\ spc = "accept"
    /\ conn = "pending"
    /\ conn' = "up"
    /\ spc' = "poll"
    /\ UNCHANGED <<rcvd, msg_count, ended, client>>

PollReadable ==
    /\ spc = "poll"
    /\ rcvd < sent \/ fin
    /\ spc' = "drain"
    /\ UNCHANGED <<rcvd, msg_count, ended, conn, client>>

PollTimeout ==
    /\ spc = "poll"
    /\ rcvd = sent /\ ~fin
    /\ spc' = "close"
    /\ ended' = "timeout"
    /\ UNCHANGED <<rcvd, msg_count, conn, client>>

Recv ==
    /\ spc = "drain"
    /\ \E n \in 1 .. sent - rcvd : rcvd' = rcvd + n
    /\ msg_count' = msg_count + 1
    /\ UNCHANGED <<spc, ended, conn, client>>

\* Defect: a return of 0 is taken for the end although data is left.
AtEof_Early == fin

\* recv() returns 0.
AtEof == rcvd = sent /\ fin

RecvEof ==
    /\ spc = "drain"
    /\ AtEof
    /\ spc' = "close"
    /\ ended' = "eof"
    /\ UNCHANGED <<rcvd, msg_count, conn, client>>

\* EAGAIN
RecvAgain ==
    /\ spc = "drain"
    /\ rcvd = sent /\ ~fin
    /\ spc' = "poll"
    /\ UNCHANGED <<rcvd, msg_count, ended, conn, client>>

ServerClose ==
    /\ spc = "close"
    /\ spc' = "done"
    /\ UNCHANGED <<rcvd, msg_count, ended, conn, client>>

-------------------------------------------------------------------------------
(* nonblocking_connect_and_send                                            *)

Wake ==
    /\ cpc = "sleep"
    /\ cpc' = "connect"
    /\ UNCHANGED <<conn, sent, msg, remaining, fin, server>>

\* connect() starts the handshake or succeeds at once; the kernel completes it
\* before accept() is called.  A refusal at once is die("connect").
Connect ==
    /\ cpc = "connect"
    /\ \/ cpc' = "poll" /\ UNCHANGED conn
       \/ spc # "listen" /\ conn' = "pending" /\ cpc' = "send"
       \/ spc = "listen" /\ cpc' = "killed" /\ UNCHANGED conn
    /\ UNCHANGED <<sent, msg, remaining, fin, server>>

\* POLLOUT, then SO_ERROR: success if somebody listens, else close and return.  A
\* handshake that takes more than three seconds is die("poll for connect").
ConnectDone ==
    /\ cpc = "poll"
    /\ \/ spc # "listen" /\ conn' = "pending" /\ cpc' = "send"
       \/ spc = "listen" /\ cpc' = "done" /\ UNCHANGED conn
       \/ cpc' = "killed" /\ UNCHANGED conn
    /\ UNCHANGED <<sent, msg, remaining, fin, server>>

Left(n) == remaining - n

\* send() takes what fits; with no room it returns EAGAIN and the loop repeats.
Send ==
    /\ cpc = "send"
    /\ spc # "done"
    /\ remaining > 0
    /\ \E n \in 1 .. remaining :
           /\ sent + n - rcvd <= SockBuf
           /\ sent' = sent + n
           /\ remaining' = Left(n)
    /\ UNCHANGED <<conn, cpc, msg, fin, server>>

\* The server has timed out and closed: a send() is accepted and lost; once
\* the reset that answers it has come, the next fails or raises SIGPIPE, and
\* either ends the process.
SendReset ==
    /\ cpc = "send"
    /\ spc = "done"
    /\ remaining > 0
    /\ \/ remaining' = 0 /\ UNCHANGED cpc
       \/ cpc' = "killed" /\ UNCHANGED remaining
    /\ UNCHANGED <<conn, sent, msg, fin, server>>

NextMsg ==
    /\ cpc = "send"
    /\ remaining = 0
    /\ \/ /\ msg < Len(MsgLen)
          /\ msg' = msg + 1
          /\ remaining' = MsgLen[msg + 1]
          /\ UNCHANGED cpc
       \/ /\ msg = Len(MsgLen)
          /\ cpc' = "shutdown"
          /\ UNCHANGED <<msg, remaining>>
    /\ UNCHANGED <<conn, sent, fin, server>>

Shutdown ==
    /\ cpc = "shutdown"
    /\ fin' = TRUE
    /\ cpc' = "done"
    /\ UNCHANGED <<conn, sent, msg, remaining, server>>

-------------------------------------------------------------------------------

\* SIGPIPE and die() end the process.
ServerStep ==
    /\ cpc # "killed"
    /\ \/ Listen \/ Accept \/ PollReadable \/ PollTimeout
       \/ Recv \/ RecvEof \/ RecvAgain \/ ServerClose

ClientStep ==
    Wake \/ Connect \/ ConnectDone \/ Send \/ SendReset \/ NextMsg \/ Shutdown

\* main() is in join() and no connection will ever come.
NoClient == spc = "accept" /\ conn = "none" /\ cpc = "done"

Next == ServerStep \/ ClientStep

Spec == Init /\ [][Next]_vars

-------------------------------------------------------------------------------
(* Properties.                                                             *)

\* Edge-triggered draining loses nothing: at the end of the stream the server
\* has every byte the client meant to send, however they were split.
EofMeansAll == ended = "eof" => rcvd = Total

\* The program ends unless the client gave up on the connection; then main()
\* waits in join() for a server that waits for a client.
Finished == cpc = "killed" \/ NoClient \/ (cpc = "done" /\ spc = "done")
================================================================================
