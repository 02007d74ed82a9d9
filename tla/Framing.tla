-------------------------------- MODULE Framing --------------------------------
(***************************************************************************)
(* send_frame, recv_frame, framed_server and framed_client of              *)
(* src/networking/10_socket_patterns.cpp: length-prefixed messages over a  *)
(* TCP byte stream, echoed by a server thread.                             *)
(*                                                                         *)
(* send() accepts and recv() returns any non-empty part of what is asked   *)
(* for; the socket buffers are small; the connection may be reset at any   *)
(* time.  A byte is the pair of the message it belongs to and its position *)
(* in the frame: positions 1 .. Prefix are the length prefix.              *)
(***************************************************************************)
EXTENDS Integers, Sequences, SequencesExt

CONSTANTS
    Prefix,    \* bytes of the length prefix (4 in the code)
    PayloadLen, \* [1 .. K -> length of the k-th order], in 1 .. MaxFrame
    MaxFrame,  \* the largest length that recv_frame takes (1 << 20)
    SockBuf    \* capacity of a socket buffer

K == Len(PayloadLen)

Side == {"client", "server"}
Peer(x) == IF x = "client" THEN "server" ELSE "client"

Payload(k) == [j \in 1 .. PayloadLen[k] |-> <<k, Prefix + j>>]
PrefixOf(k) == [j \in 1 .. Prefix |-> <<k, j>>]

VARIABLES
    stream,   \* [Side -> bytes on their way to that side]
    pc,       \* [Side -> "start", "accept", "connect", "send", "len", "payload", "closed"]
    msg,      \* [Side -> the message being sent, as its payload bytes]
    sent,     \* [Side -> bytes of the current frame already sent]
    buf,      \* [Side -> bytes of the current part already received]
    need,     \* [Side -> bytes of the current part]
    k,        \* the client's loop variable: the order it works on
    got,      \* messages the server has received
    replies,  \* [1 .. K -> the reply the client received, or <<>>]
    reset,    \* the connection has been reset
    failed,   \* sides that have been told of the reset
    killed    \* SIGPIPE has ended the process

vars == <<stream, pc, msg, sent, buf, need, k, got, replies, reset, failed, killed>>

TypeInv ==
    /\ \A x \in Side : Len(stream[x]) <= SockBuf
    /\ pc \in [Side -> {"start", "accept", "connect", "send", "len", "payload", "closed"}]
    /\ \A x \in Side :
           /\ sent[x] \in 0 .. Prefix + Len(msg[x])
           /\ Len(buf[x]) <= need[x]
    /\ k \in 1 .. K + 1
    /\ Len(got) <= K
    /\ DOMAIN replies = 1 .. K
    /\ reset \in BOOLEAN
    /\ failed \subseteq Side
    /\ killed \in BOOLEAN

Init ==
    /\ stream = [x \in Side |-> <<>>]
    /\ pc = [x \in Side |-> IF x = "client" THEN "connect" ELSE "start"]
    /\ msg = [x \in Side |-> IF x = "client" THEN Payload(1) ELSE <<>>]
    /\ sent = [x \in Side |-> 0]
    /\ buf = [x \in Side |-> <<>>]
    /\ need = [x \in Side |-> Prefix]
    /\ k = 1
    /\ got = <<>>
    /\ replies = [j \in 1 .. K |-> <<>>]
    /\ reset = FALSE
    /\ failed = {}
    /\ killed = FALSE

-------------------------------------------------------------------------------
(* How framed_server and framed_client begin.                              *)

Listen ==
    /\ pc["server"] = "start"
    /\ pc' = [pc EXCEPT !["server"] = "accept"]
    /\ UNCHANGED <<stream, msg, sent, buf, need, k, got, replies, reset, failed, killed>>

Accept ==
    /\ pc["server"] = "accept"
    /\ pc["client"] # "connect"
    /\ pc' = [pc EXCEPT !["server"] = "len"]
    /\ UNCHANGED <<stream, msg, sent, buf, need, k, got, replies, reset, failed, killed>>

\* 30 ms after the start.  connect() is not checked: the send() that follows a
\* refused one raises SIGPIPE.
Connect ==
    /\ pc["client"] = "connect"
    /\ \/ /\ pc["server"] = "accept"
          /\ pc' = [pc EXCEPT !["client"] = "send"]
          /\ UNCHANGED killed
       \/ /\ pc["server"] = "start"
          /\ killed' = TRUE
          /\ UNCHANGED pc
    /\ UNCHANGED <<stream, msg, sent, buf, need, k, got, replies, reset, failed>>

-------------------------------------------------------------------------------
(* send_frame                                                              *)

\* The frame of message m: htonl(len), then the payload.
Frame(m) == PrefixOf(m[1][1]) \o m

\* The prefix and the payload are sent by separate loops.
PartEnd(x) == IF sent[x] < Prefix THEN Prefix ELSE Prefix + Len(msg[x])

Advance(x, n) == sent[x] + n

Send(x) ==
    /\ pc[x] = "send"
    /\ ~reset
    /\ sent[x] < Prefix + Len(msg[x])
    /\ pc[Peer(x)] # "closed"
    /\ \E n \in 1 .. PartEnd(x) - sent[x] :
           /\ Len(stream[Peer(x)]) + n <= SockBuf
           /\ stream' = [stream EXCEPT ![Peer(x)] =
                  @ \o SubSeq(Frame(msg[x]), sent[x] + 1, sent[x] + n)]
           /\ sent' = [sent EXCEPT ![x] = Advance(x, n)]
    /\ UNCHANGED <<pc, msg, buf, need, k, got, replies, reset, failed, killed>>

\* The caller goes on to recv_frame, whether send_frame failed or not.
StartRecv(x) ==
    /\ pc' = [pc EXCEPT ![x] = "len"]
    /\ buf' = [buf EXCEPT ![x] = <<>>]
    /\ need' = [need EXCEPT ![x] = Prefix]

SendDone(x) ==
    /\ pc[x] = "send"
    /\ sent[x] = Prefix + Len(msg[x])
    /\ StartRecv(x)
    /\ UNCHANGED <<stream, msg, sent, k, got, replies, reset, failed, killed>>

\* The first send() on a reset connection fails; one after an error was
\* reported raises SIGPIPE, which nobody handles.
SendFails(x) ==
    /\ pc[x] = "send"
    /\ reset
    /\ sent[x] < Prefix + Len(msg[x])
    /\ \/ /\ x \notin failed
          /\ failed' = failed \cup {x}
          /\ StartRecv(x)
          /\ UNCHANGED killed
       \/ /\ x \in failed
          /\ killed' = TRUE
          /\ UNCHANGED <<failed, pc, buf, need>>
    /\ UNCHANGED <<stream, msg, sent, k, got, replies, reset>>

-------------------------------------------------------------------------------
(* recv_frame                                                              *)

\* What follows recv_frame: the server echoes the message or leaves its loop,
\* the client goes on with the next order or closes its socket.
ServerGets(m) ==
    /\ got' = Append(got, m)
    /\ msg' = [msg EXCEPT !["server"] = m]
    /\ sent' = [sent EXCEPT !["server"] = 0]
    /\ pc' = [pc EXCEPT !["server"] = "send"]
    /\ UNCHANGED <<k, replies>>

ClientGets(m) ==
    /\ replies' = [replies EXCEPT ![k] = m]
    /\ k' = k + 1
    /\ IF k < K
       THEN /\ msg' = [msg EXCEPT !["client"] = Payload(k + 1)]
            /\ sent' = [sent EXCEPT !["client"] = 0]
            /\ pc' = [pc EXCEPT !["client"] = "send"]
       ELSE /\ pc' = [pc EXCEPT !["client"] = "closed"]
            /\ UNCHANGED <<msg, sent>>
    /\ UNCHANGED got

RecvReturns(x, m) == IF x = "server" THEN ServerGets(m) ELSE ClientGets(m)

RecvNothing(x) ==
    IF x = "server"
    THEN /\ pc' = [pc EXCEPT !["server"] = "closed"]
         /\ UNCHANGED <<k, msg, sent, got, replies>>
    ELSE ClientGets(<<>>)

\* ntohl of the prefix that arrived; bytes that are not the prefix of one
\* message make any length.
DecodedLen(b) ==
    IF b = PrefixOf(b[1][1]) THEN {PayloadLen[b[1][1]]} ELSE 0 .. MaxFrame + 1

\* recv_frame gives up on any other length.
Sane(len) == len \in 1 .. MaxFrame

\* Defect: a short read is taken for a complete one.
PartComplete_ShortRead(b, n) == b # <<>>

PartComplete(b, n) == Len(b) = n

Recv(x) ==
    /\ pc[x] \in {"len", "payload"}
    /\ stream[x] # <<>>
    /\ \E n \in 1 .. need[x] - Len(buf[x]) :
           LET b == buf[x] \o SubSeq(stream[x], 1, n) IN
           /\ n <= Len(stream[x])
           /\ stream' = [stream EXCEPT ![x] = SubSeq(@, n + 1, Len(@))]
           /\ \/ /\ ~PartComplete(b, need[x])
                 /\ buf' = [buf EXCEPT ![x] = b]
                 /\ UNCHANGED <<pc, msg, sent, need, k, got, replies>>
              \/ /\ PartComplete(b, need[x])
                 /\ pc[x] = "len"
                 /\ \E len \in DecodedLen(b) :
                        IF Sane(len)
                        THEN /\ pc' = [pc EXCEPT ![x] = "payload"]
                             /\ need' = [need EXCEPT ![x] = len]
                             /\ UNCHANGED <<msg, sent, k, got, replies>>
                        ELSE RecvNothing(x) /\ UNCHANGED need
                 /\ buf' = [buf EXCEPT ![x] = <<>>]
              \/ /\ PartComplete(b, need[x])
                 /\ pc[x] = "payload"
                 /\ RecvReturns(x, b)
                 /\ buf' = [buf EXCEPT ![x] = <<>>]
                 /\ need' = [need EXCEPT ![x] = Prefix]
    /\ UNCHANGED <<reset, failed, killed>>

\* recv() returns 0 when the peer has closed, or -1 after a reset; bytes of an
\* unfinished message are dropped.
RecvFails(x) ==
    /\ pc[x] \in {"len", "payload"}
    /\ \/ reset /\ failed' = failed \cup {x}
       \/ pc[Peer(x)] = "closed" /\ stream[x] = <<>> /\ UNCHANGED failed
    /\ RecvNothing(x)
    /\ buf' = [buf EXCEPT ![x] = <<>>]
    /\ need' = [need EXCEPT ![x] = Prefix]
    /\ UNCHANGED <<stream, reset, killed>>

-------------------------------------------------------------------------------

\* The network resets the connection; bytes under way are lost.
Reset ==
    /\ ~reset
    /\ pc["client"] # "connect"
    /\ reset' = TRUE
    /\ stream' = [x \in Side |-> <<>>]
    /\ UNCHANGED <<pc, msg, sent, buf, need, k, got, replies, failed, killed>>

SideStep(x) ==
    /\ ~killed
    /\ Send(x) \/ SendDone(x) \/ SendFails(x) \/ Recv(x) \/ RecvFails(x)

ServerStep == (~killed /\ (Listen \/ Accept)) \/ SideStep("server")

ClientStep == (~killed /\ Connect) \/ SideStep("client")

Next == ServerStep \/ ClientStep \/ (~killed /\ Reset)

Spec == Init /\ [][Next]_vars

-------------------------------------------------------------------------------
(* Properties.                                                             *)

\* However the stream is cut into pieces, the server sees whole messages, in
\* order, none merged, torn or repeated, also up to a reset.
WholeMessages == \A j \in 1 .. Len(got) : got[j] = Payload(j)

\* A reply is the echo of the order it is taken for, never that of another.
EchoMatches == \A j \in 1 .. K : replies[j] \in {<<>>, Payload(j)}

\* The client hears of every order as long as the connection is up.
AllEchoed ==
    ~reset /\ pc["client"] = "closed" => \A j \in 1 .. K : replies[j] = Payload(j)

\* The exchange comes to an end: client and server never wait for each other
\* with the buffers full or the frames out of step.
Finished == killed \/ \A x \in Side : pc[x] = "closed"
================================================================================
