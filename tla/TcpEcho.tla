-------------------------------- MODULE TcpEcho --------------------------------
(***************************************************************************)
(* run_server and run_client of src/networking/01_tcp_server_client.cpp    *)
(* with send_all and recv_exactly: a thread accepts one connection and     *)
(* echoes length-prefixed messages, the main thread connects, sends, reads *)
(* each echo, and shuts its side down.                                     *)
(*                                                                         *)
(* Both directions are counted in bytes: TCP keeps their order, so what a  *)
(* byte is follows from its position.  Frame j ends at position End[j].    *)
(* The two send_all calls of a frame are one run of send()s.  The server   *)
(* closes only after the client's FIN, so the client never reads EOF.      *)
(***************************************************************************)
EXTENDS Integers, Sequences

CONSTANTS
    Prefix,    \* bytes of the length prefix (4 in the code)
    MsgLen,    \* lengths of the client's messages
    SockBuf    \* capacity of a direction

NMsgs == Len(MsgLen)

End[j \in 0 .. NMsgs] == IF j = 0 THEN 0 ELSE End[j - 1] + Prefix + MsgLen[j]

VARIABLES
    spc, cpc,       \* server thread, client
    conn,           \* "none", "pending" or "up"
    up, down,       \* bytes sent to the server, to the client
    rup, rdown,     \* bytes the server, the client has read
    starget, ctarget,  \* positions at which the current loop ends
    sk, ck,         \* messages the server, the client is through with
    fin             \* the client has shut down its side

vars == <<spc, cpc, conn, up, down, rup, rdown, starget, ctarget, sk, ck, fin>>

client == <<cpc, up, rdown, ctarget, ck, fin>>
server == <<spc, down, rup, starget, sk>>

TypeInv ==
    /\ spc \in {"start", "accept", "len", "payload", "echo", "closed"}
    /\ cpc \in {"sleep", "connect", "send", "rlen", "rpayload", "shutdown", "close",
               "closed", "died"}
    /\ conn \in {"none", "pending", "up"}
    /\ rup \in 0 .. up /\ up \in 0 .. rup + SockBuf
    /\ rdown \in 0 .. down /\ down \in 0 .. rdown + SockBuf
    /\ up <= End[NMsgs] /\ down <= End[NMsgs]
    /\ starget \in Nat /\ ctarget \in Nat
    /\ sk \in 0 .. NMsgs /\ ck \in 0 .. NMsgs
    /\ fin \in BOOLEAN

Init ==
    /\ spc = "start"
    /\ cpc = "sleep"
    /\ conn = "none"
    /\ up = 0 /\ down = 0 /\ rup = 0 /\ rdown = 0
    /\ starget = 0 /\ ctarget = 0
    /\ sk = 0 /\ ck = 0
    /\ fin = FALSE

-------------------------------------------------------------------------------
(* send_all and recv_exactly.                                              *)

RecvDone(pos, target) == pos = target

Moved(pos, n) == pos + n

SendDone(pos, target) == pos = target

\* The length that the server finds where its prefix ends.
LenAt(pos) ==
    IF \E j \in 1 .. NMsgs : pos = End[j - 1] + Prefix
    THEN MsgLen[CHOOSE j \in 1 .. NMsgs : pos = End[j - 1] + Prefix]
    ELSE 0

-------------------------------------------------------------------------------
(* run_server                                                              *)

Listen ==
    /\ spc = "start"
    /\ spc' = "accept"
    /\ UNCHANGED <<conn, down, rup, starget, sk, client>>

Accept ==
    /\ spc = "accept"
    /\ conn = "pending"
    /\ conn' = "up"
    /\ spc' = "len"
    /\ starget' = Prefix
    /\ UNCHANGED <<down, rup, sk, client>>

\* The parts of the loop that follow a recv_exactly: the length is checked,
\* the payload is echoed.
AfterRecv(pos) ==
    \/ /\ spc = "len"
       /\ IF LenAt(pos) = 0
          THEN spc' = "closed" /\ UNCHANGED starget
          ELSE spc' = "payload" /\ starget' = pos + LenAt(pos)
       /\ UNCHANGED sk
    \/ /\ spc = "payload"
       /\ spc' = "echo"
       /\ starget' = pos
       /\ sk' = sk + 1

ServerRecv ==
    /\ spc \in {"len", "payload"}
    /\ \E n \in 1 .. starget - rup :
           /\ rup + n <= up
           /\ rup' = Moved(rup, n)
           /\ \/ RecvDone(rup + n, starget) /\ AfterRecv(rup + n)
              \/ ~RecvDone(rup + n, starget) /\ UNCHANGED <<spc, starget, sk>>
    /\ UNCHANGED <<conn, down, client>>

\* EOF: recv_exactly returns false and the loop ends.
ServerEof ==
    /\ spc \in {"len", "payload"}
    /\ rup = up
    /\ fin
    /\ spc' = "closed"
    /\ UNCHANGED <<conn, down, rup, starget, sk, client>>

\* The prefix and the payload are sent back.
Echo ==
    /\ spc = "echo"
    /\ \/ /\ SendDone(down, starget)
          /\ spc' = "len"
          /\ starget' = rup + Prefix
          /\ UNCHANGED down
       \/ /\ ~SendDone(down, starget)
          /\ \E n \in 1 .. starget - down :
                 down + n - rdown <= SockBuf /\ down' = down + n
          /\ UNCHANGED <<spc, starget>>
    /\ UNCHANGED <<conn, rup, sk, client>>

-------------------------------------------------------------------------------
(* run_client                                                              *)

\* 50 ms that should let the server listen.
Wake ==
    /\ cpc = "sleep"
    /\ cpc' = "connect"
    /\ UNCHANGED <<conn, up, rdown, ctarget, ck, fin, server>>

\* The kernel completes the connection if somebody listens, else die().
Connect ==
    /\ cpc = "connect"
    /\ \/ /\ spc = "accept"
          /\ conn' = "pending"
          /\ cpc' = "send"
          /\ ctarget' = End[1]
       \/ /\ spc = "start"
          /\ cpc' = "died"
          /\ UNCHANGED <<conn, ctarget>>
    /\ UNCHANGED <<up, rdown, ck, fin, server>>

Send ==
    /\ cpc = "send"
    /\ \/ /\ SendDone(up, ctarget)
          /\ cpc' = "rlen"
          /\ ctarget' = rdown + Prefix
          /\ UNCHANGED up
       \/ /\ ~SendDone(up, ctarget)
          /\ \E n \in 1 .. ctarget - up : up + n - rup <= SockBuf /\ up' = up + n
          /\ UNCHANGED <<cpc, ctarget>>
    /\ UNCHANGED <<conn, rdown, ck, fin, server>>

ReplyEnd(pos) == pos + LenAt(pos)

\* The reply is read: its length, then as many bytes; then the next message.
ClientRecv ==
    /\ cpc \in {"rlen", "rpayload"}
    /\ \E n \in 1 .. ctarget - rdown :
           /\ rdown + n <= down
           /\ rdown' = rdown + n
           /\ \/ /\ rdown + n < ctarget
                 /\ UNCHANGED <<cpc, ctarget, ck>>
              \/ /\ rdown + n = ctarget
                 /\ cpc = "rlen"
                 /\ cpc' = "rpayload"
                 /\ ctarget' = ReplyEnd(rdown + n)
                 /\ UNCHANGED ck
              \/ /\ rdown + n = ctarget
                 /\ cpc = "rpayload"
                 /\ ck' = ck + 1
                 /\ cpc' = IF ck + 1 = NMsgs THEN "shutdown" ELSE "send"
                 /\ ctarget' = IF ck + 1 = NMsgs THEN ctarget ELSE End[ck + 2]
    /\ UNCHANGED <<conn, up, fin, server>>

\* shutdown(SHUT_WR) sends a FIN.
Shutdown ==
    /\ cpc = "shutdown"
    /\ fin' = TRUE
    /\ cpc' = "close"
    /\ UNCHANGED <<conn, up, rdown, ctarget, ck, server>>

\* ~FdGuard() closes, which sends the FIN if nobody has.
Close ==
    /\ cpc = "close"
    /\ fin' = TRUE
    /\ cpc' = "closed"
    /\ UNCHANGED <<conn, up, rdown, ctarget, ck, server>>

-------------------------------------------------------------------------------

\* die() exits the process.
ServerStep == cpc # "died" /\ (Listen \/ Accept \/ ServerRecv \/ ServerEof \/ Echo)

ClientStep == Wake \/ Connect \/ Send \/ ClientRecv \/ Shutdown \/ Close

Next == ServerStep \/ ClientStep

Spec == Init /\ [][Next]_vars

-------------------------------------------------------------------------------
(* Properties.                                                             *)

\* The server is never out of step with the stream: when it starts on a
\* message it has read exactly the frames before it, and it answers each in
\* full before it reads on.
InStep ==
    /\ spc = "len" /\ starget = rup + Prefix => rup = End[sk] /\ down = End[sk]
    /\ spc = "closed" => rup = End[NMsgs]

\* The client has the whole echo of a message before it sends the next one, and
\* when it closes nothing is left unread, so that its FIN is not a reset.
EchoFirst ==
    /\ up > End[ck] => rdown >= End[ck]
    /\ cpc \in {"close", "closed"} => rdown = down /\ down = up /\ up = End[NMsgs]

\* Both threads come to an end, unless the client was not connected.
Finished == cpc = "died" \/ (cpc = "closed" /\ spc = "closed" /\ sk = NMsgs)
================================================================================
