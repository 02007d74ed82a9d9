------------------------------ MODULE EventDemos -------------------------------
(***************************************************************************)
(* demo_select, demo_poll, demo_epoll and demo_kqueue of                   *)
(* src/networking/06_select_poll_epoll.cpp: a thread connects, sends a few *)
(* messages and closes, the main thread accepts and reads it with the      *)
(* readiness call of the demo.  "burst" is the EPOLLET demo at the end of  *)
(* src/system_calls/10_epoll_kqueue.cpp: one thread, a socketpair, two     *)
(* messages and one wait.  The demos run one after the other and share     *)
(* nothing, so each is an initial state.                                   *)
(*                                                                         *)
(* Messages are counted: a recv() takes any number of those that are there.*)
(* The timeouts (2 s, 1 s; 3 s; 500 ms) may expire whenever nothing is     *)
(* ready, the deadline of poll whenever it is read.  select() and poll()   *)
(* are level-triggered, the connections of epoll and kqueue are not.       *)
(***************************************************************************)
EXTENDS Integers

CONSTANTS
    NMsgs,       \* demo -> messages its client sends
    MaxRounds    \* wake-ups of the epoll and kqueue loops (10 in the code)

Apis == {"select", "poll", "epoll", "kqueue", "burst"}

VARIABLES
    api,        \* the demo
    spc,        \* "wait", "recv" or "done"
    cpc,        \* "sleep", "send", "closed", "died" or "killed"
    conn,       \* "none", "backlog", "open" (accepted), "closed" or "reset"
    inbuf,      \* messages received and not read
    fin,        \* the client has closed
    edge,       \* the edge-triggered connection is on the ready list
    rounds,
    nsent, nread,
    failed      \* a send() has met the reset

vars == <<api, spc, cpc, conn, inbuf, fin, edge, rounds, nsent, nread, failed>>

TypeInv ==
    /\ api \in Apis
    /\ spc \in {"wait", "recv", "done"}
    /\ cpc \in {"sleep", "send", "closed", "died", "killed"}
    /\ conn \in {"none", "backlog", "open", "closed", "reset"}
    /\ inbuf \in 0 .. NMsgs[api] /\ nsent \in 0 .. NMsgs[api] /\ nread \in 0 .. nsent
    /\ fin \in BOOLEAN /\ edge \in BOOLEAN /\ failed \in BOOLEAN
    /\ rounds \in 0 .. MaxRounds

Init ==
    /\ api \in Apis
    /\ spc = "wait"
    /\ cpc = IF api = "burst" THEN "send" ELSE "sleep"
    /\ conn = IF api = "burst" THEN "open" ELSE "none"
    /\ inbuf = 0 /\ fin = FALSE /\ edge = FALSE
    /\ rounds = 0 /\ nsent = 0 /\ nread = 0 /\ failed = FALSE

-------------------------------------------------------------------------------
(* The client thread.                                                      *)

\* make_client 30 ms after the start; it dies when the server has gone.
Connect ==
    /\ cpc = "sleep"
    /\ \/ spc # "done" /\ cpc' = "send" /\ conn' = "backlog"
       \/ spc = "done" /\ cpc' = "died" /\ UNCHANGED conn
    /\ UNCHANGED <<api, spc, inbuf, fin, edge, rounds, nsent, nread, failed>>

\* What arrives on an accepted connection puts it on the ready list.
Arrive == edge' = (edge \/ conn = "open")

Send ==
    /\ cpc = "send"
    /\ nsent < NMsgs[api]
    /\ conn \in {"backlog", "open"}
    /\ nsent' = nsent + 1
    /\ inbuf' = inbuf + 1
    /\ Arrive
    /\ UNCHANGED <<api, spc, cpc, conn, fin, rounds, nread, failed>>

\* The server has closed: send() fails, and the one after the failure raises
\* SIGPIPE.
SendFails ==
    /\ cpc = "send"
    /\ nsent < NMsgs[api]
    /\ conn \in {"closed", "reset"}
    /\ \/ failed /\ cpc' = "killed" /\ UNCHANGED nsent
       \/ ~failed /\ nsent' = nsent + 1 /\ UNCHANGED cpc
    /\ failed' = TRUE
    /\ UNCHANGED <<api, spc, conn, inbuf, fin, edge, rounds, nread>>

ClientClose ==
    /\ cpc = "send"
    /\ api # "burst"
    /\ nsent = NMsgs[api]
    /\ cpc' = "closed"
    /\ fin' = TRUE
    /\ Arrive
    /\ UNCHANGED <<api, spc, conn, inbuf, rounds, nsent, nread, failed>>

-------------------------------------------------------------------------------
(* The server.                                                             *)

\* EPOLLIN | EPOLLET, EV_ADD | EV_CLEAR.
Edged == api \in {"epoll", "kqueue", "burst"}

\* Defect: one round too many.
RoundsLeft_OneMore == Edged => rounds <= MaxRounds

RoundsLeft == Edged => rounds < MaxRounds

CountRound == rounds' = IF Edged THEN rounds + 1 ELSE rounds

Readable == inbuf > 0 \/ fin

\* EPOLL_CTL_ADD and EV_ADD report what is already there.
EdgeOnAdd == Edged /\ Readable

\* The listening socket is ready: accept(), and register the connection.
Accept ==
    /\ spc = "wait" /\ RoundsLeft
    /\ conn = "backlog"
    /\ conn' = "open"
    /\ edge' = EdgeOnAdd
    /\ CountRound
    /\ UNCHANGED <<api, spc, cpc, inbuf, fin, nsent, nread, failed>>

\* The connection is ready.
Ready ==
    /\ spc = "wait" /\ RoundsLeft
    /\ conn = "open"
    /\ IF Edged THEN edge ELSE Readable
    /\ spc' = "recv"
    /\ edge' = FALSE
    /\ CountRound
    /\ UNCHANGED <<api, cpc, conn, inbuf, fin, nsent, nread, failed>>

\* Defect: the epoll loop reads once, as the poll loop does.
MoreAfterRecv_Once == "wait"

\* The edge-triggered loop reads on until EAGAIN.
MoreAfterRecv == IF Edged THEN "recv" ELSE "wait"

\* demo_select reads once and closes.
Recv ==
    /\ spc = "recv"
    /\ \E k \in 1 .. inbuf : inbuf' = inbuf - k /\ nread' = nread + k
    /\ spc' = IF api = "select" THEN "done" ELSE MoreAfterRecv
    /\ conn' = IF api = "select" THEN "closed" ELSE conn
    /\ UNCHANGED <<api, cpc, fin, edge, rounds, nsent, failed>>

AtEof == inbuf = 0 /\ fin

\* EOF: the connection is removed and closed, the demo ends.
RecvEof ==
    /\ spc = "recv"
    /\ AtEof
    /\ spc' = "done"
    /\ conn' = "closed"
    /\ UNCHANGED <<api, cpc, inbuf, fin, edge, rounds, nsent, nread, failed>>

\* EAGAIN: drained.
RecvAgain ==
    /\ spc = "recv"
    /\ inbuf = 0 /\ ~fin
    /\ spc' = IF api = "burst" THEN "done" ELSE "wait"
    /\ UNCHANGED <<api, cpc, conn, inbuf, fin, edge, rounds, nsent, nread, failed>>

\* The demo ends without EOF.  A connection in the backlog is reset, that of
\* demo_select is closed, the others stay open.
GiveUp ==
    /\ spc' = "done"
    /\ conn' = IF conn = "backlog" THEN "reset"
               ELSE IF api = "select" /\ conn = "open" THEN "closed" ELSE conn
    /\ UNCHANGED <<api, cpc, inbuf, fin, edge, rounds, nsent, nread, failed>>

Timeout ==
    /\ spc = "wait"
    /\ \/ api = "poll"
       \/ conn = "none"
       \/ conn = "open" /\ ~(IF Edged THEN edge ELSE Readable)
    /\ GiveUp

RoundsUsed == spc = "wait" /\ ~RoundsLeft /\ GiveUp

-------------------------------------------------------------------------------

Client == Connect \/ Send \/ SendFails \/ ClientClose

Server == Accept \/ Ready \/ Recv \/ RecvEof \/ RecvAgain \/ Timeout \/ RoundsUsed

SelectDemo == api = "select" /\ Server

PollDemo == api = "poll" /\ Server

EpollDemo == api = "epoll" /\ Server

KqueueDemo == api = "kqueue" /\ Server

\* Both bursts are written before the one epoll_wait().
BurstDemo == api = "burst" /\ nsent = NMsgs[api] /\ Server

\* die() and SIGPIPE end the process.
Main ==
    /\ cpc \notin {"died", "killed"}
    /\ SelectDemo \/ PollDemo \/ EpollDemo \/ KqueueDemo \/ BurstDemo

Next == Client \/ Main

Spec == Init /\ [][Next]_vars

-------------------------------------------------------------------------------
(* Properties.                                                             *)

\* Edge triggering loses no wake-up: whenever the server is about to wait and
\* something can be read, the connection is on the ready list.
NoLostEdge ==
    Edged /\ spc = "wait" /\ conn = "open" /\ Readable => edge

\* A server that ends because of EOF has read every message.
EofMeansAll == api # "select" /\ conn = "closed" => nread = NMsgs[api]

\* Drained means all: the one event of two bursts delivers both.
BurstDrained == api = "burst" /\ spc = "done" => nread = NMsgs[api]

\* Both threads have ended.
Finished ==
    cpc \in {"died", "killed"} \/ (spc = "done" /\ (cpc = "closed" \/ api = "burst"))
================================================================================
