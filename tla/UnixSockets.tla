----------------------------- MODULE UnixSockets -------------------------------
(***************************************************************************)
(* The demos of src/networking/07_unix_domain_sockets.cpp, each a server   *)
(* and a client thread that meet at a path: "stream" (stream_server,       *)
(* stream_client), "dgram" (dgram_server, dgram_client) and "one", the     *)
(* single message of demo_abstract_namespace and demo_peer_credentials,    *)
(* whose server listens before its client exists.  main runs them one      *)
(* after the other; they share nothing, so each is an initial state.       *)
(*                                                                         *)
(* A UNIX socket loses nothing.  A datagram is its number.  A stream has no *)
(* message boundaries: its bytes are numbered, and if split, a recv() may   *)
(* return a part of what has arrived.                                       *)
(***************************************************************************)
EXTENDS Integers, Sequences

CONSTANTS
    NMsgs,    \* messages of the stream and the dgram client (3 in the code)
    Bytes     \* bytes of a message of a stream

VARIABLES
    demo,
    file,         \* what is at the path: "none", "stale" (nobody listens) or "bound"
    spc, cpc,     \* server and client
    listening,
    pending,      \* a connection waits to be accepted
    inq, outq,    \* what is on its way to the server, to the client
    nsent,        \* messages the client has sent or tried to send
    handled,      \* recv()s of the server that returned something
    replies,      \* what the client has received
    lost,         \* datagrams sent while nobody was bound
    split         \* a recv() may return a part

vars == <<demo, file, spc, cpc, listening, pending, inq, outq, nsent, handled, replies, lost,
          split>>

client == <<cpc, nsent, replies, lost, split>>

\* Defect: the loop over the messages goes one too far.
Count_OneMore == NMsgs + 1

\* demo_abstract_namespace and demo_peer_credentials send one message.
Count == IF demo = "one" THEN 1 ELSE NMsgs

\* What one message adds to a queue.
Size == IF demo = "dgram" THEN 1 ELSE Bytes

Message(k) == [j \in 1 .. Size |-> (k - 1) * Size + j]

TypeInv ==
    /\ demo \in {"stream", "dgram", "one"}
    /\ file \in {"none", "stale", "bound"}
    /\ spc \in {"unlink", "bind", "listen", "accept", "recv", "close", "done", "died",
               "killed"}
    /\ cpc \in {"sleep", "send", "recv", "closed", "died"}
    /\ listening \in BOOLEAN /\ pending \in BOOLEAN
    /\ inq \in Seq(1 .. NMsgs * Size) /\ outq \in Seq(1 .. NMsgs * Size)
    /\ nsent \in 0 .. NMsgs /\ lost \in 0 .. nsent
    /\ handled \in 0 .. nsent * Size
    /\ replies \in Seq(1 .. NMsgs * Size)
    /\ split \in BOOLEAN

\* A previous run may have left its socket file.
Init ==
    /\ demo \in {"stream", "dgram", "one"}
    /\ file \in IF demo = "one" THEN {"bound"} ELSE {"none", "stale"}
    /\ spc = IF demo = "one" THEN "accept" ELSE "unlink"
    /\ listening = (demo = "one")
    /\ cpc = "sleep"
    /\ pending = FALSE
    /\ inq = <<>> /\ outq = <<>> /\ replies = <<>>
    /\ nsent = 0 /\ handled = 0 /\ lost = 0
    /\ split \in BOOLEAN

-------------------------------------------------------------------------------
(* The server.                                                             *)

AfterUnlink == "none"

Unlink ==
    /\ spc = "unlink"
    /\ file' = AfterUnlink
    /\ spc' = "bind"
    /\ UNCHANGED <<demo, listening, pending, inq, outq, handled, client>>

\* bind() creates the file and fails with EADDRINUSE if there is one.
Bind ==
    /\ spc = "bind"
    /\ IF file = "none"
       THEN file' = "bound" /\ spc' = IF demo = "dgram" THEN "recv" ELSE "listen"
       ELSE spc' = "died" /\ UNCHANGED file
    /\ UNCHANGED <<demo, listening, pending, inq, outq, handled, client>>

Listen ==
    /\ spc = "listen"
    /\ listening' = TRUE
    /\ spc' = "accept"
    /\ UNCHANGED <<demo, file, pending, inq, outq, handled, client>>

Accept ==
    /\ spc = "accept"
    /\ pending
    /\ pending' = FALSE
    /\ spc' = "recv"
    /\ UNCHANGED <<demo, file, listening, inq, outq, handled, client>>

\* How much of a queue one recv() returns.
Returned(q) ==
    CASE demo = "dgram" -> {1}
      [] split /\ demo # "dgram" -> 1 .. Len(q)
      [] OTHER -> {Len(q)}

Echo(part) == part

LastMsg(h) == h = Count

\* The stream server sends back what one recv() returned, which is SIGPIPE after
\* the client has closed; the others leave their loop after the last message.
Recv ==
    /\ spc = "recv"
    /\ inq # <<>>
    /\ \E n \in Returned(inq) :
           /\ inq' = SubSeq(inq, n + 1, Len(inq))
           /\ outq' = IF demo = "stream" /\ cpc # "closed"
                      THEN outq \o Echo(SubSeq(inq, 1, n)) ELSE outq
    /\ handled' = handled + 1
    /\ spc' = CASE demo = "stream" -> IF cpc = "closed" THEN "killed" ELSE "recv"
                [] OTHER -> IF LastMsg(handled + 1) THEN "close" ELSE "recv"
    /\ UNCHANGED <<demo, file, listening, pending, client>>

RecvEof ==
    /\ spc = "recv"
    /\ demo = "stream"
    /\ inq = <<>>
    /\ cpc = "closed"
    /\ spc' = "close"
    /\ UNCHANGED <<demo, file, listening, pending, inq, outq, handled, client>>

\* close() and unlink() (the abstract name vanishes with its last descriptor).
Close ==
    /\ spc = "close"
    /\ file' = "none"
    /\ listening' = FALSE
    /\ spc' = "done"
    /\ UNCHANGED <<demo, pending, inq, outq, handled, client>>

-------------------------------------------------------------------------------
(* The client, 40 or 20 ms after its start.                                *)

server == <<demo, file, spc, listening, handled, split>>

\* connect() needs a listening server, else die(); dgram_client has its own
\* path and needs none.
Connect ==
    /\ cpc = "sleep"
    /\ \/ demo = "dgram" /\ cpc' = "send" /\ UNCHANGED pending
       \/ demo # "dgram" /\ listening /\ cpc' = "send" /\ pending' = TRUE
       \/ demo # "dgram" /\ ~listening /\ cpc' = "died" /\ UNCHANGED pending
    /\ UNCHANGED <<inq, outq, nsent, replies, lost, server>>

\* The result of sendto() is not looked at.
Send ==
    /\ cpc = "send"
    /\ nsent < Count
    /\ nsent' = nsent + 1
    /\ IF demo = "dgram" /\ file # "bound"
       THEN lost' = lost + 1 /\ UNCHANGED inq
       ELSE inq' = inq \o Message(nsent + 1) /\ UNCHANGED lost
    /\ cpc' = IF demo = "stream" THEN "recv" ELSE "send"
    /\ UNCHANGED <<outq, replies, pending, server>>

RecvReply ==
    /\ cpc = "recv"
    /\ outq # <<>>
    /\ \E n \in Returned(outq) :
           /\ replies' = replies \o SubSeq(outq, 1, n)
           /\ outq' = SubSeq(outq, n + 1, Len(outq))
    /\ cpc' = "send"
    /\ UNCHANGED <<inq, nsent, lost, pending, server>>

ClientClose ==
    /\ cpc = "send"
    /\ nsent = Count
    /\ cpc' = "closed"
    /\ UNCHANGED <<inq, outq, nsent, replies, lost, pending, server>>

-------------------------------------------------------------------------------

\* die() exits the process, and SIGPIPE ends it.
Died == spc \in {"died", "killed"} \/ cpc = "died"

Server == ~Died /\ (Unlink \/ Bind \/ Listen \/ Accept \/ Recv \/ RecvEof \/ Close)

Client == ~Died /\ (Connect \/ Send \/ RecvReply \/ ClientClose)

Next == Server \/ Client

Spec == Init /\ [][Next]_vars

-------------------------------------------------------------------------------
(* Properties.                                                             *)

\* What a previous run has left does not keep the server from binding, and it
\* leaves nothing itself.
PathClean == spc # "died" /\ (spc = "done" => file = "none")

\* The stream server echoes the client's bytes in order, none lost and none twice,
\* however they are cut.  That a recv() of the client is the echo of the message
\* before it holds only where messages arrive whole, as the code counts on.
RepliesMatch ==
    demo = "stream" /\ ~Died =>
        /\ replies \o outq \o inq = [j \in 1 .. nsent * Bytes |-> j]
        /\ ~split /\ cpc = "send" => Len(replies) = nsent * Bytes

\* Both threads end unless the client ran ahead of the server: it then dies in
\* connect(), or its datagrams are lost and dgram_server waits for them for ever;
\* an echo that is still owed when the client closes ends the process.
Finished == Died \/ lost > 0 \/ (spc = "done" /\ cpc = "closed")
================================================================================
