------------------------------- MODULE PingPong --------------------------------
(***************************************************************************)
(* echo_server and ping_rtt_us of src/networking/02_tcp_options.cpp: a     *)
(* thread listens, accepts and answers NPings recv()s; the main thread     *)
(* sleeps 30 ms, connects and sends NPings pings, each after the recv() of *)
(* the one before.  No return value but that of the server's recv() is     *)
(* looked at.  main does this with and without TCP_NODELAY, which decides  *)
(* when a segment leaves and not what is received.                         *)
(*                                                                         *)
(* The two directions are counted in bytes.  A recv() takes all that has   *)
(* arrived; if split, a ping may arrive in pieces.                         *)
(***************************************************************************)
EXTENDS Integers

CONSTANTS
    NPings,    \* NUM_PINGS, 20 in the code
    PingLen    \* bytes of a ping, 4 in the code

VARIABLES
    split,         \* segments may be cut
    spc,           \* "start", "listen", "recv", "send" or "closed"
    cpc,           \* "sleep", "send", "recv", "closed" or "killed"
    conn,          \* "none", "backlog", "refused", "up" or "reset"
    turn,          \* recv()s of the server
    pings,         \* recv()s of the client
    up, down,      \* bytes on their way to the server, to the client
    got,           \* bytes the server has read and not echoed
    misses         \* recv()s of the client that returned 0 or an error

vars == <<split, spc, cpc, conn, turn, pings, up, down, got, misses>>

TypeInv ==
    /\ split \in BOOLEAN
    /\ spc \in {"start", "listen", "recv", "send", "closed"}
    /\ cpc \in {"sleep", "send", "recv", "closed", "killed"}
    /\ conn \in {"none", "backlog", "refused", "up", "reset"}
    /\ turn \in 0 .. NPings /\ pings \in 0 .. NPings /\ misses \in 0 .. pings
    /\ up \in 0 .. NPings * PingLen /\ down \in 0 .. NPings * PingLen
    /\ got \in 0 .. NPings * PingLen

Init ==
    /\ split \in BOOLEAN
    /\ spc = "start" /\ cpc = "sleep" /\ conn = "none"
    /\ turn = 0 /\ pings = 0 /\ up = 0 /\ down = 0 /\ got = 0 /\ misses = 0

-------------------------------------------------------------------------------
(* echo_server                                                             *)

Listen ==
    /\ spc = "start"
    /\ spc' = "listen"
    /\ UNCHANGED <<split, cpc, conn, turn, pings, up, down, got, misses>>

Accept ==
    /\ spc = "listen" /\ conn = "backlog"
    /\ spc' = "recv" /\ conn' = "up"
    /\ UNCHANGED <<split, cpc, turn, pings, up, down, got, misses>>

\* What one recv() finds of n bytes.
Arrived(n) == IF split THEN 1 .. n ELSE {n} \ {0}

ServerTurns == NPings

ServerRecv ==
    /\ spc = "recv" /\ turn < ServerTurns
    /\ \E k \in Arrived(up) : up' = up - k /\ got' = k
    /\ spc' = "send"
    /\ UNCHANGED <<split, cpc, conn, turn, pings, down, misses>>

Echoed == got

\* A client that has closed answers with a reset; after one, SIGPIPE or the
\* pending error.
ServerSend ==
    /\ spc = "send"
    /\ got' = 0 /\ turn' = turn + 1 /\ spc' = "recv"
    /\ IF cpc # "closed"
       THEN down' = down + Echoed /\ UNCHANGED <<cpc, conn>>
       ELSE /\ conn' = "reset" /\ UNCHANGED down
            /\ UNCHANGED cpc \/ (conn = "reset" /\ cpc' = "killed")
    /\ UNCHANGED <<split, pings, up, misses>>

\* recv() returns 0 or an error: nothing is echoed.
ServerEof ==
    /\ spc = "recv" /\ turn < ServerTurns
    /\ cpc = "closed" /\ (up = 0 \/ conn = "reset")
    /\ turn' = turn + 1
    /\ UNCHANGED <<split, spc, cpc, conn, pings, up, down, got, misses>>

\* close() resets a connection with unread bytes.
ServerClose ==
    /\ spc = "recv" /\ turn = ServerTurns
    /\ spc' = "closed"
    /\ conn' = IF up > 0 THEN "reset" ELSE conn
    /\ UNCHANGED <<split, cpc, turn, pings, up, down, got, misses>>

-------------------------------------------------------------------------------
(* ping_rtt_us                                                             *)

\* connect() fails if the server does not listen yet; nobody looks.
Connect ==
    /\ cpc = "sleep"
    /\ conn' = IF spc = "listen" THEN "backlog" ELSE "refused"
    /\ cpc' = "send"
    /\ UNCHANGED <<split, spc, turn, pings, up, down, got, misses>>

\* A send() on a socket that was never connected raises SIGPIPE, as does one
\* after a reset whose error has been returned; a send() to a closed peer is
\* answered with a reset.
ClientSend ==
    /\ cpc = "send" /\ pings < NPings
    /\ \/ conn \in {"refused", "reset"} /\ cpc' = "killed" /\ UNCHANGED <<conn, up>>
       \/ conn = "reset" /\ cpc' = "recv" /\ UNCHANGED <<conn, up>>
       \/ /\ conn \in {"backlog", "up"} /\ cpc' = "recv"
          /\ IF spc = "closed" THEN conn' = "reset" /\ UNCHANGED up
             ELSE up' = up + PingLen /\ UNCHANGED conn
    /\ UNCHANGED <<split, spc, turn, pings, down, got, misses>>

ClientRecv ==
    /\ cpc = "recv"
    /\ \/ (\E k \in Arrived(down) : down' = down - k) /\ UNCHANGED misses
       \/ /\ conn = "reset" \/ (spc = "closed" /\ down = 0)
          /\ misses' = misses + 1 /\ UNCHANGED down
    /\ pings' = pings + 1 /\ cpc' = "send"
    /\ UNCHANGED <<split, spc, conn, turn, up, got>>

ClientClose ==
    /\ cpc = "send" /\ pings = NPings
    /\ cpc' = "closed"
    /\ conn' = IF down > 0 THEN "reset" ELSE conn
    /\ UNCHANGED <<split, spc, turn, pings, up, down, got, misses>>

-------------------------------------------------------------------------------

Server ==
    /\ cpc # "killed"
    /\ Listen \/ Accept \/ ServerRecv \/ ServerSend \/ ServerEof \/ ServerClose

Client == Connect \/ ClientSend \/ ClientRecv \/ ClientClose

Next == Server \/ Client

Spec == Init /\ [][Next]_vars

-------------------------------------------------------------------------------
(* Properties.                                                             *)

\* Every recv() of the client is an echo, and none of the times that are averaged
\* is that of an EOF or an error, unless the server has used up its recv()s on the
\* pieces of earlier pings: the code counts on a ping to arrive whole.
EachTimed == misses > 0 => split /\ turn = NPings

\* Neither side waits for the other for ever, however the bytes are cut: both
\* threads end, or SIGPIPE ends the process.
Finished == cpc = "killed" \/ (cpc = "closed" /\ spc = "closed")
================================================================================
