-------------------------------- MODULE AsioEcho -------------------------------
(***************************************************************************)
(* The echo servers on an io_context: the callback chain accept - read -   *)
(* write of src/libraries/boost/06_asio_tcp.cpp and the coroutines of      *)
(* src/coroutines/08_asio_coro.cpp, which have the same steps.  One thread *)
(* runs the handlers; a handler runs to its end.  A session lives while an *)
(* operation is pending that holds its shared_ptr (or its frame).  Reads   *)
(* and writes may be partial.  The client of main stops the server when it *)
(* has its echo; other clients come and go.                                *)
(***************************************************************************)
EXTENDS Integers, Sequences, FiniteSets

CONSTANTS
    Clients,
    MainClient,  \* the client of main
    MsgLen,      \* bytes in its message
    BufSize      \* sizeof(buf_)

VARIABLES
    cpc,      \* client -> "start", "connected", "sent", "read" or "closed"
    up,       \* client -> bytes on their way to the server
    down,     \* client -> bytes on their way back
    got,      \* client -> bytes it has read
    session,  \* client -> "none", "live" or "destroyed"
    pending,  \* client -> operations its session has started
    buf,      \* client -> bytes in buf_
    wrote,    \* client -> how many of them the pending async_write has sent
    stopped   \* stop() was called

vars == <<cpc, up, down, got, session, pending, buf, wrote, stopped>>

Bytes == 1 .. MsgLen
Message == [k \in Bytes |-> k]

TypeInv ==
    /\ cpc \in [Clients -> {"start", "connected", "sent", "read", "closed"}]
    /\ up \in [Clients -> Seq(Bytes)] /\ down \in [Clients -> Seq(Bytes)]
    /\ got \in [Clients -> Seq(Bytes)] /\ buf \in [Clients -> Seq(Bytes)]
    /\ session \in [Clients -> {"none", "live", "destroyed"}]
    /\ pending \in [Clients -> SUBSET {"read", "write"}]
    /\ wrote \in [Clients -> 0 .. BufSize]
    /\ stopped \in BOOLEAN

Init ==
    /\ cpc = [c \in Clients |-> "start"]
    /\ up = [c \in Clients |-> <<>>] /\ down = [c \in Clients |-> <<>>]
    /\ got = [c \in Clients |-> <<>>] /\ buf = [c \in Clients |-> <<>>]
    /\ session = [c \in Clients |-> "none"]
    /\ pending = [c \in Clients |-> {}]
    /\ wrote = [c \in Clients |-> 0]
    /\ stopped = FALSE

-------------------------------------------------------------------------------
(* The handlers of the server, which run while the io_context does.        *)

\* Defect: accept() is not called again.
Accepts_Once(c) == \A d \in Clients : session[d] = "none"

\* An async_accept is pending: every handler queues the next one.
Accepts(c) == session[c] = "none"

Accept(c) ==
    /\ ~stopped
    /\ cpc[c] # "start" /\ session[c] = "none" /\ Accepts(c)
    /\ session' = [session EXCEPT ![c] = "live"]
    /\ pending' = [pending EXCEPT ![c] = {"read"}]
    /\ UNCHANGED <<cpc, up, down, got, buf, wrote, stopped>>

\* if (!ec) write(n)
AfterRead == {"write"}

Session_Read(c) ==
    /\ ~stopped /\ "read" \in pending[c]
    /\ \E n \in 1 .. (IF Len(up[c]) < BufSize THEN Len(up[c]) ELSE BufSize) :
           /\ buf' = [buf EXCEPT ![c] = SubSeq(up[c], 1, n)]
           /\ up' = [up EXCEPT ![c] = SubSeq(@, n + 1, Len(@))]
    /\ wrote' = [wrote EXCEPT ![c] = 0]
    /\ pending' = [pending EXCEPT ![c] = AfterRead]
    /\ UNCHANGED <<cpc, down, got, session, stopped>>

\* asio::buffer(buf_, n), without what has been sent.
ToWrite(c) == SubSeq(buf[c], wrote[c] + 1, Len(buf[c]))

\* async_write makes progress; when all is sent its handler calls read().
Session_Write(c) ==
    /\ ~stopped /\ "write" \in pending[c] /\ cpc[c] # "closed"
    /\ \E n \in 1 .. Len(ToWrite(c)) :
           /\ down' = [down EXCEPT ![c] = @ \o SubSeq(ToWrite(c), 1, n)]
           /\ IF n = Len(ToWrite(c))
              THEN /\ wrote' = [wrote EXCEPT ![c] = 0]
                   /\ buf' = [buf EXCEPT ![c] = <<>>]
                   /\ pending' = [pending EXCEPT ![c] = {"read"}]
              ELSE wrote' = [wrote EXCEPT ![c] = @ + n] /\ UNCHANGED <<buf, pending>>
    /\ UNCHANGED <<cpc, up, got, session, stopped>>

\* Nothing is started after an error.
AfterError(c, op) == pending[c] \ {op}

\* An operation fails, with end of file or because the peer is gone: nothing is
\* started, and with the last handler the session goes.
Session_Error(c) ==
    /\ ~stopped /\ cpc[c] = "closed"
    /\ \E op \in pending[c] :
           /\ op = "read" => up[c] = <<>>
           /\ pending' = [pending EXCEPT ![c] = AfterError(c, op)]
           /\ session' = [session EXCEPT ![c] = IF AfterError(c, op) = {} THEN "destroyed" ELSE @]
    /\ UNCHANGED <<cpc, up, down, got, buf, wrote, stopped>>

-------------------------------------------------------------------------------
(* The clients.                                                            *)

Client_Connect(c) ==
    /\ cpc[c] = "start" /\ ~stopped
    /\ cpc' = [cpc EXCEPT ![c] = "connected"]
    /\ UNCHANGED <<up, down, got, session, pending, buf, wrote, stopped>>

Client_Write(c) ==
    /\ cpc[c] = "connected"
    /\ cpc' = [cpc EXCEPT ![c] = "sent"]
    /\ up' = [up EXCEPT ![c] = Message]
    /\ UNCHANGED <<down, got, session, pending, buf, wrote, stopped>>

\* One read_some.
Client_Read(c) ==
    /\ cpc[c] = "sent"
    /\ \E n \in 1 .. Len(down[c]) :
           /\ got' = [got EXCEPT ![c] = SubSeq(down[c], 1, n)]
           /\ down' = [down EXCEPT ![c] = SubSeq(@, n + 1, Len(@))]
    /\ cpc' = [cpc EXCEPT ![c] = "read"]
    /\ UNCHANGED <<up, session, pending, buf, wrote, stopped>>

\* The main client closes when it has read; another one may leave at any time.
Client_Close(c) ==
    /\ cpc[c] = "read" \/ (c # MainClient /\ cpc[c] \in {"connected", "sent"})
    /\ cpc' = [cpc EXCEPT ![c] = "closed"]
    /\ UNCHANGED <<up, down, got, session, pending, buf, wrote, stopped>>

\* acceptor.close() and stop()
Main_Stop ==
    /\ cpc[MainClient] = "closed" /\ ~stopped
    /\ stopped' = TRUE
    /\ UNCHANGED <<cpc, up, down, got, session, pending, buf, wrote>>

-------------------------------------------------------------------------------

\* A handler for client c runs.
Server(c) == Accept(c) \/ Session_Read(c) \/ Session_Write(c) \/ Session_Error(c)

Client(c) == Client_Connect(c) \/ Client_Write(c) \/ Client_Read(c) \/ Client_Close(c)

Next == Main_Stop \/ \E c \in Clients : Server(c) \/ Client(c)

Spec == Init /\ [][Next]_vars

-------------------------------------------------------------------------------
(* Properties.                                                             *)

\* What comes back is the message, in order and without repetition, however
\* the reads and writes are split.
EchoRight ==
    \A c \in Clients :
        LET back == got[c] \o down[c]
        IN Len(back) <= MsgLen /\ \A k \in 1 .. Len(back) : back[k] = k

\* "the Session keeps itself alive for as long as any async operation
\* references it": one operation at a time uses buf_, a live session has one,
\* and a destroyed one has none.
OneOperation ==
    \A c \in Clients : Cardinality(pending[c]) = IF session[c] = "live" THEN 1 ELSE 0

\* A client has gone and its session is still there; its session has gone too.
Gone(c) == cpc[c] = "closed" /\ session[c] = "live"
Freed(c) == session[c] = "destroyed" \/ stopped

\* main's client has its echo and the server stops, whatever others do.
Finished == stopped
================================================================================
