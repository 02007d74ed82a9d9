-------------------------------- MODULE Network --------------------------------
(***************************************************************************)
(* The programs that talk over sockets and those that wait for readiness   *)
(* or completion of many descriptors (select, poll, epoll, kqueue,         *)
(* io_uring, Asio), one at a time.  A behaviour is a run of one program,   *)
(* chosen in Init; v1 to v13 are the variables of that program's module,   *)
(* in the order in which it declares them.                                 *)
(***************************************************************************)
EXTENDS Integers, Sequences

VARIABLES program, v1, v2, v3, v4, v5, v6, v7, v8, v9, v10, v11, v12, v13

vars == <<program, v1, v2, v3, v4, v5, v6, v7, v8, v9, v10, v11, v12, v13>>

\* networking/01_tcp_server_client.cpp: three messages through buffers of three bytes.
Echo == INSTANCE TcpEcho WITH
    Prefix <- 4, MsgLen <- <<2, 3, 1>>, SockBuf <- 3,
    spc <- v1, cpc <- v2, conn <- v3, up <- v4, down <- v5, rup <- v6, rdown <- v7, starget <-
    v8, ctarget <- v9, sk <- v10, ck <- v11, fin <- v12

\* networking/02_tcp_options.cpp.
Ping == INSTANCE PingPong WITH
    NPings <- 4, PingLen <- 3,
    split <- v1, spc <- v2, cpc <- v3, conn <- v4, turn <- v5, pings <- v6, up <- v7, down <-
    v8, got <- v9, misses <- v10

\* networking/04_udp_basics.cpp.
Udp == INSTANCE UdpFeed WITH
    NUM_MSGS <- 4,
    demo <- v1, bound <- v2, net <- v3, queue <- v4, next <- v5, got <- v6, lost <- v7, spc <-
    v8, rpc <- v9

\* networking/05_udp_multicast.cpp.
Mcast == INSTANCE Multicast WITH
    Receivers <- {"r1", "r2"}, NumPkts <- 3,
    rpc <- v1, i <- v2, queue <- v3, got <- v4, spc <- v5, seq <- v6, net <- v7, lost <- v8

\* networking/07_unix_domain_sockets.cpp.
Unix == INSTANCE UnixSockets WITH
    NMsgs <- 3, Bytes <- 3,
    demo <- v1, file <- v2, spc <- v3, cpc <- v4, listening <- v5, pending <- v6, inq <- v7,
    outq <- v8, nsent <- v9, handled <- v10, replies <- v11, lost <- v12, split <- v13

\* networking/08_sendfile_zerocopy.cpp: sendfile(), splice(), and a splice() that
\* may be cut short.
Sendfile == INSTANCE FileSend WITH
    FileSize <- 16, PipeCap <- 3, SockBuf <- 6, UseSplice <- FALSE, Short <- FALSE,
    tpc <- v1, rpc <- v2, pending <- v3, offset <- v4, pipe <- v5, sock <- v6, remaining <- v7,
    n <- v8, m <- v9, total <- v10

Splice == INSTANCE FileSend WITH
    FileSize <- 7, PipeCap <- 3, SockBuf <- 2, UseSplice <- TRUE, Short <- FALSE,
    tpc <- v1, rpc <- v2, pending <- v3, offset <- v4, pipe <- v5, sock <- v6, remaining <- v7,
    n <- v8, m <- v9, total <- v10

Short == INSTANCE FileSend WITH
    FileSize <- 7, PipeCap <- 3, SockBuf <- 2, UseSplice <- TRUE, Short <- TRUE,
    tpc <- v1, rpc <- v2, pending <- v3, offset <- v4, pipe <- v5, sock <- v6, remaining <- v7,
    n <- v8, m <- v9, total <- v10

\* networking/10_socket_patterns.cpp: the framed protocol, and the sockets of a client.
Frames == INSTANCE Framing WITH
    Prefix <- 4, PayloadLen <- <<2, 1, 3>>, MaxFrame <- 3, SockBuf <- 5,
    stream <- v1, pc <- v2, msg <- v3, sent <- v4, buf <- v5, need <- v6, k <- v7, got <- v8,
    replies <- v9, reset <- v10, failed <- v11, killed <- v12

Sock == INSTANCE SocketPatterns WITH
    MaxAttempts <- 4, InitialDelay <- 2, PoolSize <- 3, MaxFd <- 4,
    User <- {"u1", "u2"}, MaxOps <- 4,
    mode <- v1, cpc <- v2, sock <- v3, caller <- v4, attempt <- v5, delay <- v6, waited <- v7,
    conn <- v8, tried <- v9, pool_ <- v10, available_ <- v11, held <- v12, ops <- v13

\* networking/06_select_poll_epoll.cpp, with the numbers of messages of its demos.
Demos == INSTANCE EventDemos WITH
    NMsgs <- [a \in {"select", "poll", "epoll", "kqueue", "burst"} |->
                 CASE a = "select" -> 1 [] a = "poll" -> 3 [] OTHER -> 2],
    MaxRounds <- 3,
    api <- v1, spc <- v2, cpc <- v3, conn <- v4, inbuf <- v5, fin <- v6, edge <- v7, rounds <-
    v8, nsent <- v9, nread <- v10, failed <- v11

\* networking/03_nonblocking_io.cpp.
Nonblock == INSTANCE NonblockingIo WITH
    MsgLen <- <<2, 3, 1>>, SockBuf <- 3,
    spc <- v1, cpc <- v2, conn <- v3, sent <- v4, rcvd <- v5, msg <- v6, remaining <- v7, fin <-
    v8, msg_count <- v9, ended <- v10

\* networking/09_io_uring.cpp: with the 20 turns of the code, and with too few for
\* all the pieces that the kernel may make.
Uring == INSTANCE IoUring WITH
    MsgLen <- <<2, 1, 1>>, MaxIter <- 20,
    spc <- v1, inflight <- v2, cq <- v3, iterations <- v4, buf <- v5, fd <- v6, cpc <- v7, msg
    <- v8, conn <- v9, inq <- v10, outq <- v11, nsent <- v12, got <- v13

Turns == INSTANCE IoUring WITH
    MsgLen <- <<2, 1, 1>>, MaxIter <- 7,
    spc <- v1, inflight <- v2, cq <- v3, iterations <- v4, buf <- v5, fd <- v6, cpc <- v7, msg
    <- v8, conn <- v9, inq <- v10, outq <- v11, nsent <- v12, got <- v13

\* libraries/boost/06_asio_tcp.cpp and coroutines/08_asio_coro.cpp.
Asio == INSTANCE AsioEcho WITH
    Clients <- {"c1", "c2"}, MainClient <- "c1", MsgLen <- 3, BufSize <- 2,
    cpc <- v1, up <- v2, down <- v3, got <- v4, session <- v5, pending <- v6, buf <- v7, wrote
    <- v8, stopped <- v9

\* system_calls/08_poll.cpp and 10_epoll_kqueue.cpp: three feeds.
Loop == INSTANCE EventLoop WITH
    NFeeds <- 3, NTicks <- 2, Loops <- {"poll", "epoll", "kqueue"},
    loop <- v1, sent <- v2, feed <- v3, rcvd <- v4, isopen <- v5, open_fds <- v6, pc <- v7, cur
    <- v8, ready <- v9, hup <- v10, reaped <- v11

-------------------------------------------------------------------------------

Init ==
    \/ program = "tcp_echo" /\ Echo!Init /\ v13 = 0
    \/ program = "ping_pong" /\ Ping!Init /\ v11 = 0 /\ v12 = 0 /\ v13 = 0
    \/ program = "udp" /\ Udp!Init /\ v10 = 0 /\ v11 = 0 /\ v12 = 0 /\ v13 = 0
    \/ program = "multicast" /\ Mcast!Init
          /\ v9 = 0 /\ v10 = 0 /\ v11 = 0 /\ v12 = 0 /\ v13 = 0
    \/ program = "unix" /\ Unix!Init
    \/ program = "sendfile" /\ Sendfile!Init /\ v11 = 0 /\ v12 = 0 /\ v13 = 0
    \/ program = "splice" /\ Splice!Init /\ v11 = 0 /\ v12 = 0 /\ v13 = 0
    \/ program = "short" /\ Short!Init /\ v11 = 0 /\ v12 = 0 /\ v13 = 0
    \/ program = "framing" /\ Frames!Init /\ v13 = 0
    \/ program = "sockets" /\ Sock!Init
    \/ program = "demos" /\ Demos!Init /\ v12 = 0 /\ v13 = 0
    \/ program = "nonblocking" /\ Nonblock!Init /\ v11 = 0 /\ v12 = 0 /\ v13 = 0
    \/ program = "io_uring" /\ Uring!Init
    \/ program = "turns" /\ Turns!Init
    \/ program = "asio" /\ Asio!Init /\ v10 = 0 /\ v11 = 0 /\ v12 = 0 /\ v13 = 0
    \/ program = "loop" /\ Loop!Init /\ v12 = 0 /\ v13 = 0

from12 == <<v12, v13>>
from11 == <<v11, from12>>
from10 == <<v10, from11>>
from9 == <<v9, from10>>

\* The thread that listens, receives or waits for events,
Receiving ==
    \/ program = "tcp_echo" /\ Echo!ServerStep /\ UNCHANGED <<program, v13>>
    \/ program = "ping_pong" /\ Ping!Server /\ UNCHANGED <<program, from11>>
    \/ program = "udp" /\ Udp!Receiver /\ UNCHANGED <<program, from10>>
    \/ program = "multicast" /\ Mcast!ReceiverStep("r1") /\ UNCHANGED <<program, from9>>
    \/ program = "unix" /\ Unix!Server /\ UNCHANGED program
    \/ program = "sendfile" /\ Sendfile!Receiver /\ UNCHANGED <<program, from11>>
    \/ program = "splice" /\ Splice!Receiver /\ UNCHANGED <<program, from11>>
    \/ program = "short" /\ Short!Receiver /\ UNCHANGED <<program, from11>>
    \/ program = "framing" /\ Frames!ServerStep /\ UNCHANGED <<program, v13>>
    \/ program = "demos" /\ Demos!Main /\ UNCHANGED <<program, from12>>
    \/ program = "nonblocking" /\ Nonblock!ServerStep /\ UNCHANGED <<program, from11>>
    \/ program = "io_uring" /\ Uring!Server /\ UNCHANGED program
    \/ program = "turns" /\ Turns!Server /\ UNCHANGED program
    \/ program = "asio" /\ Asio!Server("c1") /\ UNCHANGED <<program, from10>>
    \/ program = "loop" /\ Loop!Parent /\ UNCHANGED <<program, from12>>

\* the one that connects, sends or feeds it,
Sending ==
    \/ program = "tcp_echo" /\ Echo!ClientStep /\ UNCHANGED <<program, v13>>
    \/ program = "ping_pong" /\ Ping!Client /\ UNCHANGED <<program, from11>>
    \/ program = "udp" /\ Udp!Sender /\ UNCHANGED <<program, from10>>
    \/ program = "multicast" /\ Mcast!SenderStep /\ UNCHANGED <<program, from9>>
    \/ program = "unix" /\ Unix!Client /\ UNCHANGED program
    \/ program = "sendfile" /\ Sendfile!Sender /\ UNCHANGED <<program, from11>>
    \/ program = "splice" /\ Splice!Sender /\ UNCHANGED <<program, from11>>
    \/ program = "short" /\ Short!Sender /\ UNCHANGED <<program, from11>>
    \/ program = "framing" /\ Frames!ClientStep /\ UNCHANGED <<program, v13>>
    \/ program = "demos" /\ Demos!Client /\ UNCHANGED <<program, from12>>
    \/ program = "nonblocking" /\ Nonblock!ClientStep /\ UNCHANGED <<program, from11>>
    \/ program = "io_uring" /\ Uring!Client /\ UNCHANGED program
    \/ program = "turns" /\ Turns!Client /\ UNCHANGED program
    \/ program = "asio" /\ Asio!Client("c1") /\ UNCHANGED <<program, from10>>
    \/ program = "loop" /\ Loop!FeedStep(1) /\ UNCHANGED <<program, from12>>

\* a network that delivers or drops a datagram, and the second receiver.
Delivering ==
    \/ program = "udp" /\ Udp!Network /\ UNCHANGED <<program, from10>>
    \/ program = "multicast" /\ Mcast!Network /\ UNCHANGED <<program, from9>>
Receiving2 == program = "multicast" /\ Mcast!ReceiverStep("r2") /\ UNCHANGED <<program, from9>>

\* A reset, and the single thread of the client that reconnects and pools.
Resetting == program = "framing" /\ ~v12 /\ Frames!Reset /\ UNCHANGED <<program, v13>>
Pooling == program = "sockets" /\ Sock!Next /\ UNCHANGED program

\* The kernel's side of the ring, the other feeds, and the handlers for a second
\* client.
Kernel ==
    \/ program = "io_uring" /\ Uring!Kernel /\ UNCHANGED program
    \/ program = "turns" /\ Turns!Kernel /\ UNCHANGED program
OtherFeed(f) == program = "loop" /\ Loop!FeedStep(f) /\ UNCHANGED <<program, from12>>
Handlers == program = "asio" /\ Asio!Server("c2") /\ UNCHANGED <<program, from10>>
Stopping == program = "asio" /\ Asio!Main_Stop /\ UNCHANGED <<program, from10>>

\* The second client may stop anywhere.
Stranger == program = "asio" /\ Asio!Client("c2") /\ UNCHANGED <<program, from10>>

Next ==
    \/ Receiving \/ Sending \/ Delivering \/ Receiving2 \/ Resetting \/ Pooling
    \/ Kernel \/ Handlers \/ Stopping \/ Stranger
    \/ \E f \in {2, 3} : OtherFeed(f)

\* Every thread, process and handler that stays ready runs, and a datagram arrives
\* or is lost in the end; nothing is ever reset of necessity, and nobody has to
\* use the pool or to go on as the second client.
Fairness ==
    /\ WF_vars(Receiving) /\ WF_vars(Sending) /\ WF_vars(Delivering) /\ WF_vars(Receiving2)
    /\ WF_vars(Kernel) /\ WF_vars(Handlers) /\ WF_vars(Stopping)
    /\ \A f \in {2, 3} : WF_vars(OtherFeed(f))

Spec == Init /\ [][Next]_vars /\ Fairness

-------------------------------------------------------------------------------
(* Properties.                                                             *)

\* The variables of every program have their types.
TypeOK ==
    CASE program = "tcp_echo" -> Echo!TypeInv
      [] program = "ping_pong" -> Ping!TypeInv
      [] program = "udp" -> Udp!TypeInv
      [] program = "multicast" -> Mcast!TypeInv
      [] program = "unix" -> Unix!TypeInv
      [] program = "sendfile" -> Sendfile!TypeInv
      [] program = "splice" -> Splice!TypeInv
      [] program = "short" -> Short!TypeInv
      [] program = "framing" -> Frames!TypeInv
      [] program = "sockets" -> Sock!TypeInv
      [] program = "demos" -> Demos!TypeInv
      [] program = "nonblocking" -> Nonblock!TypeInv
      [] program = "io_uring" -> Uring!TypeInv
      [] program = "turns" -> Turns!TypeInv
      [] program = "asio" -> Asio!TypeInv
      [] program = "loop" -> Loop!TypeInv

\* What is received is what was sent.  However the stream is cut, a framed message
\* arrives whole or not at all, its reply is taken for its own, and the bytes of a
\* stream without frames are echoed in order.  (ping_rtt_us and the UNIX client take
\* one recv() for the echo of a message; that is claimed only where messages arrive
\* whole, or until the server has used up its recv()s.)
ReceivedAsSent ==
    CASE program = "tcp_echo" -> Echo!InStep /\ Echo!EchoFirst
      [] program = "ping_pong" -> Ping!EachTimed
      [] program = "unix" -> Unix!RepliesMatch
      [] program = "framing" -> Frames!WholeMessages /\ Frames!EchoMatches /\ Frames!AllEchoed
      [] OTHER -> TRUE

\* However datagrams are lost and overtaken, each copy is received once at most, and
\* the gap counter counts what was missing or overtaken.
DatagramsCounted ==
    CASE program = "udp" -> Udp!EachOnce /\ Udp!GapsExact
      [] program = "multicast" -> Mcast!EachCopyOnce
      [] OTHER -> TRUE

\* Nothing vanishes on the way: every byte of a file is in the file, the pipe, the
\* connection or received, also when splice() is cut short (what then stays in the pipe
\* for good is a case of Completes), and the connection is closed only when all of them
\* are in it or received; a socket file is removed; every descriptor is owned by one
\* Socket, and every pooled connection is available or held by one user.
NothingLeaks ==
    CASE program = "sendfile" -> Sendfile!Conserved /\ Sendfile!ClosedMeansSent
      [] program = "splice" -> Splice!Conserved /\ Splice!ClosedMeansSent
      [] program = "short" -> Short!Conserved /\ Short!ClosedMeansSent
      [] program = "unix" -> Unix!PathClean
      [] program = "sockets" -> Sock!NoFdLeak /\ Sock!PoolExclusive /\ Sock!BackoffDoubles
      [] OTHER -> TRUE

\* No event is lost and none is left without a waiter: an edge-triggered server
\* never waits while there is something to read, one operation at a time uses the
\* buffer of a ring or of a session, and a destroyed session has none pending, and
\* the counter that ends an event loop agrees with the descriptors it watches.
EventsAccounted ==
    CASE program = "demos" -> Demos!NoLostEdge
      [] program = "io_uring" -> Uring!BufferOwned
      [] program = "turns" -> Turns!BufferOwned
      [] program = "asio" -> Asio!OneOperation
      [] program = "loop" -> Loop!CountMatches
      [] OTHER -> TRUE

\* Nothing is lost between a report and the reads that follow it: a server that
\* has seen EOF or a hang-up has read all that was written before, and what is
\* echoed is what was received, in order and once.
AllRead ==
    CASE program = "demos" -> Demos!EofMeansAll /\ Demos!BurstDrained
      [] program = "nonblocking" -> Nonblock!EofMeansAll
      [] program = "io_uring" -> Uring!EchoOrder
      [] program = "turns" -> Turns!EchoOrder
      [] program = "asio" -> Asio!EchoRight
      [] program = "loop" -> Loop!NothingLost
      [] OTHER -> TRUE

\* Every program ends, its threads joined and its feeds read and reaped, or is ended
\* by die() or SIGPIPE, except in four cases, in which a thread waits for ever: a
\* client ran ahead of listen() or bind(), or gave up connecting; a datagram was
\* lost; a splice() into the socket was cut short and left bytes in the pipe; the
\* twenty turns of the io_uring server were used up by pieces.  The Asio server is
\* stopped although another client hangs, and the session of a client that has gone
\* is destroyed, if the server runs on.
Completes ==
    /\ <>(CASE program = "tcp_echo" -> Echo!Finished
            [] program = "ping_pong" -> Ping!Finished
            [] program = "udp" -> Udp!Finished
            [] program = "multicast" -> Mcast!Finished
            [] program = "unix" -> Unix!Finished
            [] program = "sendfile" -> Sendfile!Finished
            [] program = "splice" -> Splice!Finished
            [] program = "short" -> Short!Finished \/ Short!StuckInPipe
            [] program = "framing" -> Frames!Finished
            [] program = "demos" -> Demos!Finished
            [] program = "nonblocking" -> Nonblock!Finished
            [] program = "io_uring" -> Uring!Finished
            [] program = "turns" -> Turns!Finished \/ Turns!OutOfTurns
            [] program = "asio" -> Asio!Finished
            [] program = "loop" -> Loop!Finished
            [] OTHER -> TRUE)
    /\ (program = "asio" /\ Asio!Gone("c2")) ~> (program = "asio" /\ Asio!Freed("c2"))
================================================================================
