------------------------------- MODULE Multicast -------------------------------
(***************************************************************************)
(* multicast_receiver, multicast_sender and main of                        *)
(* src/networking/05_udp_multicast.cpp: receivers that bind a port, join a *)
(* group and count NumPkts packets, and a sender that starts after 60 ms.  *)
(*                                                                         *)
(* A packet is replicated into one copy for each receiver.  Copies overtake *)
(* each other and get lost, each on its own.  One that arrives is kept by a *)
(* member of the group; while the group has a member on the host another    *)
(* socket bound to the port gets it or not, as the platform has it.         *)
(***************************************************************************)
EXTENDS Integers, Sequences, SequencesExt

CONSTANTS
    Receivers,
    NumPkts

VARIABLES
    rpc,      \* receiver -> "start", "bound", "joined", "done" or "failed"
    i,        \* receiver -> loop variable
    queue,    \* receiver -> packets in its socket
    got,      \* receiver -> packets it has printed
    spc,      \* "sleep", "send" or "done"
    seq,      \* packets sent
    net,      \* copies under way: pairs of a packet and its receiver
    lost      \* copies that were dropped

vars == <<rpc, i, queue, got, spc, seq, net, lost>>

TypeInv ==
    /\ rpc \in [Receivers -> {"start", "bound", "joined", "done", "failed"}]
    /\ i \in [Receivers -> 0 .. NumPkts]
    /\ queue \in [Receivers -> Seq(1 .. NumPkts)]
    /\ got \in [Receivers -> Seq(1 .. NumPkts)]
    /\ spc \in {"sleep", "send", "done"}
    /\ seq \in 0 .. NumPkts
    /\ net \subseteq (1 .. NumPkts) \X Receivers
    /\ lost \subseteq (1 .. NumPkts) \X Receivers

Init ==
    /\ rpc = [r \in Receivers |-> "start"]
    /\ i = [r \in Receivers |-> 0]
    /\ queue = [r \in Receivers |-> <<>>]
    /\ got = [r \in Receivers |-> <<>>]
    /\ spc = "sleep"
    /\ seq = 0
    /\ net = {}
    /\ lost = {}

Sender == <<spc, seq, net, lost>>

-------------------------------------------------------------------------------
(* multicast_receiver                                                      *)

Bind(r) ==
    /\ rpc[r] = "start"
    /\ rpc' = [rpc EXCEPT ![r] = "bound"]
    /\ UNCHANGED <<i, queue, got, Sender>>

\* IP_ADD_MEMBERSHIP, or its failure, after which the thread returns.
Join(r) ==
    /\ rpc[r] = "bound"
    /\ \/ rpc' = [rpc EXCEPT ![r] = "joined"] /\ UNCHANGED queue
       \/ rpc' = [rpc EXCEPT ![r] = "failed"] /\ queue' = [queue EXCEPT ![r] = <<>>]
    /\ UNCHANGED <<i, got, Sender>>

NextI(r) == i[r] + 1

Recvfrom(r) ==
    /\ rpc[r] = "joined"
    /\ i[r] < NumPkts
    /\ queue[r] # <<>>
    /\ got' = [got EXCEPT ![r] = Append(@, Head(queue[r]))]
    /\ queue' = [queue EXCEPT ![r] = Tail(@)]
    /\ i' = [i EXCEPT ![r] = NextI(r)]
    /\ UNCHANGED <<rpc, Sender>>

\* IP_DROP_MEMBERSHIP and close().
Leave(r) ==
    /\ rpc[r] = "joined"
    /\ i[r] = NumPkts
    /\ rpc' = [rpc EXCEPT ![r] = "done"]
    /\ UNCHANGED <<i, queue, got, Sender>>

-------------------------------------------------------------------------------
(* multicast_sender                                                        *)

\* sleep_for(60ms), "let receivers join".
Wake ==
    /\ spc = "sleep"
    /\ spc' = "send"
    /\ UNCHANGED <<rpc, i, queue, got, seq, net, lost>>

\* pkt.seq = i + 1
PktSeq(k) == k + 1

\* A sendto() that fails is reported and passed over.
Sendto ==
    /\ spc = "send"
    /\ seq < NumPkts
    /\ LET copies == {PktSeq(seq)} \X Receivers
       IN  \/ net' = net \union copies /\ UNCHANGED lost
           \/ lost' = lost \union copies /\ UNCHANGED net
    /\ seq' = seq + 1
    /\ UNCHANGED <<rpc, i, queue, got, spc>>

SenderDone ==
    /\ spc = "send"
    /\ seq = NumPkts
    /\ spc' = "done"
    /\ UNCHANGED <<rpc, i, queue, got, seq, net, lost>>

-------------------------------------------------------------------------------
(* The network and the receivers' sockets.                                 *)

Members == {r \in Receivers : rpc[r] = "joined"}

\* Sockets to which a packet that arrives may be copied.
Open == Members \union {r \in Receivers : rpc[r] = "bound" /\ Members # {}}

Arrive(q, r) ==
    /\ <<q, r>> \in net
    /\ r \in Open
    /\ net' = net \ {<<q, r>>}
    /\ queue' = [queue EXCEPT ![r] = Append(@, q)]
    /\ UNCHANGED <<rpc, i, got, spc, seq, lost>>

Lose(q, r) ==
    /\ <<q, r>> \in net
    /\ net' = net \ {<<q, r>>}
    /\ lost' = lost \union {<<q, r>>}
    /\ UNCHANGED <<rpc, i, queue, got, spc, seq>>

-------------------------------------------------------------------------------

ReceiverStep(r) == Bind(r) \/ Join(r) \/ Recvfrom(r) \/ Leave(r)

SenderStep == Wake \/ Sendto \/ SenderDone

Network == \E q \in 1 .. NumPkts, r \in Receivers : Arrive(q, r) \/ Lose(q, r)

Next == SenderStep \/ Network \/ \E r \in Receivers : ReceiverStep(r)

Spec == Init /\ [][Next]_vars

-------------------------------------------------------------------------------
(* Properties.                                                             *)

\* Every copy of a packet is printed, waiting, under way or lost, in one place only,
\* whatever becomes of the other receiver's, and a receiver that leaves its loop has
\* printed every packet.  (In what order is not promised.)
EachCopyOnce ==
    \A r \in Receivers :
        LET here == got[r] \o queue[r]
            on(copies) == {q \in 1 .. NumPkts : <<q, r>> \in copies}
        IN  /\ IsInjective(here)
            /\ Range(here) \intersect (on(net) \union on(lost)) = {}
            /\ on(net) \intersect on(lost) = {}
            /\ rpc[r] # "failed" => Range(here) \union on(net) \union on(lost) = 1 .. seq
            /\ rpc[r] = "done" => Range(got[r]) = 1 .. NumPkts

\* "Both receivers get every packet", and main joins all three threads, unless a
\* join failed or a copy was dropped: the receiver it was for then waits in
\* recvfrom() for ever.
Finished ==
    /\ spc = "done"
    /\ \A r \in Receivers :
           rpc[r] \in {"done", "failed"} \/ \E q \in 1 .. NumPkts : <<q, r>> \in lost
================================================================================
