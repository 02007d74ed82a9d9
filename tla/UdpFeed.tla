-------------------------------- MODULE UdpFeed --------------------------------
(***************************************************************************)
(* src/networking/04_udp_basics.cpp.  demo "feed" is main with udp_sender  *)
(* and udp_receiver: numbered datagrams, and a receiver thread that waits  *)
(* for exactly as many.  demo "connected" is demo_connected_udp: one       *)
(* datagram between two sockets of one thread, awaited with a timeout.     *)
(* A datagram that arrives before the receiver has bound its port is       *)
(* dropped, as the network may drop any; datagrams overtake each other.    *)
(* Gaps is demo_gap_detection, applied to every sequence of numbers that   *)
(* the receiver may print.                                                 *)
(***************************************************************************)
EXTENDS Integers, Sequences, FiniteSets, SequencesExt

CONSTANT NUM_MSGS

VARIABLES
    demo,
    bound,     \* the receiver's socket is bound
    net,       \* datagrams under way
    queue,     \* datagrams in the receiver's socket buffer
    next,      \* number of the next datagram to send
    got,       \* datagrams the receiver has printed
    lost,      \* datagrams dropped
    spc, rpc   \* sender, receiver

vars == <<demo, bound, net, queue, next, got, lost, spc, rpc>>

Count == IF demo = "connected" THEN 1 ELSE NUM_MSGS

TypeInv ==
    /\ demo \in {"feed", "connected"}
    /\ bound \in BOOLEAN
    /\ net \subseteq 1 .. NUM_MSGS
    /\ next \in 1 .. NUM_MSGS + 1
    /\ lost \subseteq 1 .. NUM_MSGS
    /\ spc \in {"sleep", "send", "done"}
    /\ rpc \in {"bind", "recv", "done"}
    /\ Len(got) <= NUM_MSGS

\* demo_connected_udp binds before it sends.
Init ==
    /\ demo \in {"feed", "connected"}
    /\ bound = (demo = "connected")
    /\ net = {}
    /\ queue = <<>>
    /\ next = 1
    /\ got = <<>>
    /\ lost = {}
    /\ spc = IF demo = "connected" THEN "send" ELSE "sleep"
    /\ rpc = IF demo = "connected" THEN "recv" ELSE "bind"

-------------------------------------------------------------------------------
(* The sender.                                                             *)

\* The 40 ms that should let the receiver bind.
Wake ==
    /\ spc = "sleep"
    /\ spc' = "send"
    /\ UNCHANGED <<demo, bound, net, queue, next, got, lost, rpc>>

MoreToSend == next <= Count

SendTo ==
    /\ spc = "send"
    /\ MoreToSend
    /\ net' = net \cup {next}
    /\ next' = next + 1
    /\ UNCHANGED <<demo, bound, queue, got, lost, spc, rpc>>

SenderDone ==
    /\ spc = "send"
    /\ ~MoreToSend
    /\ spc' = "done"
    /\ UNCHANGED <<demo, bound, net, queue, next, got, lost, rpc>>

-------------------------------------------------------------------------------
(* The network.                                                            *)

Arrive(q) ==
    /\ q \in net
    /\ net' = net \ {q}
    /\ \/ /\ bound
          /\ queue' = Append(queue, q)
          /\ UNCHANGED lost
       \/ /\ ~bound
          /\ lost' = lost \cup {q}
          /\ UNCHANGED queue
    /\ UNCHANGED <<demo, bound, next, got, spc, rpc>>

Lose(q) ==
    /\ q \in net
    /\ net' = net \ {q}
    /\ lost' = lost \cup {q}
    /\ UNCHANGED <<demo, bound, queue, next, got, spc, rpc>>

-------------------------------------------------------------------------------
(* The receiver.                                                           *)

Bind ==
    /\ rpc = "bind"
    /\ bound' = TRUE
    /\ rpc' = "recv"
    /\ UNCHANGED <<demo, net, queue, next, got, lost, spc>>

\* recvfrom() consumes exactly one datagram.
Rest == Tail(queue)

\* Defect: the loop waits for one datagram more than are sent.
MoreToRecv_OneMore == Len(got) <= Count

MoreToRecv == Len(got) < Count

RecvFrom ==
    /\ rpc = "recv"
    /\ MoreToRecv
    /\ queue # <<>>
    /\ got' = Append(got, Head(queue))
    /\ queue' = Rest
    /\ UNCHANGED <<demo, bound, net, next, lost, spc, rpc>>

\* poll() comes back after 500 ms without a datagram, and the sockets are closed.
PollTimeout ==
    /\ demo = "connected"
    /\ rpc = "recv"
    /\ spc = "done"
    /\ MoreToRecv
    /\ queue = <<>>
    /\ rpc' = "done"
    /\ UNCHANGED <<demo, bound, net, queue, next, got, lost, spc>>

ReceiverDone ==
    /\ rpc = "recv"
    /\ ~MoreToRecv
    /\ rpc' = "done"
    /\ UNCHANGED <<demo, bound, net, queue, next, got, lost, spc>>

\* main() waits in join() for a receiver that waits in recvfrom().
Stuck ==
    demo = "feed" /\ rpc = "recv" /\ MoreToRecv /\ queue = <<>> /\ net = {} /\ spc = "done"

-------------------------------------------------------------------------------

Sender == Wake \/ SendTo \/ SenderDone
Network == \E q \in 1 .. NUM_MSGS : Arrive(q) \/ Lose(q)
Receiver == Bind \/ RecvFrom \/ PollTimeout \/ ReceiverDone

Next == Sender \/ Network \/ Receiver

Spec == Init /\ [][Next]_vars

(* demo_gap_detection                                                      *)

\* Defect: the number that did arrive is counted too.
Missing_Inclusive(q, expected) == q - expected + 1

\* seq - expected
Missing(q, expected) == q - expected

\* One pass of the loop: a gap, the number expected, or a duplicate.
Track(t, q) ==
    CASE q > t.expected -> [expected |-> q + 1, gaps |-> t.gaps + Missing(q, t.expected)]
      [] q = t.expected -> [t EXCEPT !.expected = @ + 1]
      [] OTHER -> t

Gaps(received) == FoldLeft(Track, [expected |-> 1, gaps |-> 0], received)

-------------------------------------------------------------------------------
(* Properties.                                                             *)

\* "each recvfrom() consumes exactly one datagram": nothing is printed twice,
\* and every datagram sent is printed, waiting, under way or lost.
EachOnce ==
    /\ IsInjective(got \o queue)
    /\ Range(got \o queue) \cup net \cup lost = 1 .. next - 1

\* What the gap counter counts: the numbers that had not been seen when a higher
\* one was.  A datagram that was only overtaken is thus counted for ever, and a late
\* one never uncounts its gap; without overtaking the count is what is missing.
GapsExact ==
    LET t == Gaps(got)
        overtaken == {q \in 1 .. t.expected - 1 :
                          \A j \in 1 .. Len(got) :
                              got[j] = q => \E k \in 1 .. j - 1 : got[k] > q}
    IN  /\ t.gaps = Cardinality(overtaken)
        /\ (\A j \in 1 .. Len(got) - 1 : got[j] < got[j + 1]) =>
               overtaken = (1 .. t.expected - 1) \ Range(got)

\* The feed ends exactly if nothing was lost: without a timeout one lost
\* datagram keeps the receiver, and main() in join(), waiting for ever.  With one,
\* demo_connected_udp always ends.
Finished == IF lost = {} \/ demo = "connected" THEN rpc = "done" ELSE Stuck
================================================================================
