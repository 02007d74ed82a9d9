------------------------------- MODULE EventLoop -------------------------------
(***************************************************************************)
(* The event loops of src/system_calls/08_poll.cpp (poll) and of           *)
(* src/system_calls/10_epoll_kqueue.cpp (level-triggered epoll on Linux,   *)
(* kqueue elsewhere) with their feeds: forked children that write ticks    *)
(* into a socketpair and exit.                                             *)
(*                                                                         *)
(* The call that waits reports what was true when it looked; feeds go on   *)
(* while the reports are worked off.  The loops differ in the order of     *)
(* that work: slot by slot for poll, in any order for epoll and kqueue.    *)
(* The parent never writes to a feed, so no error is ever pending on a     *)
(* socket, and POLLERR and EV_ERROR are not reported.                      *)
(***************************************************************************)
EXTENDS Integers, FiniteSets, FiniteSetsExt

CONSTANTS
    NFeeds,
    NTicks,   \* ticks a feed writes
    Loops     \* of {"poll", "epoll", "kqueue"}

Feed == 1 .. NFeeds

VARIABLES
    loop,      \* which of the loops this is
    sent,      \* [Feed -> ticks written]
    feed,      \* [Feed -> "run", "closed" or "exited"]
    rcvd,      \* [Feed -> ticks the parent has read]
    isopen,    \* feeds whose descriptor the parent has open
    open_fds,  \* its counter
    pc, cur,   \* the parent, and the slot it works on
    ready,     \* slots of the last report that are still to be looked at
    hup,       \* those of the last report that had POLLHUP
    reaped

vars == <<loop, sent, feed, rcvd, isopen, open_fds, pc, cur, ready, hup, reaped>>

TypeInv ==
    /\ loop \in Loops
    /\ sent \in [Feed -> 0 .. NTicks]
    /\ feed \in [Feed -> {"run", "closed", "exited"}]
    /\ rcvd \in [Feed -> 0 .. NTicks]
    /\ isopen \subseteq Feed
    /\ open_fds \in 0 .. NFeeds
    /\ pc \in {"poll", "scan", "drain", "hup", "wait", "done"}
    /\ cur \in Feed
    /\ ready \subseteq Feed
    /\ hup \subseteq Feed
    /\ reaped \subseteq Feed

\* main has forked every feed.
FeedsStarted ==
    /\ sent = [f \in Feed |-> 0]
    /\ feed = [f \in Feed |-> "run"]

Init ==
    /\ loop \in Loops
    /\ FeedsStarted
    /\ rcvd = [f \in Feed |-> 0]
    /\ isopen = Feed
    /\ open_fds = NFeeds
    /\ pc = "poll"
    /\ cur = 1
    /\ ready = {}
    /\ hup = {}
    /\ reaped = {}

parent == <<loop, rcvd, isopen, open_fds, pc, cur, ready, hup, reaped>>

-------------------------------------------------------------------------------
(* A feed process, start_feed.                                             *)

WriteTick(f) ==
    /\ feed[f] = "run"
    /\ sent[f] < NTicks
    /\ sent' = [sent EXCEPT ![f] = @ + 1]
    /\ UNCHANGED <<feed, parent>>

CloseEnd(f) ==
    /\ feed[f] = "run"
    /\ sent[f] = NTicks
    /\ feed' = [feed EXCEPT ![f] = "closed"]
    /\ UNCHANGED <<sent, parent>>

Exit(f) ==
    /\ feed[f] = "closed"
    /\ feed' = [feed EXCEPT ![f] = "exited"]
    /\ UNCHANGED <<sent, parent>>

FeedStep(f) == WriteTick(f) \/ CloseEnd(f) \/ Exit(f)

-------------------------------------------------------------------------------
(* The parent.                                                             *)

HungUp(f) == feed[f] # "run"
Readable(f) == rcvd[f] < sent[f] \/ HungUp(f)
Reported == {f \in isopen : Readable(f)}

\* poll(), epoll_wait() or kevent() returns events.
Poll ==
    /\ pc = "poll"
    /\ open_fds > 0
    /\ Reported # {}
    /\ ready' = Reported
    /\ hup' = {f \in isopen : HungUp(f)}
    /\ pc' = "scan"
    /\ UNCHANGED <<loop, sent, feed, rcvd, isopen, open_fds, cur, reaped>>

\* It times out, or a signal interrupts it.
PollAgain ==
    /\ pc = "poll"
    /\ open_fds > 0
    /\ Reported = {}
    /\ UNCHANGED vars

FirstWork(f) == "drain"

\* The next slot with something to do.
Slot ==
    /\ pc = "scan"
    /\ \E f \in ready :
           /\ loop = "poll" => f = Min(ready)
           /\ cur' = f
           /\ ready' = ready \ {f}
           /\ pc' = FirstWork(f)
    /\ UNCHANGED <<loop, sent, feed, rcvd, isopen, open_fds, hup, reaped>>

ScanEnds ==
    /\ pc = "scan"
    /\ ready = {}
    /\ pc' = "poll"
    /\ UNCHANGED <<loop, sent, feed, rcvd, isopen, open_fds, cur, ready, hup, reaped>>

\* read() returns some of what there is.
Read ==
    /\ pc = "drain"
    /\ \E n \in 1 .. sent[cur] - rcvd[cur] :
           rcvd' = [rcvd EXCEPT ![cur] = @ + n]
    /\ UNCHANGED <<loop, sent, feed, isopen, open_fds, pc, cur, ready, hup, reaped>>

\* The flags of the report.
WasHup == cur \in hup

\* read() returns 0 or EAGAIN.
Drained ==
    /\ pc = "drain"
    /\ rcvd[cur] = sent[cur]
    /\ pc' = IF WasHup THEN "hup" ELSE "scan"
    /\ UNCHANGED <<loop, sent, feed, rcvd, isopen, open_fds, cur, ready, hup, reaped>>

\* pfd.fd = -1, EPOLL_CTL_DEL or EV_DELETE.
Without(f) == isopen \ {f}

HangUp ==
    /\ pc = "hup"
    /\ isopen' = Without(cur)
    /\ open_fds' = open_fds - 1
    /\ pc' = "wait"
    /\ UNCHANGED <<loop, sent, feed, rcvd, cur, ready, hup, reaped>>

\* waitpid() returns when the child has exited.
Reap ==
    /\ pc = "wait"
    /\ feed[cur] = "exited"
    /\ reaped' = reaped \cup {cur}
    /\ pc' = "scan"
    /\ UNCHANGED <<loop, sent, feed, rcvd, isopen, open_fds, cur, ready, hup>>

LoopEnds ==
    /\ pc = "poll"
    /\ open_fds = 0
    /\ pc' = "done"
    /\ UNCHANGED <<loop, sent, feed, rcvd, isopen, open_fds, cur, ready, hup, reaped>>

ParentStep ==
    Poll \/ PollAgain \/ Slot \/ ScanEnds \/ Read \/ Drained \/ HangUp \/ Reap \/ LoopEnds

\* event_loop of poll, and run_event_loop of epoll and of kqueue.
PollLoop == loop = "poll" /\ ParentStep
EpollLoop == loop = "epoll" /\ ParentStep
KqueueLoop == loop = "kqueue" /\ ParentStep

-------------------------------------------------------------------------------

Parent == PollLoop \/ EpollLoop \/ KqueueLoop

Next == Parent \/ \E f \in Feed : FeedStep(f)

Spec == Init /\ [][Next]_vars

-------------------------------------------------------------------------------
(* Properties.                                                             *)

\* The parent closes a descriptor only when it has read every tick that feed
\* ever wrote, although feeds write and close between the report and the read.
NothingLost == \A f \in Feed \ isopen : rcvd[f] = NTicks

\* The counter that ends the loop agrees with the descriptors, so the loop
\* neither stops with a feed open nor polls an empty set for ever.
CountMatches == open_fds = Cardinality(isopen)

\* The loop ends with every feed read and every child reaped.
Finished == pc = "done" /\ reaped = Feed
================================================================================
