-------------------------------- MODULE GrpcCalls ------------------------------
(***************************************************************************)
(* The synchronous calls of src/grpc_proto: unary (04), server streaming   *)
(* (05), client streaming (06), bidirectional streaming (07), and a        *)
(* deadline and a cancellation (10).  Each behaviour is one of them; the   *)
(* handler, the client and, for the bidirectional one, its reader thread   *)
(* interleave.  gRPC is modelled from how the programs use it: a stream is *)
(* a queue of at most Window messages each way, a write to a full one      *)
(* blocks, the connection may break at any time, and a call that the       *)
(* client has given up is noticed by the server some time later.           *)
(***************************************************************************)
EXTENDS Integers, Sequences, FiniteSets

CONSTANTS
    Window,     \* messages in flight each way
    Work,       \* chunks of work in the slow unary handler (20 in the source)
    MaxPoints   \* bound on the points of the endless stream

Kinds == {"unary", "bad_unary", "server", "client", "bidi", "deadline", "cancel"}

Endless == -1

\* The requests of each demo: whether there is a name, and the limit field.
Requests(k) ==
    CASE k = "unary"     -> <<[named |-> TRUE, limit |-> 0]>>
      [] k = "bad_unary" -> <<[named |-> FALSE, limit |-> 0]>>
      [] k = "server"    -> <<[named |-> TRUE, limit |-> 5]>>
      [] k = "client"    -> [j \in 1 .. 5 |-> [named |-> j # 4, limit |-> 0]]
      [] k = "bidi"      -> <<[named |-> TRUE, limit |-> 3], [named |-> TRUE, limit |-> 2]>>
      [] k = "deadline"  -> <<[named |-> TRUE, limit |-> 0]>>
      [] k = "cancel"    -> <<[named |-> TRUE, limit |-> 0]>>

\* How many responses a handler writes for a request.
Responses(k, r) ==
    CASE k \in {"unary", "deadline"} -> 1
      [] k \in {"bad_unary", "client"} -> 0
      [] k = "server" -> IF r.limit > 0 THEN r.limit ELSE 10
      [] k = "bidi"   -> IF r.limit > 0 THEN r.limit ELSE 3
      [] k = "cancel" -> Endless

\* The request of a call that is not a stream of requests goes with the call.
StreamsUp(k) == k \in {"client", "bidi"}

VARIABLES
    kind,
    up,        \* requests on their way, by number
    upDone,    \* WritesDone was called
    down,      \* responses on their way: <<request, index>>
    hpc,       \* handler: "read", "check", "write" or "returned"
    r,         \* handler: number of the request it serves
    i,         \* handler: loop counter
    accepted,  \* handler: counters of BatchWrite
    rejected,
    cancelled, \* IsCancelled()
    wi,        \* client: requests written
    wpc,       \* client: "write", "read" (joined or sequential) or "done"
    rdone,     \* client: Read has returned false
    got,       \* client: responses read
    trailer,   \* the status the handler returned, "none" before
    status,    \* the status at the client, "none" before it is there
    broken     \* the connection is gone

handler == <<hpc, r, i, accepted, rejected>>
client == <<wi, wpc, rdone, got>>
vars == <<kind, up, upDone, down, handler, cancelled, client, trailer, status, broken>>

Statuses == {"none", "OK", "INVALID_ARGUMENT", "CANCELLED", "DEADLINE_EXCEEDED", "UNAVAILABLE"}

TypeInv ==
    /\ kind \in Kinds
    /\ Len(up) <= Window /\ Len(down) <= Window
    /\ upDone \in BOOLEAN /\ cancelled \in BOOLEAN /\ broken \in BOOLEAN /\ rdone \in BOOLEAN
    /\ hpc \in {"read", "check", "write", "returned"}
    /\ r \in 0 .. Len(Requests(kind)) /\ i \in 0 .. MaxPoints
    /\ accepted \in Nat /\ rejected \in Nat
    /\ wi \in 0 .. Len(Requests(kind)) /\ wpc \in {"write", "read", "done"}
    /\ status \in Statuses /\ trailer \in {"none", "OK", "INVALID_ARGUMENT", "CANCELLED"}

Init ==
    /\ kind \in Kinds
    /\ up = (IF StreamsUp(kind) THEN <<>> ELSE <<1>>)
    /\ upDone = ~StreamsUp(kind)
    /\ down = <<>>
    /\ hpc = "read" /\ r = 0 /\ i = 0 /\ accepted = 0 /\ rejected = 0
    /\ cancelled = FALSE
    /\ wi = (IF StreamsUp(kind) THEN 0 ELSE 1)
    /\ wpc = (IF StreamsUp(kind) THEN "write" ELSE "read")
    /\ rdone = FALSE
    /\ got = <<>>
    /\ trailer = "none" /\ status = "none"
    /\ broken = FALSE

-------------------------------------------------------------------------------
(* The handlers.                                                           *)

Total == Responses(kind, Requests(kind)[r])

Return(s) == hpc' = "returned" /\ trailer' = s

\* Nobody is left to receive what the handler writes.
Gone == broken \/ status # "none"

Net == <<kind, up, upDone, cancelled, status, broken>>

Post(msg) == down' = IF Gone THEN down ELSE Append(down, msg)

\* Read returns true, or the handler is called with its request.
Take == up # <<>> /\ r' = Head(up) /\ up' = Tail(up)

\* Read returns false: the client has finished writing, or is gone.
NoMore == up = <<>> /\ (upDone \/ cancelled)

\* GetMetric of 04: the response goes with the status.
GetMetric ==
    /\ kind \in {"unary", "bad_unary"} /\ hpc = "read"
    /\ Take
    /\ IF Requests(kind)[r'].named
       THEN Post(<<r', 1>>) /\ Return("OK")
       ELSE UNCHANGED down /\ Return("INVALID_ARGUMENT")
    /\ UNCHANGED <<kind, upDone, i, accepted, rejected, cancelled, client, status, broken>>

\* Points without a name are rejected.
Tally(named) ==
    IF named
    THEN accepted' = accepted + 1 /\ rejected' = rejected
    ELSE rejected' = rejected + 1 /\ accepted' = accepted

BatchWrite_Read ==
    /\ kind = "client" /\ hpc = "read"
    /\ Take
    /\ Tally(Requests(kind)[r'].named)
    /\ UNCHANGED <<kind, upDone, down, hpc, i, cancelled, client, trailer, status, broken>>

BatchWrite_End ==
    /\ kind = "client" /\ hpc = "read"
    /\ NoMore
    /\ Return("OK")
    /\ UNCHANGED <<Net, down, r, i, accepted, rejected, client>>

\* The stream and the slow call begin with their loop counter at 0.
StartLoop ==
    /\ kind \in {"server", "cancel", "deadline"} /\ hpc = "read"
    /\ Take
    /\ i' = 0
    /\ hpc' = "check"
    /\ UNCHANGED <<kind, upDone, down, accepted, rejected, cancelled, client, trailer, status, broken>>

\* The top of the loop of StreamMetrics in 05.
StreamMetrics_Check ==
    /\ kind = "server" /\ hpc = "check"
    /\ IF i = Total THEN Return("OK")
       ELSE IF cancelled THEN Return("CANCELLED")
       ELSE hpc' = "write" /\ UNCHANGED trailer
    /\ UNCHANGED <<Net, down, r, i, accepted, rejected, client>>

\* The top of the loop of the endless StreamMetrics in 10.
Endless_Check ==
    /\ kind = "cancel" /\ hpc = "check"
    /\ IF cancelled THEN Return("CANCELLED") ELSE hpc' = "write" /\ UNCHANGED trailer
    /\ UNCHANGED <<Net, down, r, i, accepted, rejected, client>>

\* The slow GetMetric of 10: a chunk of work, or the response.
SlowGetMetric ==
    /\ kind = "deadline" /\ hpc = "check"
    /\ IF i = Work THEN Post(<<r, 1>>) /\ Return("OK") /\ UNCHANGED i
       ELSE IF cancelled THEN Return("CANCELLED") /\ UNCHANGED <<i, down>>
       ELSE i' = i + 1 /\ UNCHANGED <<hpc, trailer, down>>
    /\ UNCHANGED <<Net, r, accepted, rejected, client>>

\* Write returns true.
WriteOk ==
    /\ ~cancelled
    /\ Gone \/ Len(down) < Window
    /\ i < MaxPoints
    /\ Post(<<r, i + 1>>)
    /\ i' = i + 1

StreamMetrics_Write ==
    /\ kind \in {"server", "cancel"} /\ hpc = "write"
    /\ WriteOk
    /\ hpc' = "check"
    /\ UNCHANGED <<Net, r, accepted, rejected, client, trailer>>

\* Write returns false: break, and return OK.
StreamMetrics_Broken ==
    /\ kind \in {"server", "cancel"} /\ hpc = "write"
    /\ cancelled
    /\ Return("OK")
    /\ UNCHANGED <<Net, down, r, i, accepted, rejected, client>>

Monitor_Read ==
    /\ kind = "bidi" /\ hpc = "read"
    /\ Take
    /\ i' = 0
    /\ IF cancelled THEN Return("OK") ELSE hpc' = "write" /\ UNCHANGED trailer
    /\ UNCHANGED <<kind, upDone, down, accepted, rejected, cancelled, client, status, broken>>

\* i < n fails.
AllWritten == i >= Total

Monitor_Write ==
    /\ kind = "bidi" /\ hpc = "write"
    /\ IF AllWritten
       THEN hpc' = "read" /\ UNCHANGED <<down, i, trailer>>
       ELSE \/ WriteOk /\ UNCHANGED <<hpc, trailer>>
            \/ cancelled /\ Return("OK") /\ UNCHANGED <<down, i>>
    /\ UNCHANGED <<Net, r, accepted, rejected, client>>

Monitor_End ==
    /\ kind = "bidi" /\ hpc = "read"
    /\ NoMore
    /\ Return("OK")
    /\ UNCHANGED <<Net, down, r, i, accepted, rejected, client>>

-------------------------------------------------------------------------------
(* The clients.                                                            *)

MoreToWrite == wi < Len(Requests(kind))

C_Write ==
    /\ wpc = "write" /\ MoreToWrite
    /\ broken \/ Len(up) < Window
    /\ trailer = "none" \/ broken
    /\ up' = IF broken THEN up ELSE Append(up, wi + 1)
    /\ wi' = wi + 1
    /\ UNCHANGED <<kind, upDone, down, handler, cancelled, wpc, rdone, got, trailer, status, broken>>

\* Defect: WritesDone() is left out.
C_WritesDone_Missing ==
    /\ wpc = "write"
    /\ ~MoreToWrite \/ broken
    /\ wpc' = "read"
    /\ UNCHANGED <<kind, up, upDone, down, handler, cancelled, wi, rdone, got, trailer, status, broken>>

\* The loop is over, or Write has returned false.
C_WritesDone ==
    /\ wpc = "write"
    /\ ~MoreToWrite \/ broken
    /\ upDone' = TRUE
    /\ wpc' = "read"
    /\ UNCHANGED <<kind, up, down, handler, cancelled, wi, rdone, got, trailer, status, broken>>

\* The bidirectional client reads in a thread of its own.
MayRead == ~rdone /\ (kind = "bidi" \/ (kind # "client" /\ wpc = "read"))

\* Read returns true.
C_Read ==
    /\ MayRead /\ down # <<>>
    /\ kind = "cancel" => Len(got) # 1
    /\ got' = Append(got, Head(down))
    /\ down' = Tail(down)
    /\ UNCHANGED <<kind, up, upDone, handler, cancelled, wi, wpc, rdone, trailer, status, broken>>

\* The demo of 10 cancels after the second point; what is behind it may still
\* be read, or not.
C_ReadAndCancel ==
    /\ kind = "cancel" /\ MayRead /\ down # <<>>
    /\ Len(got) = 1
    /\ got' = Append(got, Head(down))
    /\ status' = IF status = "none" THEN "CANCELLED" ELSE status
    /\ \E k \in 1 .. Len(down) : down' = SubSeq(down, 2, k)
    /\ UNCHANGED <<kind, up, upDone, handler, cancelled, wi, wpc, rdone, trailer, broken>>

StreamOver == down = <<>> /\ (Gone \/ trailer # "none")

\* Read returns false.
C_ReadEnd ==
    /\ MayRead /\ StreamOver
    /\ rdone' = TRUE
    /\ UNCHANGED <<kind, up, upDone, down, handler, cancelled, wi, wpc, got, trailer, status, broken>>

\* The reader is joined and Finish() returns the status.
C_Finish ==
    /\ wpc = "read" /\ (rdone \/ kind = "client")
    /\ Gone \/ trailer # "none"
    /\ status' = IF status = "none" THEN trailer ELSE status
    /\ wpc' = "done"
    /\ UNCHANGED <<kind, up, upDone, down, handler, cancelled, wi, rdone, got, trailer, broken>>

-------------------------------------------------------------------------------
(* gRPC and the network.                                                   *)

\* The client's deadline passes: the call is over for it.
Deadline ==
    /\ kind = "deadline" /\ status = "none" /\ wpc = "read"
    /\ status' = "DEADLINE_EXCEEDED"
    /\ UNCHANGED <<kind, up, upDone, down, handler, cancelled, client, trailer, broken>>

\* The connection breaks; messages that were on their way may be lost.
Break ==
    /\ ~broken /\ wpc # "done" /\ status = "none"
    /\ broken' = TRUE
    /\ status' = "UNAVAILABLE"
    /\ \E k \in 0 .. Len(down) : down' = SubSeq(down, 1, k)
    /\ \E k \in 0 .. Len(up) : up' = SubSeq(up, 1, k)
    /\ UNCHANGED <<kind, upDone, handler, cancelled, client, trailer>>

\* The server learns that the client has gone.
Notice ==
    /\ status \in {"CANCELLED", "DEADLINE_EXCEEDED", "UNAVAILABLE"}
    /\ hpc # "returned" /\ ~cancelled
    /\ cancelled' = TRUE
    /\ UNCHANGED <<kind, up, upDone, down, handler, client, trailer, status, broken>>

-------------------------------------------------------------------------------

Handler ==
    \/ GetMetric \/ StartLoop \/ SlowGetMetric
    \/ BatchWrite_Read \/ BatchWrite_End
    \/ StreamMetrics_Check \/ Endless_Check \/ StreamMetrics_Write \/ StreamMetrics_Broken
    \/ Monitor_Read \/ Monitor_Write \/ Monitor_End

Writer == C_Write \/ C_WritesDone \/ C_Finish

Reader == C_Read \/ C_ReadAndCancel \/ C_ReadEnd

Next == Handler \/ Writer \/ Reader \/ Deadline \/ Break \/ Notice

Spec == Init /\ [][Next]_vars

-------------------------------------------------------------------------------
(* Properties.                                                             *)

\* Responses are read in the order in which the handler wrote them, those of
\* one request before those of the next, without a gap.
InOrder ==
    \A n \in 1 .. Len(got) :
        \/ n = 1 /\ got[n] = <<1, 1>>
        \/ n > 1 /\ got[n] = <<got[n-1][1], got[n-1][2] + 1>>
        \/ /\ n > 1 /\ got[n] = <<got[n-1][1] + 1, 1>>
           /\ got[n-1][2] = Responses(kind, Requests(kind)[got[n-1][1]])

\* s.ok(): a client that is told OK has everything, although the handlers also
\* return OK when a Write fails or the stream breaks off; the endless stream
\* that it cancels is never reported as OK.
OkMeansAll ==
    wpc = "done" /\ status = "OK" =>
        IF kind = "client"
        THEN accepted = 4 /\ rejected = 1
        ELSE LET last == Len(Requests(kind)) IN
             /\ got # <<>>
             /\ got[Len(got)] = <<last, Responses(kind, Requests(kind)[last])>>

\* The handler has returned, or its request was lost before it was called.
HandlerDone == hpc = "returned" \/ (~StreamsUp(kind) /\ hpc = "read" /\ up = <<>>)

\* The call ends for the client, and the handler returns: server->Shutdown()
\* does not hang, not even on the endless stream.
Finished == wpc = "done" /\ HandlerDone
================================================================================
