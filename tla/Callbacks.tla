------------------------------- MODULE Callbacks -------------------------------
(***************************************************************************)
(* Code that others registered and that runs later: the handlers of the    *)
(* emitter and the bus of src/lambdas, the slots of the signals of         *)
(* libraries/boost/10, the clean-up of the scope guard of errors/05, and   *)
(* the interceptors of grpc_proto/09, through which every step of a call   *)
(* passes.  Handlers do not call back into the object that fires them, as  *)
(* in the programs: emitting is one step.                                  *)
(***************************************************************************)
EXTENDS Integers, FiniteSets, SequencesExt

CONSTANTS
    Events,    \* events of the emitter
    MaxOn,     \* bound on the handlers registered
    Tokens     \* what the client's interceptor may be made with

VARIABLES
    demo,      \* "emitter", "bus", "signal", "guard" or "call"
    slots,     \* event -> the registered entries, in the order in which they fire
    next_id,   \* handlers registered so far
    live,      \* handlers registered and not taken away, and not blocked
    fired,     \* the event being emitted, and the handlers called in turn
    scoped,    \* handlers that belong to a scoped_connection
    guard,     \* the scope guard and its function
    call       \* the call: its batch, the interceptor it is at, what it carries

vars == <<demo, slots, next_id, live, fired, scoped, guard, call>>

Guard(fn, fail) == [fn |-> fn, fail |-> fail, pc |-> "body", active |-> TRUE, cleaned |-> 0]
Call(token) == [token |-> token, batch |-> 1, at |-> 1, meta |-> {}, status |-> "none", value |-> 0, log |-> <<>>]

Quiet == [event |-> "none", ids |-> <<>>]

Init ==
    /\ demo \in {"emitter", "bus", "signal", "guard", "call"}
    /\ slots = [e \in Events |-> <<>>] /\ next_id = 0
    /\ live = {} /\ fired = Quiet /\ scoped = {}
    /\ guard \in IF demo = "guard"
                 THEN {Guard(fn, fail) : fn \in {"process", "transact"}, fail \in BOOLEAN}
                 ELSE {Guard("process", FALSE)}
    /\ call \in IF demo = "call" THEN {Call(t) : t \in Tokens} ELSE {Call("secret")}

-------------------------------------------------------------------------------
(* Emitter: handlers by event, with ids that are unique over all events.   *)

Entry(g) == [id |-> next_id, group |-> g, blocked |-> FALSE]

on(e) ==
    /\ demo = "emitter" /\ next_id < MaxOn
    /\ slots' = [slots EXCEPT ![e] = Append(@, Entry(0))]
    /\ next_id' = next_id + 1
    /\ live' = live \cup {<<e, next_id>>}
    /\ fired' = Quiet /\ UNCHANGED scoped

\* erase(remove_if(...)).
off(e, id) ==
    /\ demo = "emitter"
    /\ slots' = [slots EXCEPT ![e] = SelectSeq(@, LAMBDA entry : entry.id # id)]
    /\ live' = live \ {<<e, id>>}
    /\ fired' = Quiet /\ UNCHANGED <<next_id, scoped>>

Ids(s) == [k \in DOMAIN s |-> s[k].id]

emit(e) ==
    /\ demo = "emitter"
    /\ fired' = [event |-> e, ids |-> Ids(slots[e])]
    /\ UNCHANGED <<slots, next_id, live, scoped>>

(* EventBus: every handler hears every event.                              *)
bus == CHOOSE e \in Events : TRUE

subscribe ==
    /\ demo = "bus" /\ next_id < MaxOn
    /\ slots' = [slots EXCEPT ![bus] = Append(@, Entry(0))]
    /\ next_id' = next_id + 1
    /\ live' = live \cup {<<bus, next_id>>}
    /\ fired' = Quiet /\ UNCHANGED scoped

publish ==
    /\ demo = "bus"
    /\ fired' = [event |-> bus, ids |-> Ids(slots[bus])]
    /\ UNCHANGED <<slots, next_id, live, scoped>>

(* signals2: a slot joins the end of its group; groups fire in order, and  *)
(* slots connected without a group after all of them.                      *)
Ungrouped == 3

connect(g, scope) ==
    /\ demo = "signal" /\ next_id < MaxOn
    /\ slots' = [slots EXCEPT ![bus] = SelectSeq(@, LAMBDA s : s.group <= g) \o <<Entry(g)>>
                                           \o SelectSeq(@, LAMBDA s : s.group > g)]
    /\ next_id' = next_id + 1
    /\ live' = live \cup {<<bus, next_id>>}
    /\ scoped' = IF scope THEN scoped \cup {next_id} ELSE scoped
    /\ fired' = Quiet

Disconnected(ids) == [slots EXCEPT ![bus] = SelectSeq(@, LAMBDA s : s.id \notin ids)]

disconnect(id) ==
    /\ demo = "signal"
    /\ slots' = Disconnected({id})
    /\ live' = live \ {<<bus, id>>}
    /\ fired' = Quiet /\ UNCHANGED <<next_id, scoped>>

\* The scope of the scoped_connections ends.
leave_scope ==
    /\ demo = "signal"
    /\ slots' = Disconnected(scoped)
    /\ live' = live \ {<<bus, id>> : id \in scoped} /\ scoped' = {}
    /\ fired' = Quiet /\ UNCHANGED next_id

\* shared_connection_block is made, or destroyed.
block(id, b) ==
    /\ demo = "signal"
    /\ \E k \in DOMAIN slots[bus] :
         /\ slots[bus][k].id = id /\ slots[bus][k].blocked # b
         /\ slots' = [slots EXCEPT ![bus][k].blocked = b]
    /\ live' = IF b THEN live \ {<<bus, id>>} ELSE live \cup {<<bus, id>>}
    /\ fired' = Quiet /\ UNCHANGED <<next_id, scoped>>

fire ==
    /\ demo = "signal"
    /\ fired' = [event |-> bus, ids |-> Ids(SelectSeq(slots[bus], LAMBDA s : ~s.blocked))]
    /\ UNCHANGED <<slots, next_id, live, scoped>>

\* The combiner: the sum of what the slots return, here 10 ** id.
Summer(ids) == FoldSeq(LAMBDA id, total : total + 10 ^ id, 0, ids)

Registered ==
    /\ \/ \E e \in Events : on(e) \/ emit(e) \/ \E id \in 0 .. MaxOn - 1 : off(e, id)
       \/ subscribe \/ publish
       \/ \E g \in 0 .. Ungrouped, scope \in BOOLEAN : connect(g, scope)
       \/ \E id \in 0 .. MaxOn - 1 : disconnect(id) \/ \E b \in BOOLEAN : block(id, b)
       \/ leave_scope \/ fire
    /\ UNCHANGED <<demo, guard, call>>

-------------------------------------------------------------------------------
(* ScopeGuard: process() cleans up whatever happens, transact() unless it  *)
(* gets as far as dismiss().                                               *)

dismiss == [guard EXCEPT !.active = FALSE]

ScopeGuard_destructor ==
    /\ guard.pc = "scope_end"
    /\ guard' = [guard EXCEPT !.pc = "end", !.cleaned = @ + (IF guard.active THEN 1 ELSE 0)]

process ==
    /\ guard.fn = "process" /\ guard.pc = "body"
    /\ guard' = [guard EXCEPT !.pc = "scope_end"]

\* The throw skips dismiss().
transact ==
    /\ guard.fn = "transact" /\ guard.pc = "body"
    /\ guard' = [(IF guard.fail THEN guard ELSE dismiss) EXCEPT !.pc = "scope_end"]

Guarded ==
    /\ demo = "guard"
    /\ process \/ transact \/ ScopeGuard_destructor
    /\ UNCHANGED <<demo, slots, next_id, live, fired, scoped, call>>

-------------------------------------------------------------------------------
(* A unary call: batches of hook points, each of which passes through the  *)
(* interceptors of its side, one at a time, if the one before proceeds.    *)

Batch ==
    <<[side |-> "client", hooks |-> {"PRE_SEND_INITIAL_METADATA", "PRE_SEND_MESSAGE", "PRE_SEND_CLOSE"}],
      [side |-> "server", hooks |-> {"POST_RECV_INITIAL_METADATA", "POST_RECV_MESSAGE"}],
      [side |-> "handler", hooks |-> {}],
      [side |-> "server", hooks |-> {"PRE_SEND_INITIAL_METADATA", "PRE_SEND_MESSAGE", "PRE_SEND_STATUS"}],
      [side |-> "client", hooks |-> {"POST_RECV_INITIAL_METADATA", "POST_RECV_MESSAGE", "POST_RECV_STATUS"}]>>

\* The interceptors that main() registers, in the order in which they are made.
Interceptors(side) ==
    CASE side = "client" -> <<"AuthToken">> [] side = "server" -> <<"Logging", "Auth">> [] OTHER -> <<"none">>

Hook(h) == h \in Batch[call.batch].hooks
At(interceptor) ==
    /\ call.batch <= Len(Batch)
    /\ Interceptors(Batch[call.batch].side)[call.at] = interceptor

\* To the next interceptor, and after the last to the next batch.
Proceed(c) ==
    IF c.at < Len(Interceptors(Batch[c.batch].side))
    THEN [c EXCEPT !.at = @ + 1]
    ELSE [c EXCEPT !.at = 1, !.batch = @ + 1]

Logging_Intercept ==
    /\ At("Logging")
    /\ call' = Proceed([call EXCEPT !.log = @ \o SelectSeq(
           <<"PRE_SEND_INITIAL_METADATA", "POST_RECV_MESSAGE", "PRE_SEND_STATUS">>, Hook)])

Auth_Intercept == At("Auth") /\ call' = Proceed(call)

AuthToken_Intercept ==
    /\ At("AuthToken")
    /\ call' = Proceed(IF Hook("PRE_SEND_INITIAL_METADATA")
                       THEN [call EXCEPT !.meta = @ \cup {call.token}] ELSE call)

\* The service looks for the token; the response is filled in when it is right.
GetMetric ==
    /\ At("none")
    /\ call' = Proceed(IF "secret" \in call.meta
                       THEN [call EXCEPT !.status = "OK", !.value = 1]
                       ELSE [call EXCEPT !.status = "UNAUTHENTICATED"])

Intercepted ==
    /\ demo = "call"
    /\ Logging_Intercept \/ Auth_Intercept \/ AuthToken_Intercept \/ GetMetric
    /\ UNCHANGED <<demo, slots, next_id, live, fired, scoped, guard>>

Next == Registered \/ Guarded \/ Intercepted

-------------------------------------------------------------------------------
TypeInv ==
    /\ next_id \in 0 .. MaxOn
    /\ live \subseteq Events \X (0 .. next_id - 1) /\ scoped \subseteq 0 .. next_id - 1
    /\ guard.cleaned \in 0 .. 1 /\ call.batch \in 1 .. Len(Batch) + 1

Finished ==
    CASE demo = "guard" -> guard.pc = "end" [] demo = "call" -> call.batch > Len(Batch) [] OTHER -> TRUE

GroupOf(e, id) == (CHOOSE s \in ToSet(slots[e]) : s.id = id).group

\* What fires for an event are the handlers registered for it and neither taken away
\* nor blocked, each once, in the order of their groups and then of registration
\* ("only id2 fires now", "prints: group 0, group 1, group 2"); so the combined score
\* is the sum over them.
EmitsExactly ==
    fired # Quiet =>
        LET ids == fired.ids
            wanted == {id \in 0 .. next_id - 1 : <<fired.event, id>> \in live}
        IN  /\ ToSet(ids) = wanted
            /\ Summer(ids) = MapThenSumSet(LAMBDA id : 10 ^ id, wanted)
            /\ \A j, k \in DOMAIN ids : j < k =>
                 \/ GroupOf(fired.event, ids[j]) < GroupOf(fired.event, ids[k])
                 \/ GroupOf(fired.event, ids[j]) = GroupOf(fired.event, ids[k]) /\ ids[j] < ids[k]

\* Each function cleans up once on every path but the one that was committed.
CleansUp ==
    guard.pc = "end" =>
        (guard.cleaned = IF guard.fn = "transact" /\ ~guard.fail THEN 0 ELSE 1)

\* The response is there when the call is OK and only then, which is when the token
\* was right; the server's log shows the message before the status.
Authorised ==
    /\ (call.status = "OK") = (call.value = 1)
    /\ call.status # "none" => ((call.status = "OK") = (call.token = "secret"))
    /\ call.batch > Len(Batch) =>
         call.log = <<"POST_RECV_MESSAGE", "PRE_SEND_INITIAL_METADATA", "PRE_SEND_STATUS">>
================================================================================
