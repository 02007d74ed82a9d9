-------------------------------- MODULE GrpcAsync ------------------------------
(***************************************************************************)
(* The asynchronous server of src/grpc_proto/08_grpc_async.cpp: CallData   *)
(* objects driven by the events of one completion queue, worker threads    *)
(* that drain it, a client with N calls in flight and the shutdown.  gRPC  *)
(* itself is modelled from how the program uses it: an event may be taken  *)
(* in any order and by any worker as soon as its operation has completed,  *)
(* even while the worker that started it is still inside Proceed.          *)
(***************************************************************************)
EXTENDS Integers, Sequences, FiniteSets

CONSTANTS
    N,        \* calls the client makes
    Workers   \* threads in drain_queue

Rpcs == 1 .. N

\* Bound: one CallData more than there are calls.
CallDatas == 1 .. N + 1

VARIABLES
    state,       \* CallData -> state_, "none" before new, "deleted" after delete
    req,         \* CallData -> the call it serves, 0 if none
    registered,  \* CallDatas waiting for a call (RequestGetMetric)
    finishing,   \* CallDatas whose Finish has not completed
    cq,          \* events of the queue: <<CallData, ok>>
    todo,        \* worker -> what is left of its Proceed; <<>> in cq->Next
    tag,         \* worker -> the CallData whose Proceed it runs
    fresh,       \* worker -> the CallData it constructs
    sent,        \* calls the client has started
    waiting,     \* calls that have reached the server and are not matched
    answers,     \* call -> how many responses were sent
    arrived,     \* calls whose response is in client_cq
    done,        \* calls the client has collected
    mpc          \* main: "client", "cq", "join" or "end"

server == <<state, req, registered, finishing, cq>>
worker == <<todo, tag, fresh>>
client == <<sent, waiting, answers, arrived, done>>
vars == <<server, worker, client, mpc>>

\* Defect: the next CallData is made last.
ProcessSteps_NewLast == <<"mark", "finish", "new", "register">>

\* What Proceed does with an event in state PROCESS, in order.
ProcessSteps == <<"new", "register", "mark", "finish">>

TypeInv ==
    /\ state \in [CallDatas -> {"none", "CREATE", "PROCESS", "FINISH", "deleted"}]
    /\ req \in [CallDatas -> Rpcs \cup {0}]
    /\ registered \subseteq CallDatas /\ finishing \subseteq CallDatas
    /\ cq \subseteq CallDatas \X BOOLEAN
    /\ todo \in [Workers -> Seq({"proceed", "new", "register", "mark", "finish", "exit"})]
    /\ tag \in [Workers -> CallDatas] /\ fresh \in [Workers -> CallDatas]
    /\ sent \in 0 .. N
    /\ waiting \subseteq Rpcs /\ arrived \subseteq Rpcs /\ done \subseteq Rpcs
    /\ answers \in [Rpcs -> Nat]
    /\ mpc \in {"client", "cq", "join", "end"}

Init ==
    /\ state = [c \in CallDatas |-> IF c = 1 THEN "PROCESS" ELSE "none"]
    /\ req = [c \in CallDatas |-> 0]
    /\ registered = {1}
    /\ finishing = {}
    /\ cq = {}
    /\ todo = [w \in Workers |-> <<>>]
    /\ tag = [w \in Workers |-> 1] /\ fresh = [w \in Workers |-> 1]
    /\ sent = 0
    /\ waiting = {} /\ arrived = {} /\ done = {}
    /\ answers = [r \in Rpcs |-> 0]
    /\ mpc = "client"

-------------------------------------------------------------------------------
(* gRPC.                                                                   *)

\* A call is given to a CallData that asked for one.
Match ==
    /\ mpc = "client"
    /\ \E c \in registered, r \in waiting :
           /\ req' = [req EXCEPT ![c] = r]
           /\ registered' = registered \ {c}
           /\ waiting' = waiting \ {r}
           /\ cq' = cq \cup {<<c, TRUE>>}
    /\ UNCHANGED <<state, finishing, worker, sent, answers, arrived, done, mpc>>

\* A Finish completes: its tag goes to the queue, the response to the client.
SendDone ==
    /\ \E c \in finishing :
           /\ finishing' = finishing \ {c}
           /\ cq' = cq \cup {<<c, TRUE>>}
           /\ arrived' = arrived \cup ({req[c]} \ done)
    /\ UNCHANGED <<state, req, registered, worker, sent, waiting, answers, done, mpc>>

-------------------------------------------------------------------------------
(* The workers.                                                            *)

\* if (ok)
Usable(e) == e[2]

Next_Event(w) ==
    /\ todo[w] = <<>>
    /\ \E e \in cq :
           /\ cq' = cq \ {e}
           /\ tag' = [tag EXCEPT ![w] = e[1]]
           /\ todo' = [todo EXCEPT ![w] = IF Usable(e) THEN <<"proceed">> ELSE <<>>]
    /\ UNCHANGED <<state, req, registered, finishing, fresh, client, mpc>>

\* Next() returns false: the queue is shut down and empty.
Next_End(w) ==
    /\ todo[w] = <<>>
    /\ mpc = "join" /\ cq = {} /\ finishing = {}
    /\ todo' = [todo EXCEPT ![w] = <<"exit">>]
    /\ UNCHANGED <<server, tag, fresh, client, mpc>>

Proceed(w) ==
    /\ todo[w] = <<"proceed">>
    /\ todo' = [todo EXCEPT ![w] =
                   IF state[tag[w]] = "PROCESS" THEN ProcessSteps ELSE <<>>]
    /\ state' = [state EXCEPT ![tag[w]] = IF @ = "PROCESS" THEN @ ELSE "deleted"]
    /\ UNCHANGED <<req, registered, finishing, cq, tag, fresh, client, mpc>>

Doing(w, what) == todo[w] # <<>> /\ Head(todo[w]) = what

\* new CallData: the constructor's Proceed sets state_ ...
New(w) ==
    /\ Doing(w, "new")
    /\ \E c \in CallDatas :
           /\ state[c] = "none" /\ \A d \in 1 .. c - 1 : state[d] # "none"
           /\ state' = [state EXCEPT ![c] = "PROCESS"]
           /\ fresh' = [fresh EXCEPT ![w] = c]
    /\ todo' = [todo EXCEPT ![w] = Tail(@)]
    /\ UNCHANGED <<req, registered, finishing, cq, tag, client, mpc>>

\* ... and then calls RequestGetMetric, which a server that is shut down
\* answers at once with ok = false.
Register(w) ==
    /\ Doing(w, "register")
    /\ IF mpc = "client"
       THEN registered' = registered \cup {fresh[w]} /\ UNCHANGED cq
       ELSE cq' = cq \cup {<<fresh[w], FALSE>>} /\ UNCHANGED registered
    /\ todo' = [todo EXCEPT ![w] = Tail(@)]
    /\ UNCHANGED <<state, req, finishing, tag, fresh, client, mpc>>

\* state_ = FINISH
Mark(w) ==
    /\ Doing(w, "mark")
    /\ state' = [state EXCEPT ![tag[w]] = "FINISH"]
    /\ todo' = [todo EXCEPT ![w] = Tail(@)]
    /\ UNCHANGED <<req, registered, finishing, cq, tag, fresh, client, mpc>>

\* responder_.Finish(resp, OK, this)
Finish(w) ==
    /\ Doing(w, "finish")
    /\ finishing' = finishing \cup {tag[w]}
    /\ answers' = [answers EXCEPT ![req[tag[w]]] = @ + 1]
    /\ todo' = [todo EXCEPT ![w] = Tail(@)]
    /\ UNCHANGED <<state, req, registered, cq, tag, fresh, sent, waiting, arrived, done, mpc>>

-------------------------------------------------------------------------------
(* The client thread and main.                                             *)

\* Defect: i <= N in the loop.
Client_Send_OneMore ==
    /\ sent <= N
    /\ sent' = sent + 1
    /\ waiting' = waiting \cup {sent + 1}
    /\ UNCHANGED <<server, worker, answers, arrived, done, mpc>>

\* AsyncGetMetric and Finish for the next call.
Client_Send ==
    /\ sent < N
    /\ sent' = sent + 1
    /\ waiting' = waiting \cup {sent + 1}
    /\ UNCHANGED <<server, worker, answers, arrived, done, mpc>>

\* client_cq.Next()
Client_Collect ==
    /\ sent = N
    /\ \E r \in arrived :
           /\ arrived' = arrived \ {r}
           /\ done' = done \cup {r}
    /\ UNCHANGED <<server, worker, sent, waiting, answers, mpc>>

\* client.join(); server->Shutdown() waits for the calls that it has started
\* and completes the requests for new ones with ok = false.
Main_ServerShutdown ==
    /\ mpc = "client"
    /\ done = Rpcs
    /\ finishing = {}
    /\ cq' = cq \cup (registered \X {FALSE})
    /\ registered' = {}
    /\ mpc' = "cq"
    /\ UNCHANGED <<state, req, finishing, worker, client>>

Main_CqShutdown ==
    /\ mpc = "cq"
    /\ mpc' = "join"
    /\ UNCHANGED <<server, worker, client>>

Main_Join ==
    /\ mpc = "join"
    /\ \A w \in Workers : todo[w] = <<"exit">>
    /\ mpc' = "end"
    /\ UNCHANGED <<server, worker, client>>

-------------------------------------------------------------------------------

WorkerStep(w) ==
    \/ Next_Event(w) \/ Next_End(w) \/ Proceed(w)
    \/ New(w) \/ Register(w) \/ Mark(w) \/ Finish(w)

ClientStep == Client_Send \/ Client_Collect

MainStep == Main_ServerShutdown \/ Main_CqShutdown \/ Main_Join

Next == Match \/ SendDone \/ ClientStep \/ MainStep \/ \E w \in Workers : WorkerStep(w)

Spec == Init /\ [][Next]_vars

-------------------------------------------------------------------------------
(* Properties.                                                             *)

\* "safe to delete": no worker is inside Proceed of a CallData that another
\* worker has deleted, and the queue holds no event of one.
NoUseAfterDelete ==
    /\ \A w \in Workers :
          todo[w] # <<>> /\ todo[w] # <<"exit">> /\ Head(todo[w]) \in {"proceed", "mark", "finish"}
              => state[tag[w]] # "deleted"
    /\ \A e \in cq : state[e[1]] # "deleted"

\* Every call gets at most one response, whichever workers take its events.
AnsweredOnce == \A r \in Rpcs : answers[r] <= 1

\* Asking for a call after the queue was shut down is a fatal error in gRPC:
\* by then no worker is between new and RequestGetMetric.
NoRequestAfterShutdown ==
    mpc \in {"join", "end"} =>
        \A w \in Workers : ~Doing(w, "new") /\ ~Doing(w, "register")

\* When the program ends, the CallDatas of all the calls have been deleted, and
\* the one that was still waiting for a call has not.
OneLeftAtEnd ==
    mpc = "end" => {c \in CallDatas : state[c] \notin {"none", "deleted"}} = {N + 1}

\* All calls are answered and both workers leave the queue.
Finished == mpc = "end" /\ done = Rpcs
================================================================================
