-------------------------------- MODULE WhenAll --------------------------------
(***************************************************************************)
(* src/coroutines/09_when_all.cpp: when_all() starts its tasks on a thread *)
(* pool, each in a wrapper coroutine that stores the result and counts     *)
(* down, and the last one resumes the parent.                              *)
(*                                                                         *)
(* A task finishes on the thread that starts it ("inline") or hops to the  *)
(* pool first, as fetch_int and fetch_str do ("hop"); then the wrapper's   *)
(* sync_wait() returns early, and the wrapper and its task are destroyed   *)
(* with the posted function.  What runs on in a destroyed frame may find   *)
(* its old contents or crash, and resuming a null handle crashes.          *)
(* Waiting on the pool's condition variable is left out (see ThreadPool).  *)
(* (The file instantiates Task<void>, whose promise has a member of type   *)
(* void; the model reads it as a task without a result.)                   *)
(***************************************************************************)
EXTENDS Integers, FiniteSetTheorems, SequenceTheorems, TLAPS

CONSTANTS NChild, Worker

Child == 1 .. NChild

VARIABLES
    kind,                \* [Child -> "inline" or "hop"]
    remaining, parent,   \* the members of WhenAllContext
    out,                 \* children whose result has been stored
    q_,                  \* posted functions: [job, child]
    fn,                  \* [Worker -> the function it runs, and where it is in it]
    wrapper,             \* [Child -> the frames of its wrapper and of its task]
    ppc,                 \* the parent coroutine
    exited,              \* workers that have returned from worker()
    mpc                  \* main()

vars == <<kind, remaining, parent, out, q_, fn, wrapper, ppc, exited, mpc>>

Job == [job : {"start", "resume"}, child : Child]
Idle == [job |-> "none", child |-> 0, at |-> "run"]

TypeInv ==
    /\ remaining \in 0 .. NChild /\ parent \in {"null", "set"}
    /\ out \subseteq Child
    /\ q_ \in Seq(Job)
    /\ fn \in [Worker -> {Idle} \cup [job : {"start", "resume"}, child : Child,
                                      at : {"run", "store", "notify", "parent", "end"}]]
    /\ wrapper \in [Child -> {"none", "alive", "dead"}]
    /\ ppc \in {"running", "suspended", "return"}
    /\ exited \subseteq Worker
    /\ mpc \in {"launch", "ready", "suspend", "read", "destroy", "join", "end", "crashed"}

Init ==
    /\ kind \in [Child -> {"inline", "hop"}]
    /\ remaining = NChild /\ parent = "null" /\ out = {}
    /\ q_ = <<>> /\ fn = [w \in Worker |-> Idle] /\ exited = {}
    /\ wrapper = [c \in Child |-> "none"]
    /\ ppc = "running" /\ mpc = "launch"

-------------------------------------------------------------------------------
(* main(), which runs when_all() until its co_await.                       *)

post(job, c) == q_' = Append(q_, [job |-> job, child |-> c])

\* The fold over the tasks: a wrapper is made and posted.
Launch(c) ==
    /\ mpc = "launch"
    /\ wrapper[c] = "none" /\ \A d \in 1 .. c - 1 : wrapper[d] # "none"
    /\ wrapper' = [wrapper EXCEPT ![c] = "alive"]
    /\ post("start", c)
    /\ mpc' = IF c = NChild THEN "ready" ELSE mpc
    /\ UNCHANGED <<kind, remaining, parent, out, fn, ppc, exited>>

\* await_ready(): the parent goes on to co_return, or suspends ...
AwaitReady ==
    /\ mpc = "ready"
    /\ \/ remaining = 0 /\ ppc' = "return" /\ mpc' = "read"
       \/ remaining # 0 /\ mpc' = "suspend" /\ UNCHANGED ppc
    /\ UNCHANGED <<kind, remaining, parent, out, q_, fn, wrapper, exited>>

\* ... and only now await_suspend() lets the children know its handle.
AwaitSuspend ==
    /\ mpc = "suspend"
    /\ parent' = "set" /\ ppc' = "suspended" /\ mpc' = "read"
    /\ UNCHANGED <<kind, remaining, out, q_, fn, wrapper, exited>>

\* sync_wait() takes what is in the promise, the Task destroys the frame with the
\* context and the results in it, and the pool's destructor stops and joins.
Leave(from, to) ==
    /\ mpc = from /\ mpc' = to
    /\ to = "end" => exited = Worker
    /\ UNCHANGED <<kind, remaining, parent, out, q_, fn, wrapper, ppc, exited>>

Main_Step ==
    \/ \E c \in Child : Launch(c)
    \/ AwaitReady \/ AwaitSuspend
    \/ Leave("read", "destroy") \/ Leave("destroy", "join") \/ Leave("join", "end")

-------------------------------------------------------------------------------
(* worker()                                                                *)

At(w, place) == fn[w].job # "none" /\ fn[w].at = place
GoTo(w, place) == fn' = [fn EXCEPT ![w].at = place]

Take(w) ==
    /\ fn[w].job = "none" /\ q_ # <<>>
    /\ fn' = [fn EXCEPT ![w] = [job |-> Head(q_).job, child |-> Head(q_).child, at |-> "run"]]
    /\ q_' = Tail(q_)
    /\ UNCHANGED <<kind, remaining, parent, out, wrapper, ppc, exited, mpc>>

\* The wrapper is started and starts its task, which finishes or posts its handle;
\* or the handle is resumed here, and the task finishes.
Run(w) ==
    /\ At(w, "run")
    /\ \/ /\ fn[w].job = "start" /\ kind[fn[w].child] = "hop"
          /\ post("resume", fn[w].child)
          /\ GoTo(w, "end")
       \/ /\ fn[w].job = "resume" \/ kind[fn[w].child] = "inline"
          /\ GoTo(w, "store")
          /\ UNCHANGED q_
    /\ UNCHANGED <<kind, remaining, parent, out, wrapper, ppc, exited, mpc>>

\* The task's final awaiter goes to the wrapper: out = ...
StoreResult(w) ==
    /\ At(w, "store")
    /\ out' = out \cup {fn[w].child}
    /\ GoTo(w, "notify")
    /\ UNCHANGED <<kind, remaining, parent, q_, wrapper, ppc, exited, mpc>>

\* notify(): one atomic decrement decides who is last.
Notify(w) ==
    /\ At(w, "notify")
    /\ remaining' = remaining - 1
    /\ GoTo(w, IF remaining = 1 THEN "parent" ELSE "end")
    /\ UNCHANGED <<kind, parent, out, q_, wrapper, ppc, exited, mpc>>

\* parent.resume(): the parent runs to its end in this thread, or there is no handle.
ResumeParent(w) ==
    /\ At(w, "parent")
    /\ \/ parent = "set" /\ ppc' = "return" /\ GoTo(w, "end") /\ UNCHANGED mpc
       \/ parent = "null" /\ mpc' = "crashed" /\ UNCHANGED <<ppc, fn>>
    /\ UNCHANGED <<kind, remaining, parent, out, q_, wrapper, exited>>

\* The function is destroyed, and with the lambda of when_all() the wrapper.
Drop(w) ==
    /\ At(w, "end")
    /\ wrapper' = IF fn[w].job = "start" THEN [wrapper EXCEPT ![fn[w].child] = "dead"]
                                         ELSE wrapper
    /\ fn' = [fn EXCEPT ![w] = Idle]
    /\ UNCHANGED <<kind, remaining, parent, out, q_, ppc, exited, mpc>>

\* A task that runs in a destroyed frame, or uses the parent's, may crash.
TouchesFreed(w) ==
    /\ fn[w].job # "none" /\ fn[w].at # "end"
    /\ \/ wrapper[fn[w].child] = "dead"
       \/ fn[w].at \in {"store", "notify", "parent"} /\ mpc \in {"join", "end"}
    /\ mpc' = "crashed"
    /\ UNCHANGED <<kind, remaining, parent, out, q_, fn, wrapper, ppc, exited>>

WorkerExit(w) ==
    /\ w \notin exited /\ fn[w].job = "none" /\ mpc = "join" /\ q_ = <<>>
    /\ exited' = exited \cup {w}
    /\ UNCHANGED <<kind, remaining, parent, out, q_, fn, wrapper, ppc, mpc>>

Worker_Step(w) ==
    /\ mpc # "crashed" /\ w \notin exited
    /\ \/ Take(w) \/ Run(w) \/ StoreResult(w) \/ Notify(w) \/ ResumeParent(w)
       \/ Drop(w) \/ TouchesFreed(w) \/ WorkerExit(w)

Next == Main_Step \/ \E w \in Worker : Worker_Step(w)

Spec == Init /\ [][Next]_vars

-------------------------------------------------------------------------------
(* Properties.                                                             *)

\* "resume the parent only after all have completed": the parent never gets past
\* co_await while a child's result is missing.
ResultsComplete == ppc = "return" => out = Child

\* One child at most takes itself for the last one, whatever the order of the
\* decrements, and then every result is stored and no decrement is to come.
OneResumer ==
    \A w \in Worker : At(w, "parent") =>
        /\ remaining = 0 /\ out = Child
        /\ \A x \in Worker \ {w} : ~At(x, "parent") /\ ~At(x, "notify")

\* main() returns and the pool is joined, or the process has crashed.
Finished == mpc \in {"end", "crashed"}

-------------------------------------------------------------------------------
(* Proofs, for every number of tasks and threads.                          *)

\* Children that have not counted down: not launched, posted, or run by a worker.
Busy(w) == fn[w].job # "none" /\ fn[w].at \in {"run", "store", "notify"}
Queued(c) == \E k \in 1 .. Len(q_) : q_[k].child = c
Held(c) == \E w \in Worker : Busy(w) /\ fn[w].child = c
Unnotified == {c \in Child : wrapper[c] = "none" \/ Queued(c) \/ Held(c)}

\* A child is in one of these places at a time.
Places ==
    /\ \A j, k \in 1 .. Len(q_) : q_[j].child = q_[k].child => j = k
    /\ \A k \in 1 .. Len(q_) : wrapper[q_[k].child] # "none"
    /\ \A w \in Worker : fn[w].job # "none" => wrapper[fn[w].child] # "none"
    /\ \A w \in Worker, k \in 1 .. Len(q_) : Busy(w) => q_[k].child # fn[w].child
    /\ \A w, x \in Worker : Busy(w) /\ Busy(x) /\ fn[w].child = fn[x].child => w = x

\* remaining counts them, and the others have stored their results.
Counted ==
    /\ remaining = Cardinality(Unnotified)
    /\ \A c \in Child : c \in out \/ c \in Unnotified
    /\ \A w \in Worker : At(w, "notify") => fn[w].child \in out

Resumed ==
    /\ \A w \in Worker : At(w, "parent") => remaining = 0
    /\ \A w, x \in Worker : At(w, "parent") /\ At(x, "parent") => w = x
    /\ ppc = "return" => remaining = 0

WhenAllInv == TypeInv /\ Places /\ Counted /\ Resumed

\* What post() has queued is a function for one of the children.
LEMMA InQueue ==
  ASSUME WhenAllInv, NEW k \in 1 .. Len(q_)
  PROVE  q_[k] \in Job /\ q_[k].child \in Child
<1>1. q_[k] \in Job
  BY ElementOfSeq DEF WhenAllInv, TypeInv
<1> QED
  BY <1>1 DEF Job

\* A set of children is finite and no larger than their number.
LEMMA Few ==
  ASSUME NChild \in Nat, NEW S \in SUBSET Child
  PROVE  IsFiniteSet(S) /\ Cardinality(S) \in 0 .. NChild
<1>1. IsFiniteSet(Child) /\ Cardinality(Child) = NChild
  BY FS_Interval DEF Child
<1> QED
  BY <1>1, FS_Subset, FS_CardinalityType

\* WhenAllContext starts with one count for each child, none of which is launched.
LEMMA WhenAllInit == ASSUME NChild \in Nat, Init PROVE WhenAllInv
<1>1. Unnotified = Child
  BY DEF Init, Unnotified
<1>2. Cardinality(Child) = NChild
  BY FS_Interval DEF Child
<1>3. TypeInv
  BY DEF Init, TypeInv, Idle
<1>4. Places
  BY DEF Init, Places, Idle, Busy
<1>5. Counted /\ Resumed
  BY <1>1, <1>2 DEF Init, Counted, Resumed, At, Idle
<1> QED
  BY <1>3, <1>4, <1>5 DEF WhenAllInv

\* A step that moves a child from one place to another counts nothing.
LEMMA Moved ==
  ASSUME WhenAllInv, Unnotified' = Unnotified, UNCHANGED <<remaining, ppc>>,
         out \subseteq out',
         \A w \in Worker : At(w, "notify")' => fn'[w].child \in out',
         \A w \in Worker : At(w, "parent")' => At(w, "parent")
  PROVE  Counted' /\ Resumed'
  BY DEF WhenAllInv, Counted, Resumed

\* When no function is posted or taken, no child comes to a worker, and what a worker
\* runs is for the same child as before, every child is still in one place.
LEMMA PlacesKept ==
  ASSUME WhenAllInv, UNCHANGED q_,
         \A d \in Child : wrapper[d] # "none" => wrapper'[d] # "none",
         \A x \in Worker : fn'[x].job # "none" => fn[x].job # "none" /\ fn'[x].child = fn[x].child,
         \A x \in Worker : Busy(x)' => Busy(x)
  PROVE  Places'
<1>1. \A x \in Worker : Busy(x)' => fn'[x].child = fn[x].child
  BY DEF Busy
<1>2. \A x \in Worker : fn[x].job # "none" => fn[x].child \in Child
  BY DEF WhenAllInv, TypeInv, Idle
<1>3. \A k \in 1 .. Len(q_) : wrapper'[q_[k].child] # "none"
  BY InQueue DEF WhenAllInv, Places
<1>4. \A x \in Worker : fn'[x].job # "none" => wrapper'[fn'[x].child] # "none"
  BY <1>2 DEF WhenAllInv, Places
<1>5. \A x \in Worker, k \in 1 .. Len(q_) : Busy(x)' => q_[k].child # fn'[x].child
  BY <1>1 DEF WhenAllInv, Places
<1>6. \A x, y \in Worker : Busy(x)' /\ Busy(y)' /\ fn'[x].child = fn'[y].child => x = y
  BY <1>1 DEF WhenAllInv, Places
<1> QED
  BY <1>3, <1>4, <1>5, <1>6 DEF WhenAllInv, Places

\* When the busy workers are the same, too, with the same children, the same children
\* have still to count down.
LEMMA UnnotifiedKept ==
  ASSUME UNCHANGED q_,
         \A d \in Child : wrapper'[d] = "none" <=> wrapper[d] = "none",
         \A x \in Worker : Busy(x)' <=> Busy(x),
         \A x \in Worker : Busy(x) => fn'[x].child = fn[x].child
  PROVE  Unnotified' = Unnotified
<1>1. \A d \in Child : Held(d)' <=> Held(d)
  BY DEF Held
<1>2. \A d \in Child : Queued(d)' <=> Queued(d)
  BY DEF Queued
<1> QED
  BY <1>1, <1>2 DEF Unnotified

\* A step that leaves the pool, the counter and the results alone keeps the invariant,
\* if it lets the parent return only when all have counted down.
LEMMA Still ==
  ASSUME WhenAllInv, TypeInv', UNCHANGED <<remaining, out, q_, fn, wrapper>>,
         ppc' = "return" => ppc = "return" \/ remaining = 0
  PROVE  WhenAllInv'
<1>1. \A x \in Worker : Busy(x)' <=> Busy(x)
  BY DEF Busy
<1>2. \A x \in Worker : At(x, "notify")' = At(x, "notify") /\ At(x, "parent")' = At(x, "parent")
  BY DEF At
<1>3. Places'
  BY <1>1, PlacesKept
<1>4. Unnotified' = Unnotified
  BY <1>1, UnnotifiedKept
<1>5. Counted'
  BY <1>2, <1>4 DEF WhenAllInv, Counted
<1>6. Resumed'
  BY <1>2 DEF WhenAllInv, Resumed
<1> QED
  BY <1>3, <1>5, <1>6 DEF WhenAllInv

\* A function is posted for a child that is in no other place.
LEMMA Posted ==
  ASSUME WhenAllInv, NEW job, NEW c \in Child, post(job, c)
  PROVE  /\ Len(q_') = Len(q_) + 1 /\ q_'[Len(q_) + 1].child = c
         /\ \A k \in 1 .. Len(q_) : q_'[k] = q_[k]
         /\ \A k \in 1 .. Len(q_') : k \in 1 .. Len(q_) \/ k = Len(q_) + 1
         /\ \A d \in Child : Queued(d)' <=> Queued(d) \/ d = c
<1>1. /\ Len(q_) \in Nat /\ Len(q_') = Len(q_) + 1 /\ q_'[Len(q_) + 1].child = c
      /\ \A k \in 1 .. Len(q_) : q_'[k] = q_[k]
  BY DEF WhenAllInv, TypeInv, post
<1>2. \A k \in 1 .. Len(q_') : k \in 1 .. Len(q_) \/ k = Len(q_) + 1
  BY <1>1
<1>3. \A d \in Child : Queued(d)' <=> Queued(d) \/ d = c
  BY <1>1, <1>2 DEF Queued
<1> QED
  BY <1>1, <1>2, <1>3

\* main's steps, from the launches to the destruction of the pool, keep the invariant.
LEMMA MainInv == ASSUME WhenAllInv, Main_Step PROVE WhenAllInv'
<1>1. ASSUME NEW c \in Child, Launch(c) PROVE WhenAllInv'
  <2>1. TypeInv'
    BY <1>1 DEF WhenAllInv, TypeInv, Launch, post, Job
  <2>2. post("start", c) /\ wrapper[c] = "none" /\ UNCHANGED fn
    BY <1>1 DEF Launch
  <2>3. \A d \in Child : wrapper'[d] = IF d = c THEN "alive" ELSE wrapper[d]
    BY <1>1 DEF WhenAllInv, TypeInv, Launch
  <2>4. \A k \in 1 .. Len(q_) : q_[k].child \in Child /\ q_[k].child # c
    BY <2>2, InQueue DEF WhenAllInv, Places
  <2>5. \A w \in Worker : fn[w].job # "none" => fn[w].child \in Child /\ fn[w].child # c
    BY <2>2 DEF WhenAllInv, TypeInv, Places, Idle
  <2>6. Places'
    <3>1. \A j, k \in 1 .. Len(q_') : q_'[j].child = q_'[k].child => j = k
      BY <2>2, <2>4, Posted DEF WhenAllInv, Places
    <3>2. \A k \in 1 .. Len(q_') : wrapper'[q_'[k].child] # "none"
      BY <2>2, <2>3, <2>4, Posted DEF WhenAllInv, Places
    <3>3. \A w \in Worker : fn[w].job # "none" => wrapper'[fn[w].child] # "none"
      BY <2>3, <2>5 DEF WhenAllInv, Places
    <3>4. \A w \in Worker, k \in 1 .. Len(q_') : Busy(w) => q_'[k].child # fn[w].child
      BY <2>2, <2>5, Posted DEF WhenAllInv, Places, Busy
    <3> QED
      BY <2>2, <3>1, <3>2, <3>3, <3>4 DEF WhenAllInv, Places, Busy
  <2>7. Unnotified' = Unnotified
    <3>1. \A d \in Child : Held(d)' <=> Held(d)
      BY <2>2 DEF Held, Busy
    <3> QED
      BY <2>2, <2>3, <3>1, Posted DEF Unnotified
  <2> QED
    BY <1>1, <2>1, <2>6, <2>7, Moved DEF Launch, At, WhenAllInv, Counted
<1>2. CASE AwaitReady
  <2>1. TypeInv'
    BY <1>2 DEF AwaitReady, WhenAllInv, TypeInv
  <2> QED
    BY <1>2, <2>1, Still DEF AwaitReady
<1>3. CASE AwaitSuspend
  <2>1. TypeInv'
    BY <1>3 DEF AwaitSuspend, WhenAllInv, TypeInv
  <2> QED
    BY <1>3, <2>1, Still DEF AwaitSuspend
<1>4. CASE Leave("read", "destroy") \/ Leave("destroy", "join") \/ Leave("join", "end")
  BY <1>4, Still DEF Leave, WhenAllInv, TypeInv
<1> QED
  BY <1>1, <1>2, <1>3, <1>4 DEF Main_Step

\* A pool thread keeps the invariant whatever it does with a child: take it, run it, hop,
\* store its result, count down, resume the parent or drop its frame.
LEMMA WorkerInv == ASSUME NChild \in Nat, WhenAllInv, NEW w \in Worker, Worker_Step(w) PROVE WhenAllInv'
<1> USE DEF Busy, At
<1>1. CASE Take(w)
  <2>1. /\ Len(q_) \in Nat \ {0} /\ Head(q_) = q_[1] /\ Len(q_') = Len(q_) - 1
        /\ \A k \in 1 .. Len(q_') : q_'[k] = q_[k + 1]
        /\ q_' \in Seq(Job)
        /\ 1 \in 1 .. Len(q_)
    BY <1>1, HeadTailProperties, EmptySeq DEF WhenAllInv, TypeInv, Take
  <2>2. /\ q_[1] \in Job /\ q_[1].child \in Child
        /\ fn' = [fn EXCEPT ![w] = [job |-> q_[1].job, child |-> q_[1].child, at |-> "run"]]
    BY <1>1, <2>1, InQueue DEF Take
  <2>7. TypeInv'
    BY <1>1, <2>1, <2>2 DEF WhenAllInv, TypeInv, Take, Job
  <2>8. fn'[w].child = q_[1].child /\ Busy(w)' /\ \A x \in Worker \ {w} : fn'[x] = fn[x]
    BY <2>2 DEF WhenAllInv, TypeInv, Job
  <2>9. ~Busy(w) /\ wrapper' = wrapper
    BY <1>1 DEF Take
  <2>3. Places'
    <3>1. \A k \in 1 .. Len(q_') : k + 1 \in 1 .. Len(q_) /\ k + 1 # 1
      BY <2>1
    <3>2. ASSUME NEW j \in 1 .. Len(q_'), NEW k \in 1 .. Len(q_'), q_'[j].child = q_'[k].child
          PROVE  j = k
      <4>1. q_[j + 1].child = q_[k + 1].child
        BY <2>1, <3>2
      <4>2. j + 1 = k + 1
        BY <3>1, <4>1 DEF WhenAllInv, Places
      <4> QED
        BY <4>2
    <3>3. ASSUME NEW k \in 1 .. Len(q_')
          PROVE  wrapper[q_'[k].child] # "none" /\ q_'[k].child # q_[1].child
      <4>1. q_'[k] = q_[k + 1] /\ k + 1 \in 1 .. Len(q_) /\ k + 1 # 1 /\ 1 \in 1 .. Len(q_)
        BY <2>1, <3>1
      <4> QED
        BY <4>1 DEF WhenAllInv, Places
    <3>4. wrapper[q_[1].child] # "none" /\ \A x \in Worker : Busy(x) => fn[x].child # q_[1].child
      BY <2>1 DEF WhenAllInv, Places
    <3>5. \A x \in Worker, k \in 1 .. Len(q_') : Busy(x)' => q_'[k].child # fn'[x].child
      BY <2>1, <2>8, <3>1, <3>3 DEF WhenAllInv, Places
    <3>6. \A x, y \in Worker : Busy(x)' /\ Busy(y)' /\ fn'[x].child = fn'[y].child => x = y
      BY <2>8, <3>4 DEF WhenAllInv, Places
    <3>7. \A x \in Worker : fn'[x].job # "none" => wrapper[fn'[x].child] # "none"
      BY <2>8, <3>4 DEF WhenAllInv, Places
    <3> QED
      BY <2>9, <3>2, <3>3, <3>5, <3>6, <3>7 DEF Places
  <2>4. ASSUME NEW c \in Child PROVE Queued(c) <=> c = q_[1].child \/ Queued(c)'
    <3>1. \A k \in 1 .. Len(q_) : k = 1 \/ (k - 1 \in 1 .. Len(q_') /\ q_'[k - 1] = q_[k])
      BY <2>1 DEF WhenAllInv, TypeInv
    <3>2. \A k \in 1 .. Len(q_') : k + 1 \in 1 .. Len(q_)
      BY <2>1 DEF WhenAllInv, TypeInv
    <3>3. Queued(c) => c = q_[1].child \/ Queued(c)'
      BY <3>1 DEF Queued
    <3>4. c = q_[1].child => Queued(c)
      BY <2>1 DEF Queued
    <3>5. ASSUME NEW k \in 1 .. Len(q_'), q_'[k].child = c PROVE Queued(c)
      <4>1. q_[k + 1].child = c
        BY <2>1, <3>5
      <4> QED
        BY <3>2, <4>1 DEF Queued
    <3> QED
      BY <3>3, <3>4, <3>5 DEF Queued
  <2>5. \A c \in Child : Held(c)' <=> c = q_[1].child \/ Held(c)
    BY <2>8, <2>9 DEF Held
  <2>6. Unnotified' = Unnotified
    BY <2>4, <2>5, <2>9 DEF Unnotified
  <2> QED
    BY <1>1, <2>8, <2>7, <2>2, <2>3, <2>6, Moved DEF Take, WhenAllInv, TypeInv, Counted
<1>2. CASE Run(w)
  <2> DEFINE c == fn[w].child
  <2>1. /\ At(w, "run") /\ Busy(w) /\ c \in Child /\ wrapper' = wrapper /\ out' = out
        /\ \A x \in Worker \ {w} : fn'[x] = fn[x]
        /\ fn'[w].job = fn[w].job /\ fn'[w].child = c
    BY <1>2 DEF Run, GoTo, WhenAllInv, TypeInv, Idle
  <2>2. CASE post("resume", c) /\ GoTo(w, "end")
    <3>0. q_' \in Seq(Job)
      BY <2>1, <2>2 DEF post, WhenAllInv, TypeInv, Job
    <3>1. TypeInv'
      BY <1>2, <2>1, <2>2, <3>0 DEF Run, GoTo, WhenAllInv, TypeInv, Idle
    <3>2. ~Busy(w)' /\ ~At(w, "notify")' /\ ~At(w, "parent")'
      BY <2>2, SMTT(30) DEF GoTo, WhenAllInv, TypeInv, Idle
    <3>6. \A x \in Worker : Busy(x)' => Busy(x) /\ x # w
      BY <2>1, <3>2
    <3>7. \A x \in Worker : Busy(x) /\ x # w => Busy(x)'
      BY <2>1
    <3>3. Places'
      <4> HIDE DEF Busy
      <4>1. \A k \in 1 .. Len(q_) : q_[k].child # c
        BY <2>1 DEF WhenAllInv, Places
      <4>2. \A j, k \in 1 .. Len(q_') : q_'[j].child = q_'[k].child => j = k
        BY <2>1, <2>2, <4>1, Posted DEF WhenAllInv, Places
      <4>3. \A k \in 1 .. Len(q_') : wrapper[q_'[k].child] # "none"
        BY <2>1, <2>2, Posted DEF WhenAllInv, Places, At
      <4>4. \A x \in Worker, k \in 1 .. Len(q_') : Busy(x)' => q_'[k].child # fn'[x].child
        BY <2>1, <2>2, <3>6, Posted DEF WhenAllInv, Places
      <4>5. \A x \in Worker : fn'[x].job # "none" => wrapper[fn'[x].child] # "none"
        BY <2>1 DEF WhenAllInv, Places
      <4>6. \A x, y \in Worker : Busy(x)' /\ Busy(y)' /\ fn'[x].child = fn'[y].child => x = y
        BY <2>1, <3>6 DEF WhenAllInv, Places
      <4> QED
        BY <2>1, <4>2, <4>3, <4>4, <4>5, <4>6 DEF Places
    <3>4. \A d \in Child : d # c => (Held(d)' <=> Held(d))
      <4> HIDE DEF Busy
      <4> QED
        BY <2>1, <3>6, <3>7 DEF Held
    <3>5. Unnotified' = Unnotified
      <4> HIDE DEF Busy
      <4>1. Held(c) /\ Queued(c)'
        BY <2>1, <2>2, Posted DEF Held
      <4>2. \A d \in Child : d # c => (Queued(d)' <=> Queued(d))
        BY <2>1, <2>2, Posted
      <4> QED
        BY <2>1, <3>4, <4>1, <4>2 DEF Unnotified
    <3> QED
      BY <1>2, <2>1, <3>1, <3>2, <3>3, <3>5, Moved, SMTT(30) DEF Run, WhenAllInv, Counted
  <2>3. CASE GoTo(w, "store") /\ UNCHANGED q_
    <3>1. TypeInv' /\ Busy(w)' /\ ~At(w, "notify")' /\ ~At(w, "parent")'
      BY <1>2, <2>1, <2>3, SMTT(30) DEF Run, GoTo, WhenAllInv, TypeInv, Idle
    <3>4. \A x \in Worker : /\ fn'[x].job = fn[x].job /\ fn'[x].child = fn[x].child
                            /\ Busy(x)' <=> Busy(x)
      BY <2>1, <3>1
    <3> HIDE DEF Busy
    <3>2. Places'
      BY <2>1, <2>3, <3>4, PlacesKept
    <3>3. Unnotified' = Unnotified
      BY <2>1, <2>3, <3>4, UnnotifiedKept
    <3> QED
      BY <1>2, <2>1, <3>1, <3>2, <3>3, Moved DEF Run, WhenAllInv, Counted
  <2> QED
    BY <1>2, <2>2, <2>3 DEF Run
<1>3. CASE StoreResult(w)
  <2>1. /\ Busy(w) /\ fn[w].child \in Child /\ UNCHANGED <<wrapper, q_>> /\ out' = out \cup {fn[w].child}
        /\ \A x \in Worker \ {w} : fn'[x] = fn[x]
        /\ fn'[w].job = fn[w].job /\ fn'[w].child = fn[w].child /\ Busy(w)' /\ ~At(w, "parent")'
    BY <1>3 DEF StoreResult, GoTo, WhenAllInv, TypeInv, Idle
  <2>2. TypeInv'
    BY <1>3, <2>1, SMTT(30) DEF StoreResult, GoTo, WhenAllInv, TypeInv, Idle
  <2>5. \A x \in Worker : /\ fn'[x].job = fn[x].job /\ fn'[x].child = fn[x].child
                          /\ Busy(x)' <=> Busy(x)
    BY <2>1
  <2>3. Places'
    <3> HIDE DEF Busy
    <3> QED
      BY <2>1, <2>5, PlacesKept
  <2>4. Unnotified' = Unnotified
    <3> HIDE DEF Busy
    <3> QED
      BY <2>1, <2>5, UnnotifiedKept
  <2> QED
    BY <1>3, <2>1, <2>2, <2>3, <2>4, Moved DEF StoreResult, WhenAllInv, Counted
<1>4. CASE Notify(w)
  <2> DEFINE c == fn[w].child
  <2>1. /\ Busy(w) /\ c \in Child /\ UNCHANGED <<wrapper, q_, out, ppc>>
        /\ \A x \in Worker \ {w} : fn'[x] = fn[x]
        /\ fn'[w].job = fn[w].job /\ fn'[w].child = c /\ ~Busy(w)'
    BY <1>4 DEF Notify, GoTo, WhenAllInv, TypeInv, Idle
  <2>2. c \in Unnotified /\ c \in out
    BY <1>4, <2>1 DEF Unnotified, Held, Notify, WhenAllInv, Counted
  <2>3. Unnotified' = Unnotified \ {c}
    <3>1. ~Held(c)'
      BY <2>1 DEF Held, WhenAllInv, Places
    <3>2. ~Queued(c) /\ wrapper[c] # "none"
      BY <2>1 DEF Queued, WhenAllInv, Places
    <3>3. \A d \in Child : d # c => (Held(d)' <=> Held(d))
      BY <2>1 DEF Held
    <3> QED
      BY <2>1, <3>1, <3>2, <3>3 DEF Unnotified, Queued
  <2>4. /\ remaining \in 1 .. NChild /\ remaining' = remaining - 1
        /\ remaining' = Cardinality(Unnotified')
    <3>1. IsFiniteSet(Unnotified) /\ Cardinality(Unnotified) \in Nat
      BY Few DEF Unnotified
    <3>2. Cardinality(Unnotified \ {c}) = Cardinality(Unnotified) - 1
      BY <2>2, <3>1, FS_RemoveElement
    <3>3. Cardinality(Unnotified \ {c}) \in Nat
      BY Few DEF Unnotified
    <3> QED
      BY <1>4, <2>3, <3>1, <3>2, <3>3 DEF Notify, WhenAllInv, TypeInv, Counted
  <2>5. TypeInv'
    BY <1>4, <2>1, <2>4 DEF Notify, GoTo, WhenAllInv, TypeInv, Idle
  <2>6. Places'
    <3>1. \A x \in Worker : /\ fn'[x].job = fn[x].job /\ fn'[x].child = fn[x].child
                            /\ Busy(x)' => Busy(x)
      BY <2>1
    <3> HIDE DEF Busy
    <3> QED
      BY <2>1, <3>1, PlacesKept
  <2>7. Counted'
    BY <2>1, <2>2, <2>3, <2>4 DEF WhenAllInv, Counted
  <2>8. Resumed'
    <3>1. \A x \in Worker : ~At(x, "parent") /\ ppc # "return"
      BY <2>4 DEF WhenAllInv, Resumed
    <3>2. At(w, "parent")' => remaining' = 0
      BY <1>4, <2>4 DEF Notify, GoTo, WhenAllInv, TypeInv
    <3> QED
      BY <2>1, <3>1, <3>2 DEF Resumed
  <2> QED
    BY <2>5, <2>6, <2>7, <2>8 DEF WhenAllInv
<1>5. CASE ResumeParent(w)
  <2>1. /\ At(w, "parent") /\ UNCHANGED <<wrapper, q_, out, remaining>>
        /\ \A x \in Worker \ {w} : fn'[x] = fn[x]
        /\ fn'[w].job = fn[w].job /\ fn'[w].child = fn[w].child
        /\ ~Busy(w) /\ ~Busy(w)' /\ ~At(w, "notify")'
    BY <1>5 DEF ResumeParent, GoTo, WhenAllInv, TypeInv, Idle
  <2>2. TypeInv'
    BY <1>5, <2>1 DEF ResumeParent, GoTo, WhenAllInv, TypeInv, Idle
  <2>3. Places' /\ Unnotified' = Unnotified
    <3>1. \A x \in Worker : /\ fn'[x].job = fn[x].job /\ fn'[x].child = fn[x].child
                            /\ Busy(x)' <=> Busy(x)
      BY <2>1
    <3> HIDE DEF Busy
    <3> QED
      BY <2>1, <3>1, PlacesKept, UnnotifiedKept
  <2>4. Counted' /\ Resumed'
    BY <2>1, <2>3, SMTT(30) DEF WhenAllInv, Counted, Resumed
  <2> QED
    BY <2>2, <2>3, <2>4 DEF WhenAllInv
<1>6. CASE Drop(w)
  <2>1. /\ ~Busy(w) /\ ~Busy(w)' /\ fn'[w].job = "none" /\ UNCHANGED <<q_, out, remaining, ppc>>
        /\ \A x \in Worker \ {w} : fn'[x] = fn[x]
        /\ \A d \in Child : (wrapper'[d] = "none") = (wrapper[d] = "none")
        /\ \A x \in Worker : fn[x].job # "none" => fn[x].child \in Child
    BY <1>6 DEF Drop, WhenAllInv, TypeInv, Places, Idle
  <2>2. TypeInv'
    BY <1>6, <2>1, SMTT(30) DEF Drop, WhenAllInv, TypeInv
  <2>5. \A x \in Worker : /\ fn'[x].job # "none" => fn'[x] = fn[x]
                          /\ Busy(x) => fn'[x] = fn[x]
                          /\ Busy(x)' <=> Busy(x)
    BY <2>1
  <2>3. Places'
    <3> HIDE DEF Busy
    <3> QED
      BY <2>1, <2>5, PlacesKept
  <2>4. Unnotified' = Unnotified
    <3> HIDE DEF Busy
    <3> QED
      BY <2>1, <2>5, UnnotifiedKept
  <2> QED
    BY <2>1, <2>2, <2>3, <2>4, Moved, SMTT(30) DEF WhenAllInv, Counted
<1>7. CASE TouchesFreed(w) \/ WorkerExit(w)
  BY <1>7, Still DEF TouchesFreed, WorkerExit, WhenAllInv, TypeInv
<1> QED
  BY <1>1, <1>2, <1>3, <1>4, <1>5, <1>6, <1>7, SMTT(30) DEF Worker_Step

\* when_all() resumes its parent once at most and only when every task has stored
\* its result, for every number of tasks and threads.
THEOREM ParentResumedLast ==
  ASSUME NChild \in Nat
  PROVE  Spec => [](ResultsComplete /\ OneResumer)
<1>1. Init => WhenAllInv
  BY WhenAllInit
<1>2. WhenAllInv /\ [Next]_vars => WhenAllInv'
  <2>1. WhenAllInv /\ UNCHANGED vars => WhenAllInv'
    BY Still DEF vars, WhenAllInv, TypeInv
  <2> QED
    BY <2>1, MainInv, WorkerInv DEF Next
<1>3. WhenAllInv => ResultsComplete /\ OneResumer
  <2> SUFFICES ASSUME WhenAllInv PROVE ResultsComplete /\ OneResumer
    OBVIOUS
  <2>1. remaining = 0 => Unnotified = {}
    BY Few, FS_EmptySet DEF WhenAllInv, Counted, Unnotified
  <2>2. remaining = 0 => out = Child
    BY <2>1 DEF WhenAllInv, TypeInv, Counted
  <2>3. \A x \in Worker : At(x, "notify") => remaining # 0
    BY <2>1 DEF WhenAllInv, TypeInv, Idle, Unnotified, Held, Busy, At
  <2> QED
    BY <2>2, <2>3 DEF ResultsComplete, OneResumer, WhenAllInv, Resumed
<1> QED
  BY <1>1, <1>2, <1>3, PTL DEF Spec
================================================================================
