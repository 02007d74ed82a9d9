--------------------------- MODULE ThreadPoolProofs ---------------------------
(***************************************************************************)
(* Proofs about ThreadPool, for any finite set of workers and any number   *)
(* of tasks.                                                               *)
(***************************************************************************)
EXTENDS ThreadPool, SequenceTheorems, FiniteSetTheorems, TLAPS

\* Type correctness of class ThreadPool: in particular a worker only ever
\* holds a task that submit() pushed.
THEOREM TypeCorrect == Spec => []TypeInv
<1>1. Init => TypeInv
  <2> SUFFICES ASSUME Init PROVE TypeInv
    OBVIOUS
  <2> USE DEF Init
  <2>1. queue_ \in Seq(Task) /\ done_ \in BOOLEAN
    BY EmptySeq
  <2>2. pc \in [Worker -> WorkerPc] /\ task \in [Worker -> Task \cup {None}]
    BY DEF WorkerPc
  <2>3. result \in [Task -> Outcome] /\ client \in ClientPc
    BY DEF Outcome, ClientPc
  <2>4. submitted \in 0 .. NTask /\ got \in 0 .. NTask
    BY PoolAssumption
  <2> QED
    BY <2>1, <2>2, <2>3, <2>4 DEF TypeInv
<1>2. TypeInv /\ [Next]_vars => TypeInv'
  <2> SUFFICES ASSUME TypeInv, [Next]_vars
               PROVE  TypeInv'
    OBVIOUS
  <2> USE PoolAssumption DEF TypeInv, WorkerPc, ClientPc, Outcome, clientVars, workerVars
  <2>1. ASSUME NEW w \in Worker, Block(w)
        PROVE  TypeInv'
    BY <2>1 DEF Block
  <2>2. ASSUME NEW w \in Worker, Exit(w)
        PROVE  TypeInv'
    BY <2>2 DEF Exit
  <2>3. ASSUME NEW w \in Worker, Pop(w)
        PROVE  TypeInv'
    <3>1. queue_ # <<>>
      BY <2>3 DEF Pop, WaitPredicate, MustReturn
    <3>2. Head(queue_) \in Task /\ Tail(queue_) \in Seq(Task)
      BY <3>1, HeadTailProperties
    <3> QED
      BY <2>3, <3>2 DEF Pop, Popped
  <2>4. ASSUME NEW w \in Worker, Run(w)
        PROVE  TypeInv'
    BY <2>4 DEF Run, None
  <2>5. ASSUME NEW w \in Worker, SpuriousWakeup(w)
        PROVE  TypeInv'
    BY <2>5 DEF SpuriousWakeup
  <2>6. CASE SubmitPush
    <3>1. NewTask \in Task
      BY <2>6 DEF SubmitPush, NewTask, Task
    <3> QED
      BY <2>6, <3>1, AppendProperties DEF SubmitPush
  <2>7. CASE SubmitNotify
    BY <2>7 DEF SubmitNotify, WakeForTask, NotifyOne
  <2>8. CASE StopSubmitting
    BY <2>8 DEF StopSubmitting
  <2>9. CASE Get
    BY <2>9 DEF Get
  <2>10. CASE LeaveScope
    BY <2>10 DEF LeaveScope
  <2>11. CASE CloseSetDone
    BY <2>11 DEF CloseSetDone
  <2>12. CASE CloseNotify
    BY <2>12 DEF CloseNotify, WakeForShutdown, NotifyAll
  <2>13. CASE Join
    BY <2>13 DEF Join
  <2>14. CASE UNCHANGED vars
    BY <2>14 DEF vars
  <2> QED
    BY <2>1, <2>2, <2>3, <2>4, <2>5, <2>6, <2>7, <2>8, <2>9, <2>10, <2>11,
       <2>12, <2>13, <2>14
    DEF Next, WorkerStep, ClientStep, Terminated
<1> QED
  BY <1>1, <1>2, PTL DEF Spec

-------------------------------------------------------------------------------

\* The order of the destructor's steps is respected by every step: done_ is
\* set only there, and a worker that returned saw done_ and an empty queue,
\* which nobody fills again.
LEMMA ShutdownOrderStep ==
  ASSUME TypeInv, ShutdownOrder, [Next]_vars
  PROVE  ShutdownOrder'
<1> USE DEF ShutdownOrder, TypeInv, clientVars, workerVars
<1>1. ASSUME NEW w \in Worker, Block(w)
      PROVE  ShutdownOrder'
  BY <1>1 DEF Block, WaitPredicate
<1>2. ASSUME NEW w \in Worker, Exit(w)
      PROVE  ShutdownOrder'
  BY <1>2 DEF Exit, MustReturn
<1>3. ASSUME NEW w \in Worker, Pop(w)
      PROVE  ShutdownOrder'
  BY <1>3 DEF Pop, MustReturn, WaitPredicate
<1>4. ASSUME NEW w \in Worker, Run(w)
      PROVE  ShutdownOrder'
  BY <1>4 DEF Run
<1>5. ASSUME NEW w \in Worker, SpuriousWakeup(w)
      PROVE  ShutdownOrder'
  BY <1>5 DEF SpuriousWakeup
<1>6. CASE SubmitPush
  BY <1>6 DEF SubmitPush
<1>7. CASE SubmitNotify
  BY <1>7 DEF SubmitNotify, WakeForTask, NotifyOne
<1>8. CASE StopSubmitting
  BY <1>8 DEF StopSubmitting
<1>9. CASE Get
  BY <1>9 DEF Get
<1>10. CASE LeaveScope
  BY <1>10 DEF LeaveScope
<1>11. CASE CloseSetDone
  BY <1>11 DEF CloseSetDone
<1>12. CASE CloseNotify
  BY <1>12 DEF CloseNotify, WakeForShutdown, NotifyAll
<1>13. CASE Join
  BY <1>13 DEF Join
<1>14. CASE UNCHANGED vars
  BY <1>14 DEF vars
<1> QED
  BY <1>1, <1>2, <1>3, <1>4, <1>5, <1>6, <1>7, <1>8, <1>9, <1>10, <1>11,
     <1>12, <1>13, <1>14
  DEF Next, WorkerStep, ClientStep, Terminated

\* Every step keeps each task in exactly one place.
LEMMA TaskAccountingStep ==
  ASSUME TypeInv, TypeInv', TaskAccounting, [Next]_vars
  PROVE  TaskAccounting'
<1> USE PoolAssumption DEF TaskAccounting, TypeInv, NPopped, clientVars, workerVars
<1>1. ASSUME NEW w \in Worker, Block(w)
      PROVE  TaskAccounting'
  BY <1>1 DEF Block
<1>2. ASSUME NEW w \in Worker, Exit(w)
      PROVE  TaskAccounting'
  BY <1>2 DEF Exit
<1>3. ASSUME NEW w \in Worker, Pop(w)
      PROVE  TaskAccounting'
  <2>1. queue_ # <<>>
    BY <1>3 DEF Pop, WaitPredicate, MustReturn
  <2>2. /\ Len(queue_) \in Nat \ {0}
        /\ Len(queue_') = Len(queue_) - 1
        /\ \A i \in 1 .. Len(queue_') : queue_'[i] = queue_[i + 1]
        /\ Head(queue_) = queue_[1]
    BY <1>3, <2>1, HeadTailProperties, EmptySeq DEF Pop, Popped
  <2>3. /\ queue_[1] = NPopped + 1
        /\ NPopped' = NPopped + 1
        /\ NPopped \in Nat
    BY <1>3, <2>2 DEF Pop
  <2>31. /\ task' = [task EXCEPT ![w] = NPopped + 1]
        /\ pc' = [pc EXCEPT ![w] = "run"]
        /\ UNCHANGED <<result, submitted>>
        /\ pc[w] = "lock"
    BY <1>3, <2>2, <2>3 DEF Pop
  <2>4. task[w] = None /\ NPopped + 1 # None
    BY <2>3, <2>31 DEF None
  <2>5. /\ Len(queue_') <= submitted'
        /\ \A i \in 1 .. Len(queue_') : queue_'[i] = NPopped' + i
    <3>1. Len(queue_') <= submitted'
      BY <2>2, <2>31
    <3>2. ASSUME NEW i \in 1 .. Len(queue_')
          PROVE  queue_'[i] = NPopped' + i
      <4>1. i + 1 \in 1 .. Len(queue_)
        BY <2>2
      <4>2. queue_[i + 1] = NPopped + (i + 1)
        BY <4>1
      <4> HIDE DEF TaskAccounting, TypeInv, NPopped
      <4> QED
        BY <2>2, <2>3, <4>2
    <3> QED
      BY <3>1, <3>2
  <2>6. ASSUME NEW v \in Worker
        PROVE  /\ task'[v] # None <=> pc'[v] = "run"
               /\ task'[v] <= NPopped'
    <3>1. task[v] # None <=> pc[v] = "run"
      OBVIOUS
    <3>2. task[v] <= NPopped /\ task[v] \in Nat
      BY DEF Task, None
    <3>3. /\ task'[v] = IF v = w THEN NPopped + 1 ELSE task[v]
          /\ pc'[v] = IF v = w THEN "run" ELSE pc[v]
      BY <2>31
    <3> HIDE DEF TaskAccounting, TypeInv, NPopped
    <3>4. CASE v = w
      BY <3>3, <3>4, <2>3, <2>4
    <3>5. CASE v # w
      BY <3>1, <3>2, <3>3, <3>5, <2>3
    <3> QED
      BY <3>4, <3>5
  <2>7. \A u, v \in Worker : u # v /\ task'[u] = task'[v] => task'[u] = None
    BY <2>3, <2>31, <2>4, SMTT(30) DEF Task, None
  <2>8. ASSUME NEW t \in Task
        PROVE  result'[t] = "pending"
                 <=> t > NPopped' \/ \E v \in Worker : task'[v] = t
    <3>1. result'[t] = "pending"
            <=> t > NPopped \/ \E v \in Worker : task[v] = t
      BY <2>31
    <3>2. task'[w] = NPopped + 1
      BY <2>31
    <3>3. CASE t = NPopped + 1
      <4> HIDE DEF TaskAccounting, TypeInv, NPopped
      <4>1. t > NPopped
        BY <3>3, <2>3
      <4> QED
        BY <3>1, <3>2, <3>3, <4>1, <2>31
    <3>4. CASE t # NPopped + 1
      <4> HIDE DEF TaskAccounting, TypeInv, NPopped
      <4>1. t > NPopped <=> t > NPopped'
        BY <3>4, <2>3 DEF Task
      <4>2. ASSUME NEW v \in Worker
            PROVE  task[v] = t <=> task'[v] = t
        <5>1. CASE v = w
          BY <5>1, <3>2, <3>4, <2>4 DEF Task, None
        <5>2. CASE v # w
          BY <5>2, <2>31
        <5> QED
          BY <5>1, <5>2
      <4> QED
        BY <3>1, <4>1, <4>2
    <3> QED
      BY <3>3, <3>4
  <2> QED
    BY <2>5, <2>6, <2>7, <2>8
<1>4. ASSUME NEW w \in Worker, Run(w)
      PROVE  TaskAccounting'
  <2>1. PICK o \in {"value", "exception"} : result' = [result EXCEPT ![task[w]] = o]
    BY <1>4 DEF Run
  <2>2. /\ pc[w] = "run"
        /\ task' = [task EXCEPT ![w] = None]
        /\ pc' = [pc EXCEPT ![w] = "lock"]
        /\ UNCHANGED <<queue_, submitted>>
    BY <1>4 DEF Run
  <2>3. task[w] # None /\ task[w] \in Task /\ NPopped' = NPopped /\ NPopped \in Int
    BY <2>2
  <2>4. \A v \in Worker : /\ task'[v] # None <=> pc'[v] = "run"
                          /\ task'[v] <= NPopped'
    BY <2>2, <2>3 DEF Task, None
  <2>5. \A u, v \in Worker : u # v /\ task'[u] = task'[v] => task'[u] = None
    BY <2>2
  <2>6. ASSUME NEW t \in Task
        PROVE  result'[t] = "pending"
                 <=> t > NPopped' \/ \E v \in Worker : task'[v] = t
    <3>1. CASE t = task[w]
      <4>1. result'[t] # "pending" /\ ~(t > NPopped')
        BY <2>1, <2>3, <3>1, SMTT(30) DEF Task
      <4>2. \A v \in Worker : task'[v] # t
        BY <2>2, <2>3, <3>1
      <4> QED
        BY <4>1, <4>2
    <3>2. CASE t # task[w]
      <4>1. result'[t] = result[t]
        BY <2>1, <2>3, <3>2
      <4>2. \A v \in Worker : task'[v] = t <=> task[v] = t
        BY <2>2, <3>2 DEF Task, None
      <4>3. result[t] = "pending" <=> t > NPopped \/ \E v \in Worker : task[v] = t
        OBVIOUS
      <4> QED
        BY <2>3, <4>1, <4>2, <4>3
    <3> QED
      BY <3>1, <3>2
  <2>7. Len(queue_') <= submitted' /\ \A i \in 1 .. Len(queue_') : queue_'[i] = NPopped' + i
    BY <2>2
  <2> QED
    BY <2>4, <2>5, <2>6, <2>7
<1>5. ASSUME NEW w \in Worker, SpuriousWakeup(w)
      PROVE  TaskAccounting'
  BY <1>5 DEF SpuriousWakeup
<1>6. CASE SubmitPush
  <2>1. NewTask \in Task
    BY <1>6 DEF SubmitPush, NewTask, Task
  <2>2. /\ Len(queue_') = Len(queue_) + 1
        /\ \A i \in 1 .. Len(queue_) : queue_'[i] = queue_[i]
        /\ queue_'[Len(queue_) + 1] = submitted + 1
        /\ Len(queue_) \in Nat
    BY <1>6, <2>1, AppendProperties, LenProperties DEF SubmitPush, NewTask
  <2> QED
    BY <1>6, <2>2 DEF SubmitPush
<1>7. CASE SubmitNotify
  BY <1>7 DEF SubmitNotify, WakeForTask, NotifyOne
<1>8. CASE StopSubmitting
  BY <1>8 DEF StopSubmitting
<1>9. CASE Get
  BY <1>9 DEF Get
<1>10. CASE LeaveScope
  BY <1>10 DEF LeaveScope
<1>11. CASE CloseSetDone
  BY <1>11 DEF CloseSetDone
<1>12. CASE CloseNotify
  BY <1>12 DEF CloseNotify, WakeForShutdown, NotifyAll
<1>13. CASE Join
  BY <1>13 DEF Join
<1>14. CASE UNCHANGED vars
  BY <1>14 DEF vars
<1> QED
  BY <1>1, <1>2, <1>3, <1>4, <1>5, <1>6, <1>7, <1>8, <1>9, <1>10, <1>11,
     <1>12, <1>13, <1>14, SMTT(30)
  DEF Next, WorkerStep, ClientStep, Terminated

-------------------------------------------------------------------------------

\* Exactly-once execution in submission order: a task is queued, held by one
\* worker, or finished, whatever the number of workers.
THEOREM Accounting == Spec => []TaskAccounting
<1>1. Init => TaskAccounting
  BY PoolAssumption, EmptySeq DEF Init, TaskAccounting, NPopped, Task, None
<1>2. TypeInv /\ TypeInv' /\ TaskAccounting /\ [Next]_vars => TaskAccounting'
  BY TaskAccountingStep
<1> QED
  BY <1>1, <1>2, TypeCorrect, PTL DEF Spec

\* The order of the shutdown holds in every reachable state.
LEMMA ShutdownOrdered == Spec => []ShutdownOrder
<1>1. Init => ShutdownOrder
  BY DEF Init, ShutdownOrder
<1>2. TypeInv /\ ShutdownOrder /\ [Next]_vars => ShutdownOrder'
  BY ShutdownOrderStep
<1> QED
  BY <1>1, <1>2, TypeCorrect, PTL DEF Spec

\* "Workers drain any remaining tasks before exiting": when ~ThreadPool()
\* returns, all workers have returned, so the queue is empty and nobody holds
\* a task; by the accounting every submitted task has a result.
THEOREM Drained == Spec => []DrainedAtShutdown
<1>1. TypeInv /\ TaskAccounting /\ ShutdownOrder => DrainedAtShutdown
  <2> SUFFICES ASSUME TypeInv, TaskAccounting, ShutdownOrder, client = "end",
                      NEW t \in 1 .. submitted
               PROVE  result[t] # "pending"
    BY DEF DrainedAtShutdown
  <2>1. \A w \in Worker : pc[w] = "exit"
    BY DEF ShutdownOrder
  <2>2. queue_ = <<>>
    BY <2>1, PoolAssumption DEF ShutdownOrder
  <2>3. NPopped = submitted
    BY <2>2, EmptySeq DEF NPopped, TypeInv
  <2>4. t \in Task /\ ~(t > NPopped)
    BY <2>3, PoolAssumption DEF TypeInv, Task
  <2>5. \A w \in Worker : task[w] # t
    BY <2>1, <2>4 DEF TaskAccounting, Task, None
  <2> QED
    BY <2>4, <2>5 DEF TaskAccounting
<1> QED
  BY <1>1, TypeCorrect, Accounting, ShutdownOrdered, PTL

\* No worker sleeps through the destructor: after notify_all the predicate of
\* cv_.wait is true for good.
THEOREM NobodySleeps == Spec => []NobodySleepsThroughShutdown
<1> USE DEF NobodySleepsThroughShutdown, Asleep
<1>1. Init => NobodySleepsThroughShutdown
  BY DEF Init
<1>2. ASSUME TypeInv, ShutdownOrder, NobodySleepsThroughShutdown, [Next]_vars
      PROVE  NobodySleepsThroughShutdown'
  BY <1>2
  DEF TypeInv, ShutdownOrder, Next, WorkerStep, ClientStep, Terminated, vars,
      Block, Exit, Pop, Run, SpuriousWakeup, SubmitPush, SubmitNotify,
      StopSubmitting, Get, LeaveScope, CloseSetDone, CloseNotify, Join,
      WaitPredicate, WakeForTask, NotifyOne, WakeForShutdown, NotifyAll,
      clientVars, workerVars
<1> QED
  BY <1>1, <1>2, TypeCorrect, ShutdownOrdered, PTL DEF Spec

-------------------------------------------------------------------------------

\* What a step does to the number of workers that are on their way to mtx_.
LEMMA AwakeFinite == IsFiniteSet(Awake) /\ Cardinality(Awake) \in Nat
<1>1. Awake \in SUBSET Worker
  BY DEF Awake
<1> QED
  BY <1>1, PoolAssumption, FS_Subset, FS_CardinalityType

\* A worker that blocks, returns or takes a task is awake no more.
LEMMA AwakeLosesOne ==
  ASSUME TypeInv, NEW w \in Worker, NEW s, s # "lock",
         pc[w] = "lock", pc' = [pc EXCEPT ![w] = s]
  PROVE  Cardinality(Awake') = Cardinality(Awake) - 1
<1>1. w \in Awake /\ Awake' = Awake \ {w}
  BY DEF Awake, TypeInv
<1> QED
  BY <1>1, AwakeFinite, FS_RemoveElement, SMTT(30)

\* A worker that is notified or has finished its task is awake again.
LEMMA AwakeGainsOne ==
  ASSUME TypeInv, NEW w \in Worker,
         pc[w] # "lock", pc' = [pc EXCEPT ![w] = "lock"]
  PROVE  Cardinality(Awake') = Cardinality(Awake) + 1
<1>1. w \notin Awake /\ Awake' = Awake \cup {w}
  BY DEF Awake, TypeInv
<1> QED
  BY <1>1, AwakeFinite, FS_AddElement

\* No lost wakeup: with an idle worker asleep there is an awake worker for
\* every queued task, except for the task whose notify_one is to come.
THEOREM NoLostWakeup == Spec => []WorkConserving
<1>1. Init => WorkConserving
  BY DEF Init, WorkConserving, Asleep
<1>2. ASSUME TypeInv, TypeInv', WorkConserving, [Next]_vars
      PROVE  WorkConserving'
  <2> USE <1>2 DEF WorkConserving, clientVars, workerVars
  <2>0. /\ Cardinality(Awake) \in Nat
        /\ Len(queue_) \in Nat
    BY AwakeFinite, LenProperties DEF TypeInv
  <2>1. ASSUME NEW w \in Worker, Block(w) \/ Exit(w)
        PROVE  WorkConserving'
    <3>1. Len(queue_') = 0 /\ Cardinality(Awake') \in Nat
      <4>1. Len(queue_') = 0
        BY <2>1, EmptySeq DEF Block, Exit, WaitPredicate, MustReturn
      <4>2. Awake' \subseteq Worker
        BY DEF Awake
      <4> QED
        BY <4>1, <4>2, PoolAssumption, FS_Subset, FS_CardinalityType
    <3> QED
      BY <3>1
  <2>2. ASSUME NEW w \in Worker, Pop(w)
        PROVE  WorkConserving'
    <3>1. Cardinality(Awake') = Cardinality(Awake) - 1
      BY <2>2, AwakeLosesOne DEF Pop
    <3>2. Len(queue_') = Len(queue_) - 1
      BY <2>2, HeadTailProperties DEF Pop, Popped, WaitPredicate, MustReturn, TypeInv
    <3>3. Asleep' \subseteq Asleep
      BY <2>2 DEF Pop, Asleep, TypeInv
    <3>4. client' = client
      BY <2>2 DEF Pop
    <3> QED
      BY <2>0, <3>1, <3>2, <3>3, <3>4
  <2>3. ASSUME NEW w \in Worker, Run(w) \/ SpuriousWakeup(w)
        PROVE  WorkConserving'
    <3>1. Cardinality(Awake') = Cardinality(Awake) + 1
      BY <2>3, AwakeGainsOne DEF Run, SpuriousWakeup
    <3>2. queue_' = queue_ /\ client' = client
      BY <2>3 DEF Run, SpuriousWakeup
    <3>3. Asleep' \subseteq Asleep
      BY <2>3 DEF Run, SpuriousWakeup, Asleep, TypeInv
    <3> QED
      BY <2>0, <3>1, <3>2, <3>3
  <2>4. CASE SubmitPush
    <3>1. Len(queue_') = Len(queue_) + 1
      <4>1. NewTask \in Task
        BY <2>4, PoolAssumption DEF SubmitPush, NewTask, TypeInv, Task
      <4> QED
        BY <2>4, <4>1, AppendProperties DEF SubmitPush, TypeInv
    <3>2. Awake' = Awake /\ Asleep' = Asleep
      BY <2>4 DEF SubmitPush, Awake, Asleep
    <3>3. client = "submit" /\ client' = "notify"
      BY <2>4 DEF SubmitPush
    <3> QED
      BY <2>0, <3>1, <3>2, <3>3, SMTT(30)
  <2>5. CASE SubmitNotify
    <3>1. CASE \E w \in Worker : pc[w] = "wait" /\ pc' = [pc EXCEPT ![w] = "lock"]
      <4>1. Cardinality(Awake') = Cardinality(Awake) + 1
        BY <3>1, AwakeGainsOne
      <4>2. queue_' = queue_ /\ client = "notify" /\ client' = "submit"
        BY <2>5 DEF SubmitNotify
      <4>3. Asleep' \subseteq Asleep
        BY <3>1 DEF Asleep, TypeInv
      <4> QED
        BY <2>0, <4>1, <4>2, <4>3
    <3>2. CASE (\A w \in Worker : pc[w] # "wait") /\ pc' = pc
      BY <3>2 DEF Asleep
    <3> QED
      BY <2>5, <3>1, <3>2 DEF SubmitNotify, WakeForTask, NotifyOne
  <2>6. CASE CloseNotify
    <3>1. Asleep' = {}
      BY <2>6 DEF CloseNotify, WakeForShutdown, NotifyAll, Asleep
    <3> QED
      BY <3>1
  <2>7. CASE StopSubmitting \/ Get \/ LeaveScope \/ CloseSetDone \/ Join
    <3>1. queue_' = queue_ /\ pc' = pc /\ client # "notify" /\ client' # "notify"
      BY <2>7 DEF StopSubmitting, Get, LeaveScope, CloseSetDone, Join
    <3> QED
      BY <3>1 DEF Awake, Asleep
  <2>8. CASE UNCHANGED vars
    BY <2>8 DEF vars, Awake, Asleep
  <2> QED
    BY <2>1, <2>2, <2>3, <2>4, <2>5, <2>6, <2>7, <2>8
    DEF Next, WorkerStep, ClientStep, Terminated
<1> QED
  BY <1>1, <1>2, TypeCorrect, PTL DEF Spec

-------------------------------------------------------------------------------
(* Refinement of Executor.                                                 *)

StatusMap == [t \in Task |-> StatusOf(t)]

\* One task changes its stage, the others keep theirs.
LEMMA StageChange ==
  ASSUME NEW t \in Task, NEW stage,
         \A u \in Task : u # t => StatusOf(u)' = StatusOf(u),
         StatusOf(t)' = stage
  PROVE  StatusMap' = [StatusMap EXCEPT ![t] = stage]
BY DEF StatusMap

\* Each step of the pool is a step of Executor or leaves its state alone.
LEMMA StepRefines ==
  ASSUME TypeInv, TypeInv', TaskAccounting, ShutdownOrder, [Next]_vars
  PROVE  [E!Next]_<<StatusMap, client = "end">>
<1> USE DEF TypeInv
<1>1. ASSUME NEW w \in Worker, Pop(w)
      PROVE  E!Next
  <2>1. queue_ # <<>> /\ Len(queue_) \in Nat \ {0} /\ NPopped \in Nat
    BY <1>1, EmptySeq DEF Pop, WaitPredicate, MustReturn, TaskAccounting, NPopped
  <2>0. PICK t \in Task : t = NPopped + 1
    <3>1. NPopped + 1 \in 1 .. NTask
      BY <2>1, PoolAssumption DEF NPopped
    <3> QED
      BY <3>1, Zenon DEF Task
  <2>2. t \in Task /\ Head(queue_) = t /\ t <= submitted
    BY <2>1, <2>0, PoolAssumption DEF TaskAccounting, NPopped, Task
  <2>3. /\ task' = [task EXCEPT ![w] = t] /\ task[w] = None
        /\ UNCHANGED <<result, client, submitted>>
        /\ client # "end"
    BY <1>1, <2>2 DEF Pop, clientVars, TaskAccounting, ShutdownOrder
  <2>4. /\ result[t] = "pending"
        /\ \A v \in Worker : task[v] # t
    BY <2>1, <2>0 DEF TaskAccounting, None, Task
  <2>5. StatusOf(t) = "queued" /\ StatusOf(t)' = "running"
    BY <2>2, <2>3, <2>4, PoolAssumption DEF StatusOf, Task
  <2>6. ASSUME NEW u \in Task, u # t
        PROVE  StatusOf(u)' = StatusOf(u)
    <3>1. \A v \in Worker : task'[v] = u <=> task[v] = u
      BY <2>3, <2>6 DEF Task, None
    <3> QED
      BY <3>1, <2>3 DEF StatusOf
  <2>7. StatusMap' = [StatusMap EXCEPT ![t] = "running"]
    BY <2>2, <2>5, <2>6, StageChange, SMTT(30)
  <2> QED
    BY <2>2, <2>3, <2>5, <2>7 DEF E!Next, E!Start, E!Advance, StatusMap
<1>2. ASSUME NEW w \in Worker, Run(w)
      PROVE  E!Next
  <2>0. PICK t \in Task : t = task[w]
    BY <1>2 DEF Run, TaskAccounting
  <2>1. t \in Task /\ t <= submitted /\ client # "end"
    BY <1>2, <2>0 DEF Run, TaskAccounting, NPopped, None, Task, ShutdownOrder
  <2>2. /\ task' = [task EXCEPT ![w] = None]
        /\ UNCHANGED <<client, submitted>>
        /\ \A u \in Task : u # t => result'[u] = result[u]
        /\ result'[t] # "pending"
    BY <1>2, <2>0 DEF Run, clientVars
  <2>3. \A v \in Worker : v # w => task[v] # t
    BY <2>0 DEF TaskAccounting, Task, None
  <2>4. StatusOf(t) = "running" /\ StatusOf(t)' = "finished"
    BY <2>0, <2>1, <2>2, <2>3, SMTT(30) DEF StatusOf, Task, None
  <2>5. ASSUME NEW u \in Task, u # t
        PROVE  StatusOf(u)' = StatusOf(u)
    <3>1. ASSUME NEW v \in Worker
          PROVE  task'[v] = u <=> task[v] = u
      <4>1. CASE v = w
        BY <4>1, <2>0, <2>2, <2>5 DEF Task, None
      <4>2. CASE v # w
        BY <4>2, <2>2
      <4> QED
        BY <4>1, <4>2
    <3> QED
      BY <3>1, <2>2, <2>5 DEF StatusOf
  <2>6. StatusMap' = [StatusMap EXCEPT ![t] = "finished"]
    BY <2>1, <2>4, <2>5, StageChange
  <2> QED
    BY <2>1, <2>2, <2>4, <2>6 DEF E!Next, E!Finish, E!Advance, StatusMap
<1>3. CASE SubmitPush
  <2>0. PICK t \in Task : t = submitted + 1
    BY <1>3, PoolAssumption DEF SubmitPush, Task
  <2>1. t \in Task /\ UNCHANGED <<task, result>> /\ submitted' = t
        /\ client # "end" /\ client' # "end"
    BY <1>3, <2>0 DEF SubmitPush, workerVars
  <2>2. result[t] = "pending" /\ \A v \in Worker : task[v] # t
    BY <2>0, LenProperties DEF TaskAccounting, NPopped, Task, None
  <2>3. StatusOf(t) = "new" /\ StatusOf(t)' = "queued"
    BY <2>0, <2>1, <2>2 DEF StatusOf, Task
  <2>4. ASSUME NEW u \in Task, u # t
        PROVE  StatusOf(u)' = StatusOf(u)
    BY <2>0, <2>1, <2>4 DEF StatusOf, Task
  <2>5. StatusMap' = [StatusMap EXCEPT ![t] = "queued"]
    BY <2>1, <2>3, <2>4, StageChange
  <2> QED
    BY <2>1, <2>3, <2>5 DEF E!Next, E!Submit, E!Advance, StatusMap
<1>4. CASE Join
  <2>1. /\ UNCHANGED <<task, result, submitted>> /\ client = "join" /\ client' = "end"
        /\ \A w \in Worker : pc[w] = "exit"
    BY <1>4 DEF Join, workerVars
  <2>2. queue_ = <<>> /\ NPopped = submitted
    BY <2>1, PoolAssumption, EmptySeq, SMTT(30) DEF ShutdownOrder, NPopped
  <2>3. \A t \in Task, w \in Worker : task[w] # t
    BY <2>1 DEF TaskAccounting, None, Task
  <2>4. \A t \in Task : t <= submitted => result[t] # "pending"
    BY <2>2, <2>3 DEF TaskAccounting, Task
  <2>5. \A t \in Task : StatusOf(t) \in {"new", "finished"}
    BY <2>3, <2>4 DEF StatusOf, Task
  <2>6. StatusMap' = StatusMap
    BY <2>1 DEF StatusMap, StatusOf
  <2> QED
    BY <2>1, <2>5, <2>6 DEF E!Next, E!Close, StatusMap
<1>5. ASSUME UNCHANGED <<task, result, submitted>>, (client = "end")' = (client = "end")
      PROVE  UNCHANGED <<StatusMap, client = "end">>
  BY <1>5 DEF StatusMap, StatusOf
<1>6. ASSUME NEW w \in Worker, Block(w) \/ Exit(w) \/ SpuriousWakeup(w)
      PROVE  UNCHANGED <<StatusMap, client = "end">>
  BY <1>5, <1>6 DEF Block, Exit, SpuriousWakeup, clientVars
<1>7. CASE SubmitNotify \/ StopSubmitting \/ Get \/ LeaveScope
             \/ CloseSetDone \/ CloseNotify \/ UNCHANGED vars
  BY <1>5, <1>7 DEF SubmitNotify, StopSubmitting, Get, LeaveScope, CloseSetDone,
                    CloseNotify, vars, workerVars
<1> QED
  BY <1>1, <1>2, <1>3, <1>4, <1>6, <1>7
  DEF Next, WorkerStep, ClientStep, Terminated

\* The pool implements the executor its clients see, for any number of
\* workers and tasks.
THEOREM Refinement == Spec => ImplementsExecutor
<1>1. Init => E!Init
  BY DEF Init, E!Init, StatusOf, Task
<1>2. TypeInv /\ TypeInv' /\ TaskAccounting /\ ShutdownOrder /\ [Next]_vars
        => [E!Next]_<<StatusMap, client = "end">>
  BY StepRefines
<1> QED
  BY <1>1, <1>2, TypeCorrect, Accounting, ShutdownOrdered, PTL
  DEF Spec, ImplementsExecutor, E!Spec, StatusMap
===============================================================================
