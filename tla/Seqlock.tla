-------------------------------- MODULE Seqlock --------------------------------
(***************************************************************************)
(* demo_anonymous_shared of src/system_calls/04_mmap_ipc.cpp: the forked   *)
(* child publishes price updates in a shared mapping under a sequence      *)
(* counter that is odd while an update is being written; the parent polls  *)
(* them with the seqlock protocol.                                         *)
(*                                                                         *)
(* Every store is a release and every load an acquire, there is one writer *)
(* and the readers only load.  Loads of one reader then see ever later     *)
(* states of the record, so interleaving the accesses loses no behaviour:  *)
(* a reader that sees old values is one that runs earlier.                 *)
(*                                                                         *)
(* mid and spread hold the number of the update they belong to.            *)
(***************************************************************************)
EXTENDS Integers, TLAPS

CONSTANT NUpdates   \* updates the writer publishes

ASSUME UpdatesAssumption == NUpdates \in Nat \ {0}

VARIABLES
    seq, mid, spread, n_updates,   \* the shared PriceUpdate
    wpc, i, s,                     \* the writer; its loop variable and local s
    rpc,                           \* the parent
    s1, rmid, rspread, nu, seen,   \* its locals
    report                         \* the line it printed last: <<nu, mid, spread>>

prices == <<seq, mid, spread, n_updates>>
writer == <<wpc, i, s>>
reader == <<rpc, s1, rmid, rspread, nu, seen, report>>
vars == <<prices, writer, reader>>

WriterTypeInv ==
    /\ seq \in 0 .. 2 * NUpdates
    /\ mid \in 0 .. NUpdates
    /\ spread \in 0 .. NUpdates
    /\ n_updates \in 0 .. NUpdates
    /\ wpc \in {"start", "load", "mark", "mid", "spread", "count", "done", "end"}
    /\ i \in 0 .. NUpdates
    /\ s \in 0 .. 2 * NUpdates

TypeInv ==
    /\ WriterTypeInv
    /\ rpc \in {"s1", "mid", "spread", "s2", "nu", "report", "end"}
    /\ s1 \in 0 .. 2 * NUpdates
    /\ {rmid, rspread, nu, seen} \subseteq 0 .. NUpdates
    /\ report \in (0 .. NUpdates) \X (0 .. NUpdates) \X (0 .. NUpdates)

WriterInit(pc) ==
    /\ seq = 0 /\ mid = 0 /\ spread = 0 /\ n_updates = 0
    /\ wpc = pc /\ i = 0 /\ s = 0

\* The record is constructed before the fork.
Init ==
    /\ WriterInit("load")
    /\ rpc = "s1"
    /\ s1 = 0 /\ rmid = 0 /\ rspread = 0 /\ nu = 0 /\ seen = 0
    /\ report = <<0, 0, 0>>

-------------------------------------------------------------------------------
(* The child.                                                              *)

\* Defect: one update too many.
MoreUpdates_OffByOne == i <= NUpdates

MoreUpdates == i < NUpdates

LoadSeq ==
    /\ wpc = "load"
    /\ MoreUpdates
    /\ s' = seq
    /\ wpc' = "mark"
    /\ UNCHANGED <<i, prices>>

MarkStart ==
    /\ wpc = "mark"
    /\ seq' = s + 1
    /\ wpc' = "mid"
    /\ UNCHANGED <<mid, spread, n_updates, i, s>>

StoreMid ==
    /\ wpc = "mid"
    /\ mid' = i + 1
    /\ wpc' = "spread"
    /\ UNCHANGED <<seq, spread, n_updates, i, s>>

StoreSpread ==
    /\ wpc = "spread"
    /\ spread' = i + 1
    /\ wpc' = "count"
    /\ UNCHANGED <<seq, mid, n_updates, i, s>>

CountUpdate ==
    /\ wpc = "count"
    /\ n_updates' = n_updates + 1
    /\ wpc' = "done"
    /\ UNCHANGED <<seq, mid, spread, i, s>>

\* Defect: the counter stays odd.
Even_Forgotten == s + 1

Even == s + 2

MarkDone ==
    /\ wpc = "done"
    /\ seq' = Even
    /\ i' = i + 1
    /\ wpc' = "load"
    /\ UNCHANGED <<mid, spread, n_updates, s>>

Publish ==
    LoadSeq \/ MarkStart \/ StoreMid \/ StoreSpread \/ CountUpdate \/ MarkDone

\* The child leaves its loop and exits.
WriterExits ==
    /\ wpc = "load"
    /\ i = NUpdates
    /\ wpc' = "end"
    /\ UNCHANGED <<prices, i, s, reader>>

-------------------------------------------------------------------------------
(* The parent.                                                             *)

Stable(x) == x % 2 = 0

\* An odd counter sends the loop back to its start.
ReadS1 ==
    /\ rpc = "s1"
    /\ seen < NUpdates
    /\ s1' = seq
    /\ rpc' = IF Stable(seq) THEN "mid" ELSE "s1"
    /\ UNCHANGED <<prices, writer, rmid, rspread, nu, seen, report>>

ReadMid ==
    /\ rpc = "mid"
    /\ rmid' = mid
    /\ rpc' = "spread"
    /\ UNCHANGED <<prices, writer, s1, rspread, nu, seen, report>>

ReadSpread ==
    /\ rpc = "spread"
    /\ rspread' = spread
    /\ rpc' = "s2"
    /\ UNCHANGED <<prices, writer, s1, rmid, nu, seen, report>>

\* Defect: the second test only asks for an even counter.
Unchanged_Even(x) == x % 2 = 0

Unchanged(x) == s1 = x

ReadS2 ==
    /\ rpc = "s2"
    /\ rpc' = IF Unchanged(seq) THEN "nu" ELSE "s1"
    /\ UNCHANGED <<prices, writer, s1, rmid, rspread, nu, seen, report>>

ReadCount ==
    /\ rpc = "nu"
    /\ nu' = n_updates
    /\ rpc' = "report"
    /\ UNCHANGED <<prices, writer, s1, rmid, rspread, seen, report>>

\* Defect: every pass of the loop counts as an update seen.
Seen_Counts == seen + 1

Seen == nu

Report ==
    /\ rpc = "report"
    /\ \/ /\ nu > seen
          /\ report' = <<nu, rmid, rspread>>
          /\ seen' = Seen
       \/ /\ nu <= seen
          /\ UNCHANGED <<report, seen>>
    /\ rpc' = "s1"
    /\ UNCHANGED <<prices, writer, s1, rmid, rspread, nu>>

\* The loop ends; waitpid() and munmap() follow once the child is gone.
ReaderEnds ==
    /\ rpc = "s1"
    /\ seen >= NUpdates
    /\ wpc = "end"
    /\ rpc' = "end"
    /\ UNCHANGED <<prices, writer, s1, rmid, rspread, nu, seen, report>>

-------------------------------------------------------------------------------

ChildStep == (Publish /\ UNCHANGED reader) \/ WriterExits

ParentStep ==
    ReadS1 \/ ReadMid \/ ReadSpread \/ ReadS2 \/ ReadCount \/ Report \/ ReaderEnds

Ended == rpc = "end" /\ UNCHANGED vars

Next == ChildStep \/ ParentStep \/ Ended

Spec == Init /\ [][Next]_vars

\* Both processes are scheduled; the spinning parent calls sched_yield().
FairSpec == Spec /\ WF_vars(ChildStep) /\ WF_vars(ParentStep)

-------------------------------------------------------------------------------
(* Properties.                                                             *)

\* "Reader spins until seq is even and stable": the pair of prices that
\* passes both tests belongs to one update, never half to the next.
NotTorn == rpc \in {"nu", "report"} => rmid = rspread

\* What the parent prints as update n is whole and never newer than update n,
\* although the label comes from a load after the seqlock's last test.
LabelNotBehind == report[1] >= report[2] /\ report[2] = report[3]

\* Each report is newer than the one before: no update is printed twice and
\* the labels never go back.
LabelsIncrease == [][report' # report => report'[1] > report[1]]_vars

\* The parent leaves its loop only after all updates were published, and the
\* demo ends.
Completes == <>(rpc = "end" /\ seen = NUpdates /\ n_updates = NUpdates)

-------------------------------------------------------------------------------
(* The inductive invariant behind NotTorn.                                 *)

\* How far the writer is with update i + 1.
MidDone == wpc \in {"spread", "count", "done"}
SpreadDone == wpc \in {"count", "done"}
CountDone == wpc = "done"
InUpdate == wpc \in {"mid", "spread", "count", "done"}

WriterShape ==
    /\ seq = 2 * i + (IF InUpdate THEN 1 ELSE 0)
    /\ mid = i + (IF MidDone THEN 1 ELSE 0)
    /\ spread = i + (IF SpreadDone THEN 1 ELSE 0)
    /\ n_updates = i + (IF CountDone THEN 1 ELSE 0)
    /\ wpc = "mark" \/ InUpdate => s = 2 * i /\ i < NUpdates

\* Data read since an even s1 is that of update s1 / 2 while seq is unchanged.
ReaderShape ==
    /\ s1 <= seq
    /\ rpc \in {"mid", "spread", "s2", "nu", "report"} => s1 % 2 = 0
    /\ rpc \in {"spread", "s2"} /\ s1 = seq => 2 * rmid = s1
    /\ rpc = "s2" /\ s1 = seq => 2 * rspread = s1
    /\ rpc \in {"nu", "report"} => 2 * rmid = s1 /\ 2 * rspread = s1
    /\ rpc = "report" => rmid <= nu
    /\ nu <= n_updates
    /\ seen <= n_updates
    /\ seen = report[1]
    /\ LabelNotBehind

SeqlockInv == TypeInv /\ WriterShape /\ ReaderShape

-------------------------------------------------------------------------------
(* Proofs.                                                                 *)

\* Before the first update everything is zero and the reader has read nothing.
LEMMA InvInit == Init => SeqlockInv
  BY UpdatesAssumption
  DEF Init, WriterInit, SeqlockInv, TypeInv, WriterTypeInv, WriterShape, ReaderShape,
      LabelNotBehind, MidDone, SpreadDone, CountDone, InUpdate

\* An even counter means that no update is being written.
LEMMA EvenIsQuiet ==
  ASSUME TypeInv, WriterShape, seq % 2 = 0
  PROVE  ~InUpdate /\ seq = 2 * i /\ mid = i /\ spread = i
  BY DEF TypeInv, WriterTypeInv, WriterShape, InUpdate, MidDone, SpreadDone, CountDone

\* A step of the child keeps the invariant: while it changes the prices the
\* counter differs from every even value the parent may have read.
LEMMA ChildStepInv == SeqlockInv /\ ChildStep => SeqlockInv'
  <1> SUFFICES ASSUME SeqlockInv, ChildStep
               PROVE  SeqlockInv'
    OBVIOUS
  <1> USE UpdatesAssumption
      DEF SeqlockInv, TypeInv, WriterTypeInv, WriterShape, ReaderShape, LabelNotBehind,
          MidDone, SpreadDone, CountDone, InUpdate, prices, writer, reader
  <1>1. CASE LoadSeq /\ UNCHANGED reader
    BY <1>1 DEF LoadSeq, MoreUpdates
  <1>2. CASE MarkStart /\ UNCHANGED reader
    BY <1>2 DEF MarkStart
  <1>3. CASE StoreMid /\ UNCHANGED reader
    BY <1>3 DEF StoreMid
  <1>4. CASE StoreSpread /\ UNCHANGED reader
    BY <1>4 DEF StoreSpread
  <1>5. CASE CountUpdate /\ UNCHANGED reader
    BY <1>5 DEF CountUpdate
  <1>6. CASE MarkDone /\ UNCHANGED reader
    BY <1>6 DEF MarkDone, Even
  <1>7. CASE WriterExits
    BY <1>7 DEF WriterExits
  <1> QED
    BY <1>1, <1>2, <1>3, <1>4, <1>5, <1>6, <1>7 DEF ChildStep, Publish

\* A step of the parent keeps the invariant: what it reads while the counter
\* still has the value s1 belongs to update s1 / 2.
LEMMA ParentStepInv == SeqlockInv /\ ParentStep => SeqlockInv'
  <1> SUFFICES ASSUME SeqlockInv, ParentStep
               PROVE  SeqlockInv'
    OBVIOUS
  <1> USE UpdatesAssumption
      DEF SeqlockInv, TypeInv, WriterTypeInv, WriterShape, ReaderShape, LabelNotBehind,
          MidDone, SpreadDone, CountDone, InUpdate, prices, writer, reader
  <1>1. CASE ReadS1
    BY <1>1 DEF ReadS1, Stable
  <1>2. CASE ReadMid
    BY <1>2, EvenIsQuiet DEF ReadMid
  <1>3. CASE ReadSpread
    BY <1>3, EvenIsQuiet DEF ReadSpread
  <1>4. CASE ReadS2
    BY <1>4 DEF ReadS2, Unchanged
  <1>5. CASE ReadCount
    BY <1>5 DEF ReadCount
  <1>6. CASE Report
    BY <1>6 DEF Report, Seen
  <1>7. CASE ReaderEnds
    BY <1>7 DEF ReaderEnds
  <1> QED
    BY <1>1, <1>2, <1>3, <1>4, <1>5, <1>6, <1>7 DEF ParentStep

\* The inductive invariant of the two processes.
THEOREM SeqlockInvariant == Spec => []SeqlockInv
  <1>1. SeqlockInv /\ [Next]_vars => SeqlockInv'
    <2>1. SeqlockInv /\ UNCHANGED vars => SeqlockInv'
      BY DEF vars, prices, writer, reader, SeqlockInv, TypeInv, WriterTypeInv, WriterShape,
             ReaderShape, LabelNotBehind, MidDone, SpreadDone, CountDone, InUpdate
    <2> QED
      BY <2>1, ChildStepInv, ParentStepInv DEF Next, Ended
  <1> QED
    BY <1>1, InvInit, PTL DEF Spec

\* The pair of prices that passes both tests of the reader belongs to one
\* update, however many updates are published and however the two processes
\* are interleaved.
THEOREM NeverTorn == Spec => []NotTorn
  <1>1. SeqlockInv => NotTorn
    BY DEF SeqlockInv, TypeInv, ReaderShape, NotTorn
  <1> QED
    BY <1>1, SeqlockInvariant, PTL

\* The label the reader prints is never behind the data it prints.
THEOREM LabelsNotBehind == Spec => []LabelNotBehind
  <1>1. SeqlockInv => LabelNotBehind
    BY DEF SeqlockInv, ReaderShape
  <1> QED
    BY <1>1, SeqlockInvariant, PTL

\* No update is printed twice and the printed labels never go back.
THEOREM LabelsGrow == Spec => LabelsIncrease
  <1>1. SeqlockInv /\ [Next]_vars => [report' # report => report'[1] > report[1]]_vars
    <2> SUFFICES ASSUME SeqlockInv, Next, report' # report
                 PROVE  report'[1] > report[1]
      OBVIOUS
    <2>1. Report
      BY DEF Next, ChildStep, Publish, LoadSeq, MarkStart, StoreMid, StoreSpread, CountUpdate,
             MarkDone, WriterExits, ParentStep, ReadS1, ReadMid, ReadSpread, ReadS2, ReadCount,
             ReaderEnds, Ended, vars, reader
    <2> QED
      BY <2>1 DEF Report, SeqlockInv, TypeInv, ReaderShape
  <1> QED
    BY <1>1, SeqlockInvariant, PTL DEF Spec, LabelsIncrease
================================================================================
