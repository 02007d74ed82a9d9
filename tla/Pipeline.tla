-------------------------------- MODULE Pipeline -------------------------------
(***************************************************************************)
(* Generator<T> and the adaptors of src/coroutines/07_pipeline.cpp (and    *)
(* Generator<T>, range and squared_range of 01_generator.cpp).  A pipeline *)
(* is a source, a sequence of adaptors and a consumer; a resume() goes     *)
(* from the consumer towards the source and control comes back with        *)
(* co_yield or with the end of a body.  Each behaviour is one pipeline.    *)
(***************************************************************************)
EXTENDS Integers, Sequences, FiniteSets, SequencesExt

CONSTANTS
    Adaptors,   \* records [op, n]
    MaxStages,  \* bound on the length of a pipeline
    Lengths,    \* lengths of the finite sources; Infinite for iota
    MaxSource   \* bound on what an infinite source produces

Infinite == -1

Stages == 0 .. MaxStages

VARIABLES
    pipe,      \* the adaptors, the one next to the source first
    length,    \* length of the source
    running,   \* 0 the source, k adaptor k, Len(pipe) + 1 the consumer
    resumed,   \* TRUE: control has come from resume(), FALSE: by co_yield or return
    produced,  \* what the source has produced; its values are 1, 2, 3, ...
    current,   \* stage -> promise().current
    done,      \* stage -> handle_.done()
    count,     \* stage -> count, skipped or acc
    out,       \* what the consumer has received
    finished   \* the consumer has seen the "end", or has "left" its loop before

vars == <<pipe, length, running, resumed, produced, current, done, count, out, finished>>

Consumer == Len(pipe) + 1

TypeInv ==
    /\ pipe \in UNION {[1 .. m -> Adaptors] : m \in Stages} /\ length \in Lengths
    /\ running \in 0 .. Consumer
    /\ resumed \in BOOLEAN /\ finished \in {"no", "end", "left"}
    /\ produced \in 0 .. MaxSource
    /\ current \in [Stages -> Nat] /\ done \in [Stages -> BOOLEAN] /\ count \in [Stages -> Nat]

\* initial_suspend returns suspend_always: nothing runs before the first pull.
Started == 0

Init ==
    /\ pipe \in UNION {[1 .. m -> Adaptors] : m \in Stages}
    /\ length \in Lengths
    /\ running = Consumer /\ resumed = TRUE
    /\ produced = Started
    /\ current = [k \in Stages |-> 0]
    /\ done = [k \in Stages |-> FALSE]
    /\ count = [k \in Stages |-> 0]
    /\ out = <<>> /\ finished = "no"

-------------------------------------------------------------------------------

\* co_yield v, or the end of the body, in stage k: back to whoever resumed it.
Yield(k, v) ==
    /\ running' = k + 1 /\ resumed' = FALSE
    /\ current' = [current EXCEPT ![k] = v] /\ UNCHANGED done

Return(k) ==
    /\ running' = k + 1 /\ resumed' = FALSE
    /\ done' = [done EXCEPT ![k] = TRUE] /\ UNCHANGED current

\* resume() of stage k.
Pull(k) == running' = k /\ resumed' = TRUE /\ UNCHANGED <<current, done>>

\* co_yield i of a range that starts at 1, as squared_range's.
Element(i) == i + 1

\* of, range and iota.
Source ==
    /\ running = 0 /\ produced < MaxSource
    /\ IF produced = length
       THEN Return(0) /\ UNCHANGED produced
       ELSE Yield(0, Element(produced)) /\ produced' = produced + 1
    /\ UNCHANGED <<pipe, length, count, out, finished>>

\* The loop of an adaptor: begin() or ++, which resumes the stage before it.
Adaptor_Next(k) ==
    /\ running = k /\ k \in 1 .. Len(pipe) /\ resumed
    /\ Pull(k - 1)
    /\ UNCHANGED <<pipe, length, produced, count, out, finished>>

\* it == default_sentinel: the body ends.
Adaptor_End(k) ==
    /\ running = k /\ k \in 1 .. Len(pipe) /\ ~resumed
    /\ done[k - 1]
    /\ Return(k)
    /\ UNCHANGED <<pipe, length, produced, count, out, finished>>

\* count++ >= n
Taken(c, n) == c >= n

\* skipped++ < n
Skips(c, n) == c < n

\* acc = combine(acc, v)
Combine(acc, v) == acc + v

Square(v) == v * v
Even(v) == v % 2 = 0

\* The body of an adaptor with the next element of the stage before it.
Adaptor_Element(k) ==
    /\ running = k /\ k \in 1 .. Len(pipe) /\ ~resumed
    /\ ~done[k - 1]
    /\ LET v == current[k - 1]
           a == pipe[k]
       IN CASE a.op = "map" -> Yield(k, Square(v)) /\ UNCHANGED count
            [] a.op = "filter" ->
                 /\ IF Even(v) THEN Yield(k, v) ELSE Pull(k - 1)
                 /\ UNCHANGED count
            [] a.op = "take" ->
                 /\ IF Taken(count[k], a.n) THEN Return(k) ELSE Yield(k, v)
                 /\ count' = [count EXCEPT ![k] = @ + 1]
            [] a.op = "drop" ->
                 /\ IF Skips(count[k], a.n) THEN Pull(k - 1) ELSE Yield(k, v)
                 /\ count' = [count EXCEPT ![k] = @ + 1]
            [] a.op = "scan" ->
                 /\ Yield(k, Combine(count[k], v))
                 /\ count' = [count EXCEPT ![k] = Combine(@, v)]
    /\ UNCHANGED <<pipe, length, produced, out, finished>>

\* The loop of print_all or collect asks for the next element.
Consumer_Next ==
    /\ running = Consumer /\ resumed /\ finished = "no"
    /\ Pull(Len(pipe))
    /\ UNCHANGED <<pipe, length, produced, count, out, finished>>

\* it == default_sentinel
AtEnd == done[Len(pipe)]

Consumer_Element ==
    /\ running = Consumer /\ ~resumed
    /\ resumed' = TRUE
    /\ finished' = IF AtEnd THEN "end" ELSE "no"
    /\ out' = IF AtEnd THEN out ELSE Append(out, current[Len(pipe)])
    /\ UNCHANGED <<pipe, length, running, produced, current, done, count>>

\* A consumer that pulls by hand leaves after some element; ~Generator destroys
\* the frames where they are suspended.
Consumer_Leave ==
    /\ running = Consumer /\ resumed /\ finished = "no" /\ out # <<>>
    /\ finished' = "left"
    /\ UNCHANGED <<pipe, length, running, resumed, produced, current, done, count, out>>

Next ==
    \/ Source \/ Consumer_Next \/ Consumer_Element \/ Consumer_Leave
    \/ \E k \in 1 .. MaxStages : Adaptor_Next(k) \/ Adaptor_End(k) \/ Adaptor_Element(k)

Spec == Init /\ [][Next]_vars

-------------------------------------------------------------------------------
(* Properties.                                                             *)

\* What an adaptor makes of a list.
Applied(s, a) ==
    CASE a.op = "map"    -> [j \in DOMAIN s |-> s[j] * s[j]]
      [] a.op = "filter" -> SelectSeq(s, LAMBDA v : v % 2 = 0)
      [] a.op = "take"   -> SubSeq(s, 1, IF Len(s) < a.n THEN Len(s) ELSE a.n)
      [] a.op = "drop"   -> SubSeq(s, a.n + 1, Len(s))
      [] a.op = "scan"   -> [j \in DOMAIN s |-> FoldSeq(+, 0, SubSeq(s, 1, j))]

\* What a pipeline makes of the first m elements of its source.
Reference(m) == FoldLeft(Applied, [j \in 1 .. m |-> j], pipe)

\* A pipeline that has come to its end has delivered what the adaptors make of
\* the whole source as a list.
FinishedRight ==
    finished = "end" => out = Reference(IF length = Infinite THEN MaxSource ELSE length)

\* "nothing is computed until the consumer asks for the next element": while
\* the consumer has control, the source has produced what the elements that
\* were delivered need and not one element more.
OnDemand ==
    running = Consumer /\ resumed /\ finished # "end" =>
        /\ Reference(produced) = out
        /\ IF out = <<>> THEN produced = 0 ELSE Len(Reference(produced - 1)) < Len(out)

\* A generator whose body has ended is not resumed again, which would be
\* undefined.
NoResumeAfterEnd == resumed /\ running # Consumer => ~done[running]
================================================================================
