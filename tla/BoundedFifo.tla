------------------------------ MODULE BoundedFifo ------------------------------
(***************************************************************************)
(* A first-in first-out channel between one producer and one consumer that *)
(* holds at most Bound items: what a single-producer single-consumer ring  *)
(* promises.  The producer sends 0, 1, 2, ...                              *)
(***************************************************************************)
EXTENDS Integers, Sequences

CONSTANT Bound

VARIABLES items,   \* sent and not yet delivered
          sent,    \* number of items sent
          last     \* the item delivered last, -1 before the first delivery

Init == items = <<>> /\ sent = 0 /\ last = -1

Put ==
    /\ Len(items) < Bound
    /\ items' = Append(items, sent)
    /\ sent' = sent + 1
    /\ UNCHANGED last

Get ==
    /\ items # <<>>
    /\ last' = Head(items)
    /\ items' = Tail(items)
    /\ UNCHANGED sent

Next == Put \/ Get

Spec == Init /\ [][Next]_<<items, sent, last>>
================================================================================
