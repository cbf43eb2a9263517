------------------------------ MODULE KeyQueue ------------------------------
(***************************************************************************)
(* What the keyboard driver promises its readers (docs/drivers.md, "The    *)
(* circular buffer"): a FIFO of bounded length that drops the new key when *)
(* it is full, and delivers every other key once, in order.                *)
(***************************************************************************)
EXTENDS Integers, Sequences

CONSTANTS Keys, Capacity, KEY_NONE

VARIABLES queue, out

Init == queue = <<>> /\ out = KEY_NONE

Put(k) ==
  /\ queue' = IF Len(queue) < Capacity THEN Append(queue, k) ELSE queue
  /\ UNCHANGED out

Get ==
  /\ queue # <<>>
  /\ out' = Head(queue)
  /\ queue' = Tail(queue)

Next == Get \/ \E k \in Keys : Put(k)

Spec == Init /\ [][Next]_<<queue, out>>
=============================================================================
