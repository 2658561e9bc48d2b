---------------------------- MODULE BoundedFifo ----------------------------
(* What the cross-core queue promises its two owners: a first-in first-out
   sequence of at most Capacity values, each taken once. *)
EXTENDS Naturals, Sequences

CONSTANTS Capacity, Values, NoValue

VARIABLES
  fifo,                 \* values pushed and not yet taken
  taken                 \* the value last taken

Init == fifo = <<>> /\ taken = NoValue

Push ==
  /\ Len(fifo) < Capacity
  /\ \E v \in Values : fifo' = Append(fifo, v)
  /\ UNCHANGED taken

Pop ==
  /\ fifo # <<>>
  /\ taken' = Head(fifo)
  /\ fifo' = Tail(fifo)

Spec == Init /\ [][Push \/ Pop]_<<fifo, taken>>
=============================================================================
