--------------------------- MODULE SampleIngress ---------------------------
(* Core 0's owner of source identity and overload accounting
   (node/measurement/source_sequencer.h and sample_ingress.h).  It gives
   every event its sequences before the event crosses the bounded queue,
   and keeps what the queue refused in a few pending events.  An ingress
   is a record; the methods that push (publish and flush) are the steps of
   SensorStream, since the other core may pop between two pushes. *)
EXTENDS Naturals, Sequences

CONSTANTS
  PendingCapacity,      \* events an ingress may hold back
  MaxSequence           \* UINT64_MAX of the source cursor

ASSUME IngressAssumption ==
  /\ PendingCapacity \in Nat \ {0}
  /\ MaxSequence \in Nat \ {0}

Unknown == "UnknownDiscontinuity"

(* An event occupies `count' sequences from `first'; `what' is its sample
   or its reason. *)
IngressEvent(kind, first, count, what) ==
  [kind |-> kind, first |-> first, count |-> count, what |-> what]

event_end(e) == e.first + e.count

NewIngress == [next |-> 0, pending |-> <<>>, faulted |-> FALSE]

(* SourceSequencer: whether `count' more sequences exist, and the cursor
   after they are taken. *)
can_claim(in, count) == in.next <= MaxSequence - count

claim(in, count) == [in EXCEPT !.next = @ + count]

(* Mutant: an overflow of the pending events is dropped in silence. *)
buffer_event_dropping(in, e) ==
  IF Len(in.pending) = PendingCapacity THEN in
  ELSE [in EXCEPT !.pending = Append(@, e)]

buffer_event(in, e) ==
  IF Len(in.pending) = PendingCapacity THEN [in EXCEPT !.faulted = TRUE]
  ELSE [in EXCEPT !.pending = Append(@, e)]

(* The last pending gap grown by `count' sequences lost for `reason'. *)
merged_gap(last, count, reason) ==
  [last EXCEPT !.count = @ + count,
               !.what = IF @ = reason THEN @ ELSE Unknown]

account_missing(in, first, count, reason) ==
  LET n == Len(in.pending)
      last == in.pending[n]
  IN  IF n # 0 /\ in.pending[n].kind = "Gap"
      THEN IF event_end(last) # first \/ last.count > MaxSequence - count
           THEN [in EXCEPT !.faulted = TRUE]
           ELSE [in EXCEPT !.pending[n] = merged_gap(last, count, reason)]
      ELSE buffer_event(in, IngressEvent("Gap", first, count, reason))

(* What publish_sample and publish_continuity_break do with a claimed
   event the queue has no room for. *)
account_refused(in, e) ==
  IF e.kind = "Sample"
  THEN account_missing(in, e.first, 1, "IngressOverflow")
  ELSE buffer_event(in, e)

pop_pending(in) == [in EXCEPT !.pending = Tail(@)]
=============================================================================
