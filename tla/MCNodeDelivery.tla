--------------------------- MODULE MCNodeDelivery ---------------------------
(* NodeDelivery for TLC: a two-slot ring, one-record ledgers and a
   sequence space that ends, so that collapse, trimming, wrap of the ring
   and exhaustion all happen.  The queue that feeds the journal shares no
   state with its delivery: a behaviour explores one or the other. *)
EXTENDS NodeDelivery, SpscQueue

Record(payload, time, revision, in_range) ==
  [payload |-> payload, in_range |-> in_range, device_time_us |-> time,
   timing_valid |-> TRUE, config_revision |-> revision,
   timing_segment_id |-> 1]

(* Two records a chunk may join, one of the next revision, one the journal
   must refuse. *)
MCSampleRecords ==
  {Record("a", 1, 1, TRUE), Record("b", 2, 1, TRUE), Record("a", 2, 2, TRUE),
   Record("a", 1, 1, FALSE)}

VARIABLE part

MCInit == Init /\ QueueInit /\ part \in {"journal", "queue"}
MCNext ==
  \/ part = "journal" /\ Next /\ UNCHANGED <<queueVars, part>>
  \/ part = "queue" /\ QueueNext /\ UNCHANGED <<vars, part>>
MCSpec == MCInit /\ [][MCNext]_<<vars, queueVars, part>>
=============================================================================
