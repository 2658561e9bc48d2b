------------------------------ MODULE MCStorage ------------------------------
(* The capture on disk: how its segments are written and how they are deleted.  Two
   windows of two samples, two archive products, one fault of a cleanup. *)
EXTENDS RetentionCleanup, RetentionCheckpoint, MCCaptureSegments

CONSTANTS pa, pb, none, closed

Span(s, first, end) == [segment |-> SegmentKey(s), first |-> first, end |-> end]
Index(p, partition, supersedes, inputs) ==
    [product |-> p, hardware |-> "sensor", partition |-> partition,
     number |-> IF supersedes = none THEN 0 ELSE 1, supersedes |-> supersedes, inputs |-> inputs]

\* The first product ends within segment 1; the second completes it, leaves a gap,
\* overlaps the first, is refused for its partition, or replaces the first.
MCIndexes ==
    {Index(pa, UtcHour(0), none, {Span(0, 0, 2), Span(1, 2, 3)}),
     Index(pa, UtcHour(1), none, {Span(0, 0, 2)}),
     Index(pb, UtcHour(3600), none, {Span(1, 3, 4)}),
     Index(pb, TimeUnresolved(1, 2, 4), none, {Span(1, 2, 4)}),
     Index(pb, TimeUnresolved(1, 3, 4), none, {Span(1, 2, 4)}),
     Index(pb, UtcHour(0), pa, {Span(0, 0, 2), Span(1, 2, 4)})}

\* The cleanups, the older checkpoint and the segment writer share nothing here: a
\* behaviour explores one of them.
VARIABLE part

Parts == {"cleanup", "checkpoint", "segments"}
MCInit ==
    /\ part \in Parts
    /\ Init /\ CheckpointInit /\ SegmentInit
    /\ part # "segments" => budget.power = 0
    /\ part # "cleanup" => ~power

MCNext ==
    \/ part = "cleanup" /\ Next /\ UNCHANGED <<checkpoint_vars, segmentVars, part>>
    \/ part = "checkpoint" /\ CheckpointNext /\ UNCHANGED <<vars, segmentVars, part>>
    \/ part = "segments" /\ SegmentNext /\ UNCHANGED <<vars, checkpoint_vars, part>>

MCSpec == MCInit /\ [][MCNext]_<<vars, checkpoint_vars, segmentVars, part>>
=============================================================================
