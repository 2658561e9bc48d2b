------------------------- MODULE MeasurementJournal -------------------------
(* The node's measurement journal (node/measurement/measurement_journal.h)
   with the two ledgers it owns (stream_gap.h, stream_continuity.h), as a
   data type: a journal is one record, every method an operator that
   returns the method's status and the journal after the call.  Modules
   that own a journal keep the record in a variable.

   Sequences are uint64_t; MaxSequence stands for UINT64_MAX, so a small
   instance reaches the exhausted sequence space. *)
EXTENDS Integers, Sequences, FiniteSets

CONSTANTS
  SampleCapacity,       \* slots of the sample ring
  GapCapacity,          \* records of the gap ledger
  ContinuityCapacity,   \* records of the continuity ledger
  MaxSequence,          \* UINT64_MAX
  SampleRecords,        \* sample payloads the source can present
  NoSample              \* a ring slot that was never written

ASSUME CapacityAssumption ==
  /\ SampleCapacity \in Nat \ {0}
  /\ GapCapacity \in Nat \ {0}
  /\ ContinuityCapacity \in Nat \ {0}
  /\ MaxSequence \in Nat \ {0}

(* A sample keeps what the journal and the host tell apart: its payload,
   whether axes and quality flags are in range, its time stamp and whether
   the stamp is flagged valid, and the identifiers that bound a chunk. *)
ASSUME SampleAssumption ==
  /\ NoSample \notin SampleRecords
  /\ \A r \in SampleRecords :
       /\ r.in_range \in BOOLEAN
       /\ r.device_time_us \in Nat
       /\ r.timing_valid \in BOOLEAN
       /\ r.config_revision \in Nat
       /\ r.timing_segment_id \in Nat

GapReason == {"UnknownDiscontinuity", "SourceLoss", "IngressOverflow"}
ContinuityBreakReason ==
  {"Unknown", "SensorOverflow", "SensorReadUncertain", "InvalidTiming",
   "ProcessingReset"}

Sequence == 0..MaxSequence

valid_sample_record(sample) ==
  /\ sample.in_range
  /\ sample.config_revision # 0
  /\ sample.timing_segment_id # 0

------------------------
(* GapLedger: exact missing ranges, oldest first. *)

GapRecord ==
  [first_missing : Nat, missing_count : Nat, reason : GapReason]

gap_end(g) == g.first_missing + g.missing_count

gap_valid(g) ==
  /\ g.missing_count # 0
  /\ g.first_missing <= MaxSequence - g.missing_count
  /\ g.reason \in GapReason

gap_append(gaps, g) ==
  LET last == gaps[Len(gaps)]
      adjacent == gaps # <<>> /\ g.first_missing = gap_end(last)
                              /\ g.reason = last.reason
      merged == [last EXCEPT !.missing_count = @ + g.missing_count]
      result(status, after) == [status |-> status, gaps |-> after]
  IN  IF ~gap_valid(g) THEN result("InvalidGap", gaps)
      ELSE IF gaps # <<>> /\ g.first_missing < gap_end(last)
           THEN result("OutOfOrder", gaps)
      ELSE IF adjacent
           THEN IF last.missing_count > MaxSequence - g.missing_count
                THEN result("InvalidGap", gaps)
                ELSE result("Coalesced", [gaps EXCEPT ![Len(gaps)] = merged])
      ELSE IF Len(gaps) = GapCapacity THEN result("Full", gaps)
      ELSE result("Ok", Append(gaps, g))

(* A lookup is the set of at most one record it found.  The rest of the
   gap that holds `sequence'. *)
gap_containing(gaps, sequence) ==
  {[first_missing |-> sequence,
    missing_count |-> gap_end(gaps[i]) - sequence,
    reason        |-> gaps[i].reason] :
      i \in {k \in DOMAIN gaps : /\ gaps[k].first_missing <= sequence
                                 /\ sequence < gap_end(gaps[k])}}

(* The first gap that ends after `sequence'. *)
gap_next_from(gaps, sequence) ==
  {gaps[i] : i \in {k \in DOMAIN gaps :
                      /\ gap_end(gaps[k]) > sequence
                      /\ \A m \in 1..(k - 1) : gap_end(gaps[m]) <= sequence}}

(* Mutant: the pop loop keeps a record that ends exactly at the cursor. *)
gaps_popped_strict(gaps, cursor) ==
  CHOOSE n \in 0..Len(gaps) :
    /\ \A k \in 1..n : gap_end(gaps[k]) < cursor
    /\ n < Len(gaps) => gap_end(gaps[n + 1]) >= cursor

(* How many records the pop loop removes before it meets one that ends
   after the cursor. *)
gaps_popped(gaps, cursor) ==
  CHOOSE n \in 0..Len(gaps) :
    /\ \A k \in 1..n : gap_end(gaps[k]) <= cursor
    /\ n < Len(gaps) => gap_end(gaps[n + 1]) > cursor

(* A gap crossing the cursor keeps its remaining part. *)
gap_trimmed(g, cursor) ==
  IF g.first_missing < cursor
  THEN [g EXCEPT !.missing_count = gap_end(g) - cursor,
                 !.first_missing = cursor]
  ELSE g

gap_discard_before(gaps, cursor) ==
  LET n == gaps_popped(gaps, cursor)
  IN  [k \in 1..(Len(gaps) - n) |->
         IF k = 1 THEN gap_trimmed(gaps[n + 1], cursor) ELSE gaps[n + k]]

------------------------
(* ContinuityLedger: a break occupies one logical position. *)

ContinuityBreakRecord ==
  [at_sequence : Nat, reason : ContinuityBreakReason]

break_end(b) == b.at_sequence + 1

break_valid(b) ==
  /\ b.at_sequence # MaxSequence
  /\ b.reason \in ContinuityBreakReason

break_append(breaks, b) ==
  LET result(status, after) == [status |-> status, breaks |-> after]
  IN  IF ~break_valid(b) THEN result("InvalidBreak", breaks)
      ELSE IF breaks # <<>> /\ b.at_sequence < break_end(breaks[Len(breaks)])
           THEN result("OutOfOrder", breaks)
      ELSE IF Len(breaks) = ContinuityCapacity THEN result("Full", breaks)
      ELSE result("Ok", Append(breaks, b))

break_containing(breaks, sequence) ==
  {breaks[i] : i \in {k \in DOMAIN breaks : breaks[k].at_sequence = sequence}}

break_next_from(breaks, sequence) ==
  {breaks[i] : i \in {k \in DOMAIN breaks :
                        /\ breaks[k].at_sequence >= sequence
                        /\ \A m \in 1..(k - 1) :
                             breaks[m].at_sequence < sequence}}

breaks_popped(breaks, cursor) ==
  CHOOSE n \in 0..Len(breaks) :
    /\ \A k \in 1..n : break_end(breaks[k]) <= cursor
    /\ n < Len(breaks) => break_end(breaks[n + 1]) > cursor

break_discard_before(breaks, cursor) ==
  LET n == breaks_popped(breaks, cursor)
  IN  [k \in 1..(Len(breaks) - n) |-> breaks[n + k]]

------------------------
(* The journal. *)

EmptyJournal ==
  [samples             |-> [i \in 0..(SampleCapacity - 1) |-> NoSample],
   sample_head         |-> 0,
   sample_size         |-> 0,
   gaps                |-> <<>>,
   continuity          |-> <<>>,
   retained_from       |-> 0,
   produced            |-> 0,
   delivered           |-> 0,
   released            |-> 0,
   discarded_samples   |-> 0,
   discarded_sequences |-> 0,
   retention_collapses |-> 0,
   prepared_valid      |-> FALSE,
   prepared_through    |-> 0]

(* Mutant: an append or release leaves the prepared view standing. *)
keep_prepared_view(j) == j

invalidate_prepared_view(j) ==
  [j EXCEPT !.prepared_valid = FALSE, !.prepared_through = 0]

(* Mutant: the prepared cursor is taken as inclusive. *)
prepare_through_inclusive(j, cursor) ==
  [j EXCEPT !.prepared_valid = TRUE, !.prepared_through = cursor + 1]

prepare_through(j, cursor) ==
  [j EXCEPT !.prepared_valid = TRUE, !.prepared_through = cursor]

sample_physical_index(j, offset) == (j.sample_head + offset) % SampleCapacity

(* The positions of [begin, end) that some gap, or some break, occupies. *)
gap_positions(j, begin, end) ==
  {s \in begin..(end - 1) : \E i \in DOMAIN j.gaps :
       j.gaps[i].first_missing <= s /\ s < gap_end(j.gaps[i])}

break_positions(j, begin, end) ==
  {s \in begin..(end - 1) : \E i \in DOMAIN j.continuity :
       j.continuity[i].at_sequence = s}

samples_between(j, begin, end) ==
  IF end <= begin THEN 0
  ELSE (end - begin) - Cardinality(gap_positions(j, begin, end))
                     - Cardinality(break_positions(j, begin, end))

(* The oldest retained position that is neither gap nor break, or
   UINT64_MAX when the ring is empty. *)
first_sample_sequence(j) ==
  LET candidates == {s \in j.retained_from..(j.produced - 1) :
                       /\ gap_containing(j.gaps, s) = {}
                       /\ break_containing(j.continuity, s) = {}}
  IN  IF candidates = {} THEN MaxSequence
      ELSE CHOOSE s \in candidates : \A t \in candidates : s <= t

discard_retention_before(j, cursor, is_loss) ==
  LET remove == samples_between(j, j.retained_from, cursor)
      kept == [j EXCEPT
                 !.sample_head   = (@ + remove) % SampleCapacity,
                 !.sample_size   = @ - remove,
                 !.gaps          = gap_discard_before(@, cursor),
                 !.continuity    = break_discard_before(@, cursor),
                 !.retained_from = cursor]
      counted == [kept EXCEPT
                    !.discarded_samples   = @ + remove,
                    !.discarded_sequences = @ + (cursor - j.retained_from),
                    !.retention_collapses = @ + 1]
  IN  IF \/ cursor < j.retained_from
         \/ cursor > j.produced
         \/ remove > j.sample_size
      THEN [ok |-> FALSE, journal |-> j]
      ELSE [ok |-> TRUE, journal |-> IF is_loss THEN counted ELSE kept]

------------------------
(* Appending.  Each returns [status, journal]. *)

push_sample(j, sample) ==
  [j EXCEPT !.samples[sample_physical_index(j, j.sample_size)] = sample,
            !.sample_size = @ + 1,
            !.produced = @ + 1]

append_sample(j, sequence, sample) ==
  LET result(status, after) == [status |-> status, journal |-> after]
      open == invalidate_prepared_view(j)
      oldest == first_sample_sequence(open)
      room == discard_retention_before(open, oldest + 1, TRUE)
  IN  IF sequence # j.produced THEN result("NonContiguous", j)
      ELSE IF j.produced = MaxSequence THEN result("SequenceExhausted", j)
      ELSE IF ~valid_sample_record(sample) THEN result("InvalidSample", j)
      ELSE IF j.sample_size # SampleCapacity
           THEN result("Ok", push_sample(open, sample))
      ELSE IF oldest = MaxSequence \/ ~room.ok
           THEN result("InternalError", open)
      ELSE result("Ok", push_sample(room.journal, sample))

(* What append_gap makes of the ledger's verdict. *)
gap_status(status) ==
  IF status \in {"Ok", "Coalesced"} THEN "Ok"
  ELSE IF status = "InvalidGap" THEN "InvalidGap"
  ELSE IF status = "OutOfOrder" THEN "NonContiguous"
  ELSE "InternalError"

append_gap(j, g) ==
  LET result(status, after) == [status |-> status, journal |-> after]
      open == invalidate_prepared_view(j)
      direct == gap_append(open.gaps, g)
      room == discard_retention_before(open, gap_end(open.gaps[1]), TRUE)
      second == gap_append(room.journal.gaps, g)
      settle(base, appended) ==
        IF gap_status(appended.status) = "Ok"
        THEN result("Ok", [base EXCEPT !.gaps = appended.gaps,
                                       !.produced = gap_end(g)])
        ELSE result(gap_status(appended.status), base)
  IN  IF ~gap_valid(g) THEN result("InvalidGap", j)
      ELSE IF g.first_missing # j.produced THEN result("NonContiguous", j)
      ELSE IF direct.status # "Full" THEN settle(open, direct)
      ELSE IF ~room.ok THEN result("InternalError", open)
      ELSE settle(room.journal, second)

break_status(status) ==
  IF status = "Ok" THEN "Ok"
  ELSE IF status = "InvalidBreak" THEN "InvalidContinuityBreak"
  ELSE IF status = "OutOfOrder" THEN "NonContiguous"
  ELSE "InternalError"

append_continuity_break(j, b) ==
  LET result(status, after) == [status |-> status, journal |-> after]
      open == invalidate_prepared_view(j)
      direct == break_append(open.continuity, b)
      room == discard_retention_before(open, break_end(open.continuity[1]), TRUE)
      second == break_append(room.journal.continuity, b)
      settle(base, appended) ==
        IF break_status(appended.status) = "Ok"
        THEN result("Ok", [base EXCEPT !.continuity = appended.breaks,
                                       !.produced = break_end(b)])
        ELSE result(break_status(appended.status), base)
  IN  IF ~break_valid(b) THEN result("InvalidContinuityBreak", j)
      ELSE IF b.at_sequence # j.produced THEN result("NonContiguous", j)
      ELSE IF direct.status # "Full" THEN settle(open, direct)
      ELSE IF ~room.ok THEN result("InternalError", open)
      ELSE settle(room.journal, second)

------------------------
(* Reading.  A view is spans into the ring, never a copy of the samples. *)

NoGap == [first_missing |-> 0, missing_count |-> 0,
          reason |-> "UnknownDiscontinuity"]
NoBreak == [at_sequence |-> 0, reason |-> "Unknown"]
NoSpan == [data |-> 0, size |-> 0]

(* How many samples from `offset' on share the boundary sample's
   configuration revision and timing segment, at most `count'. *)
bounded_count(j, offset, count) ==
  LET at(k) == j.samples[sample_physical_index(j, offset + k)]
      same(k) == /\ at(k).config_revision = at(0).config_revision
                 /\ at(k).timing_segment_id = at(0).timing_segment_id
  IN  CHOOSE n \in 1..count :
        /\ \A k \in 0..(n - 1) : same(k)
        /\ n < count => ~same(n)

(* Where the run of samples that starts at `from' must stop. *)
sample_end(j, from) ==
  LET limits == {j.produced}
                \cup {g.first_missing : g \in gap_next_from(j.gaps, from)}
                \cup {b.at_sequence : b \in break_next_from(j.continuity, from)}
  IN  CHOOSE s \in limits : \A t \in limits : s <= t

prepare_read(j, from, sample_limit) ==
  LET open == invalidate_prepared_view(j)
      view(status, end) ==
        [status |-> status, first_sequence |-> from, end_sequence |-> end,
         retained_from |-> j.retained_from, produced |-> j.produced,
         first |-> NoSpan, second |-> NoSpan,
         gap |-> NoGap, continuity_break |-> NoBreak]
      refused(status) == [view |-> view(status, from), journal |-> open]
      in_gap == gap_containing(j.gaps, from)
      at_break == break_containing(j.continuity, from)
      g == CHOOSE x \in in_gap : TRUE
      b == CHOOSE x \in at_break : TRUE
      available == sample_end(j, from) - from
      count == IF available < sample_limit THEN available ELSE sample_limit
      offset == samples_between(j, j.retained_from, from)
      bounded == bounded_count(j, offset, count)
      start == sample_physical_index(j, offset)
      first_size == IF bounded < SampleCapacity - start
                    THEN bounded ELSE SampleCapacity - start
  IN  IF sample_limit = 0 THEN refused("InvalidLimit")
      ELSE IF from < j.retained_from THEN refused("RangeUnavailable")
      ELSE IF from > j.produced THEN refused("AheadOfProduced")
      ELSE IF from = j.produced THEN refused("NoData")
      ELSE IF in_gap # {} THEN
             [view    |-> [view("Gap", gap_end(g)) EXCEPT !.gap = g],
              journal |-> prepare_through(open, gap_end(g))]
      ELSE IF at_break # {} THEN
             [view    |-> [view("ContinuityBreak", break_end(b))
                             EXCEPT !.continuity_break = b],
              journal |-> prepare_through(open, break_end(b))]
      ELSE IF \/ count = 0
              \/ offset >= j.sample_size
              \/ count > j.sample_size - offset
           THEN refused("InternalError")
      ELSE [view    |-> [view("Samples", from + bounded)
                           EXCEPT !.first = [data |-> start, size |-> first_size],
                                  !.second = [data |-> 0,
                                              size |-> bounded - first_size]],
            journal |-> prepare_through(open, from + bounded)]

(* The k-th sample of a view, read through its spans (sample_timing.h). *)
sample_at(j, view, k) ==
  IF k < view.first.size THEN j.samples[view.first.data + k]
  ELSE j.samples[view.second.data + (k - view.first.size)]

(* summarize_timing's verdict on the samples of a view; the fitted summary
   itself is not modelled. *)
summarize_timing(j, view) ==
  LET count == view.first.size + view.second.size
      time(k) == sample_at(j, view, k).device_time_us
  IN  IF count = 0 THEN "EmptyRange"
      ELSE IF time(count - 1) < time(0) THEN "ReversedAnchors"
      ELSE IF \E k \in 1..(count - 1) : time(k) < time(k - 1)
           THEN "NonMonotonicSamples"
      ELSE IF /\ count > 1
              /\ \A k \in 0..(count - 1) : sample_at(j, view, k).timing_valid
              /\ time(count - 1) = time(0)
           THEN "InvalidValidAnchors"
      ELSE "Ok"

(* Mutant: a completed re-read of an older range moves delivered back. *)
mark_delivered_last(j, end_sequence) ==
  IF ~j.prepared_valid \/ end_sequence # j.prepared_through
  THEN [status |-> "BeyondPreparedRange", journal |-> j]
  ELSE [status  |-> "Ok",
        journal |-> invalidate_prepared_view(
                      [j EXCEPT !.delivered = end_sequence])]

mark_delivered(j, end_sequence) ==
  IF ~j.prepared_valid \/ end_sequence # j.prepared_through
  THEN [status |-> "BeyondPreparedRange", journal |-> j]
  ELSE [status  |-> "Ok",
        journal |-> invalidate_prepared_view(
                      [j EXCEPT !.delivered =
                         IF end_sequence > @ THEN end_sequence ELSE @])]

cancel_prepared(j) == invalidate_prepared_view(j)

release_limit(j) ==
  IF j.delivered > j.retained_from THEN j.delivered ELSE j.retained_from

release_before(j, cursor) ==
  LET open == invalidate_prepared_view(j)
      dropped == discard_retention_before(open, cursor, FALSE)
      result(status, after) == [status |-> status, journal |-> after]
  IN  IF cursor <= j.released THEN result("Ok", open)
      ELSE IF cursor > release_limit(j) THEN result("BeyondDeliveredRange", open)
      ELSE IF cursor <= j.retained_from
           THEN result("Ok", [open EXCEPT !.released = cursor])
      ELSE IF ~dropped.ok THEN result("BeyondDeliveredRange", open)
      ELSE result("Ok", [dropped.journal EXCEPT !.released = cursor])

------------------------
(* What every journal the node can reach satisfies.  The conjuncts are
   named because the proofs and the modules that own a journal use them
   one by one. *)

Journal ==
  [samples : [0..(SampleCapacity - 1) -> SampleRecords \cup {NoSample}],
   sample_head : 0..(SampleCapacity - 1), sample_size : 0..SampleCapacity,
   gaps : Seq(GapRecord), continuity : Seq(ContinuityBreakRecord),
   retained_from : Sequence, produced : Sequence,
   delivered : Sequence, released : Sequence,
   discarded_samples : Nat, discarded_sequences : Nat,
   retention_collapses : Nat,
   prepared_valid : BOOLEAN, prepared_through : Sequence]

CursorsOrdered(j) ==
  /\ j.released <= j.retained_from
  /\ j.retained_from <= j.produced
  /\ j.delivered <= j.produced

PreparedWithin(j) ==
  j.prepared_valid => /\ j.retained_from < j.prepared_through
                      /\ j.prepared_through <= j.produced

(* A ledger of disjoint, ordered ranges inside [low, high). *)
GapsWithin(gaps, low, high) ==
  /\ Len(gaps) <= GapCapacity
  /\ \A i \in DOMAIN gaps : /\ gaps[i].missing_count > 0
                            /\ low <= gaps[i].first_missing
                            /\ gap_end(gaps[i]) <= high
  /\ \A i, k \in DOMAIN gaps :
       i < k => gap_end(gaps[i]) <= gaps[k].first_missing

BreaksWithin(breaks, low, high) ==
  /\ Len(breaks) <= ContinuityCapacity
  /\ \A i \in DOMAIN breaks : /\ low <= breaks[i].at_sequence
                              /\ break_end(breaks[i]) <= high
  /\ \A i, k \in DOMAIN breaks :
       i < k => breaks[i].at_sequence < breaks[k].at_sequence

LedgersDisjoint(gaps, breaks) ==
  \A i \in DOMAIN gaps, k \in DOMAIN breaks :
    \/ breaks[k].at_sequence < gaps[i].first_missing
    \/ gap_end(gaps[i]) <= breaks[k].at_sequence

(* The ring holds one sample for every retained position that is neither a
   gap nor a break. *)
RingExact(j) ==
  j.sample_size = samples_between(j, j.retained_from, j.produced)

JournalInv(j) ==
  /\ j \in Journal
  /\ CursorsOrdered(j)
  /\ PreparedWithin(j)
  /\ GapsWithin(j.gaps, j.retained_from, j.produced)
  /\ BreaksWithin(j.continuity, j.retained_from, j.produced)
  /\ LedgersDisjoint(j.gaps, j.continuity)
  /\ RingExact(j)
=============================================================================
