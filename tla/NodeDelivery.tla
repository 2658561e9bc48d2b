---------------------------- MODULE NodeDelivery ----------------------------
(* One journal and its delivery session under every interleaving of the
   ingress (which appends) with the transport (which prepares, settles and
   releases).  The three history variables are not in the code: what the
   source assigned to each retained sequence, which sequences overload
   discarded, and what the outstanding prepared response showed when it
   was built. *)
EXTENDS DeliverySession

CONSTANTS
  BootEpoch,            \* this boot's stream identity
  OtherEpoch,           \* the identity of another boot
  MaxGapCount,          \* longest gap one event reports
  GapInputs,            \* reasons the source gives for a gap
  BreakInputs           \* reasons the source gives for a break

ASSUME NodeAssumption ==
  /\ BootEpoch \in Nat \ {0}
  /\ OtherEpoch \in Nat \ {BootEpoch}
  /\ MaxGapCount \in Nat \ {0}
  /\ GapInputs \subseteq GapReason
  /\ BreakInputs \subseteq ContinuityBreakReason

VARIABLES
  j,                    \* the journal
  s,                    \* the delivery session
  log,                  \* history: the events of [retained_from, produced)
  lost,                 \* history: <<sequence, kind>> a collapse discarded
  plan                  \* history: the response being sent, or NoPlan

vars == <<j, s, log, lost, plan>>

SampleEvent(r) == [kind |-> "Sample", sample |-> r, reason |-> "none"]
GapEvent(reason) == [kind |-> "Gap", sample |-> NoSample, reason |-> reason]
BreakEvent(reason) ==
  [kind |-> "Break", sample |-> NoSample, reason |-> reason]

event(q) == log[q - j.retained_from + 1]

NoPlan == [view |-> NoView, samples |-> <<>>]

ViewSamples(journal, view) ==
  [k \in 1..(view.first.size + view.second.size) |->
     sample_at(journal, view, k - 1)]

PlanOf(result) ==
  [view    |-> result.view,
   samples |-> ViewSamples(result.journal, result.view)]

Init ==
  /\ j = EmptyJournal
  /\ s = NewSession(BootEpoch)
  /\ log = <<>>
  /\ lost = {}
  /\ plan = NoPlan

(* The events still retained when the journal becomes `journal'. *)
Retained(events, journal) ==
  SubSeq(events, journal.retained_from - j.retained_from + 1, Len(events))

(* The effect of an append on the journal and the histories. *)
Appended(result, events) ==
  /\ j' = result.journal
  /\ log' = Retained(IF result.status = "Ok" THEN log \o events ELSE log,
                     result.journal)
  /\ lost' = lost \cup
       {<<q, event(q).kind>> :
          q \in j.retained_from..(result.journal.retained_from - 1)}
  /\ UNCHANGED <<s, plan>>

(* The sequence an event claims: the next one, or one out of turn. *)
Claimed == {j.produced, j.produced + 1}

AppendSample ==
  \E q \in Claimed, r \in SampleRecords :
    Appended(append_sample(j, q, r), <<SampleEvent(r)>>)

AppendGap ==
  \E q \in Claimed, n \in 0..MaxGapCount, why \in GapInputs :
    Appended(append_gap(j, [first_missing |-> q, missing_count |-> n,
                            reason |-> why]),
             [k \in 1..n |-> GapEvent(why)])

AppendContinuityBreak ==
  \E q \in Claimed, why \in BreakInputs :
    Appended(append_continuity_break(j, [at_sequence |-> q, reason |-> why]),
             <<BreakEvent(why)>>)

(* Any cursors and any limit.  Another boot's command, one that asks for
   no samples and one that releases beyond its own cursor are refused
   whatever the rest of them says: one of each stands for all. *)
PullCommands ==
  {c \in [boot_epoch : {BootEpoch}, from : Sequence, release_before : Sequence,
          max_samples : 1..MaxChunkSamples] : c.release_before <= c.from}
  \cup {[boot_epoch |-> BootEpoch, from |-> 0, release_before |-> MaxSequence,
         max_samples |-> 1],
        [boot_epoch |-> BootEpoch, from |-> j.produced,
         release_before |-> j.produced, max_samples |-> 0],
        [boot_epoch |-> OtherEpoch, from |-> j.produced,
         release_before |-> j.produced, max_samples |-> 1]}

PreparePull ==
  \E command \in PullCommands :
    LET result == prepare_pull(j, s, command)
    IN  /\ j' = result.journal
        /\ s' = result.session
        /\ plan' = IF result.decision \in Settleable THEN PlanOf(result)
                   ELSE plan
        /\ log' = Retained(log, result.journal)
        /\ UNCHANGED lost

Tokens == 0..(TokenModulus - 1)

Settled(result) ==
  /\ j' = result.journal
  /\ s' = result.session
  /\ plan' = IF result.session.prepared_token = 0 THEN NoPlan ELSE plan
  /\ UNCHANGED <<log, lost>>

Complete == \E token \in Tokens : Settled(complete(j, s, token))

Abort == \E token \in Tokens : Settled(abort(j, s, token))

Release ==
  \E command \in [boot_epoch : {BootEpoch, OtherEpoch},
                  release_before : Sequence] :
    /\ j' = release(j, s, command).journal
    /\ log' = Retained(log, j')
    /\ UNCHANGED <<s, lost, plan>>

Next ==
  \/ AppendSample \/ AppendGap \/ AppendContinuityBreak
  \/ PreparePull \/ Complete \/ Abort \/ Release

Spec == Init /\ [][Next]_vars

------------------------
(* The journal's cursors stay ordered whatever the ingress and the
   transport do, its ledgers hold disjoint ordered ranges of the retained
   sequences, and the ring holds exactly one sample for each of the
   others: the arithmetic that finds a sample without a stored sequence is
   never off. *)
JournalConsistent == JournalInv(j)

(* Reading any cursor with any limit shows exactly what the source gave
   the sequences of the answered range: the samples of the ring are found
   at their sequence although the ring does not store it, a gap or break
   is reported at its own positions with its own reason, a chunk never
   crosses a configuration or timing boundary, and the read never fails. *)
SameSegment(q, r) ==
  /\ event(q).sample.config_revision = event(r).sample.config_revision
  /\ event(q).sample.timing_segment_id = event(r).sample.timing_segment_id

ViewMatchesSource(view, samples) ==
  LET range == view.first_sequence..(view.end_sequence - 1)
  IN  range \subseteq j.retained_from..(j.produced - 1) /\
      CASE view.status = "Samples" ->
             /\ Len(samples) = view.end_sequence - view.first_sequence
             /\ \A q \in range :
                  /\ event(q) = SampleEvent(samples[q - view.first_sequence + 1])
                  /\ SameSegment(q, view.first_sequence)
        [] view.status = "Gap" ->
             /\ view.gap.first_missing = view.first_sequence
             /\ \A q \in range : event(q) = GapEvent(view.gap.reason)
        [] view.status = "ContinuityBreak" ->
             /\ range = {view.first_sequence}
             /\ event(view.first_sequence) =
                  BreakEvent(view.continuity_break.reason)
        [] OTHER -> FALSE

ReadFaithful ==
  \A from \in Sequence, limit \in 1..MaxChunkSamples :
    LET read == prepare_read(j, from, limit)
    IN  IF from \in j.retained_from..(j.produced - 1)
        THEN /\ read.view.end_sequence \in (from + 1)..j.produced
             /\ ViewMatchesSource(read.view, ViewSamples(read.journal, read.view))
        ELSE read.view.status =
               IF from < j.retained_from THEN "RangeUnavailable"
               ELSE IF from = j.produced THEN "NoData" ELSE "AheadOfProduced"

(* Every sequence the journal no longer retains was either discarded by
   overload, and counted as such sample by sample, or lies below a range
   the transport delivered: a release never drops undelivered data. *)
DiscardAccounted ==
  /\ \A q \in 0..(j.retained_from - 1) :
       q < j.delivered \/ \E x \in lost : x[1] = q
  /\ j.discarded_sequences = Cardinality(lost)
  /\ j.discarded_samples = Cardinality({x \in lost : x[2] = "Sample"})

(* A contiguous valid event is always accepted while sequences remain:
   a full ring or a full ledger makes room by collapsing the oldest
   retention, and never reports InternalError. *)
AppendAccepts ==
  /\ \A r \in SampleRecords :
       valid_sample_record(r) /\ j.produced < MaxSequence =>
         append_sample(j, j.produced, r).status = "Ok"
  /\ \A n \in 1..MaxGapCount, why \in GapInputs :
       j.produced + n <= MaxSequence =>
         append_gap(j, [first_missing |-> j.produced, missing_count |-> n,
                        reason |-> why]).status = "Ok"
  /\ \A why \in BreakInputs :
       j.produced < MaxSequence =>
         append_continuity_break(j, [at_sequence |-> j.produced,
                                     reason |-> why]).status = "Ok"

(* A prepared response points into the ring instead of copying it.  While
   the session would still accept its completion, the ring shows what the
   response was built from, and that is what the source produced. *)
PreparedViewIntact ==
  (s.prepared_token # 0 /\ mark_delivered(j, s.prepared_end).status = "Ok") =>
     /\ ViewSamples(j, plan.view) = plan.samples
     /\ ViewMatchesSource(plan.view, plan.samples)
     /\ plan.view.end_sequence = s.prepared_end

(* What the node tells of its stream is the truth: every answer it may
   give, the answer that still points into the ring, and the losses it has
   counted. *)
DeliveryExact == ReadFaithful /\ DiscardAccounted /\ PreparedViewIntact

(* A token names one view: each is handed out once, in order, until the
   counter has run out and every further pull that needs one is refused. *)
TokenOnce ==
  /\ s'.prepared_token \notin {0, s.prepared_token} => s'.next_token # s.next_token
  /\ s'.next_token # s.next_token =>
       /\ s.prepared_token = 0 /\ s.next_token # 0
       /\ s'.prepared_token = s.next_token
       /\ s'.next_token \in {0, s.next_token + 1}

(* No step moves a cursor back or takes a loss out of the count, the
   delivered cursor moves only to the end of the prepared range that is
   being completed, and a token that comes late, after its view was
   settled, never names a view prepared since. *)
CursorsAdvance ==
  [][/\ j.retained_from <= j'.retained_from
     /\ j.produced <= j'.produced
     /\ j.delivered <= j'.delivered
     /\ j.released <= j'.released
     /\ j.discarded_sequences <= j'.discarded_sequences
     /\ j'.delivered # j.delivered =>
          /\ s.prepared_token # 0 /\ s'.prepared_token = 0
          /\ j'.delivered = s.prepared_end
     /\ TokenOnce]_vars
=============================================================================
