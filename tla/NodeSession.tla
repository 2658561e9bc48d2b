---------------------------- MODULE NodeSession ----------------------------
(* The host's half of the delivery of one stream: the cursors of what was
   received, made durable and released (sensor-core delivery.rs), the
   session that pulls and persists one record at a time (node_session.rs,
   measurement_transfer.rs), and the rules that rebuild a session from the
   capture on disk and the node's own account (stream_recovery.rs).  A
   session is a record; every method is an operator that returns the next
   one.  A method that returns Err leaves the phase "Failed": the error
   reaches the recording loop and stops the channel. *)
EXTENDS Integers, Sequences

CONSTANT MaxSamples     \* max_samples of every pull

ASSUME PullAssumption == MaxSamples \in Nat \ {0}

NoPull == [from |-> 0, release_before |-> 0]
NoRecord == [first |-> 0, data |-> <<>>]

(* A record to persist and the cursor its receipt must show. *)
record_end(r) == r.first + Len(r.data)

(* DeliveryCursors::new and NodeSession::recovered. *)
recovered(epoch, durable, released) ==
  [phase |-> IF released <= durable THEN "Ready" ELSE "Failed",
   epoch |-> epoch, received |-> durable, durable |-> durable,
   released |-> released, pull |-> NoPull, pending |-> NoRecord]

Offline ==
  [phase |-> "Offline", epoch |-> 0, received |-> 0, durable |-> 0,
   released |-> 0, pull |-> NoPull, pending |-> NoRecord]

failed(h) == [h EXCEPT !.phase = "Failed", !.pull = NoPull]

begin_pull(h) ==
  [h EXCEPT !.phase = "AwaitingPull",
            !.pull = [from |-> h.received, release_before |-> h.durable]]

(* Mutant: the session is left waiting for an attempt that is over. *)
abandon_pull_forgotten(h) == h

abandon_pull_for_retry(h) == [h EXCEPT !.phase = "Ready", !.pull = NoPull]

(* stream_changed, invalid_release, fail_pull_for_recovery. *)
require_recovery(h) ==
  [h EXCEPT !.phase = "RecoveryRequired", !.pull = NoPull]

------------------------
(* What an answer must satisfy before it may touch a cursor. *)
valid_state(r) == r.retained_from <= r.produced /\ r.released <= r.produced

valid_range(h, r) ==
  /\ r.epoch = h.epoch
  /\ r.retained_from <= r.produced
  /\ Len(r.data) > 0
  /\ r.retained_from <= r.first /\ r.first + Len(r.data) <= r.produced
  /\ r.first = h.pull.from

mark_released_ok(h) ==
  h.released <= h.pull.release_before /\ h.pull.release_before <= h.durable

(* accept_contiguous, account_gap, account_continuity_break: the record
   continues what was received, and is pending until it is durable. *)
account(h, first, data) ==
  IF mark_released_ok(h) /\ first = h.received
  THEN [h EXCEPT !.phase = "Persisting", !.received = first + Len(data),
                 !.released = h.pull.release_before, !.pull = NoPull,
                 !.pending = [first |-> first, data |-> data]]
  ELSE failed(h)

accept_chunk(h, r) ==
  IF valid_range(h, r) /\ Len(r.data) <= MaxSamples
  THEN account(h, r.first, r.data) ELSE failed(h)

(* accept_gap and accept_continuity_break. *)
accept_event(h, r) ==
  IF valid_range(h, r) THEN account(h, r.first, r.data) ELSE failed(h)

accept_no_data(h, r) ==
  IF /\ valid_state(r) /\ r.epoch = h.epoch
     /\ h.pull.from = r.produced /\ mark_released_ok(h)
  THEN [h EXCEPT !.phase = "Ready", !.released = h.pull.release_before,
                 !.pull = NoPull]
  ELSE failed(h)

Overflow == <<"Overflow", "JournalOverflow">>

(* Mutant: everything up to the newest sample is declared lost. *)
accept_range_unavailable_all(h, r) ==
  IF valid_state(r) /\ r.epoch = h.epoch /\ h.pull.from < r.retained_from
  THEN account(h, h.pull.from,
               [k \in 1..(r.produced - h.pull.from) |-> Overflow])
  ELSE failed(h)

accept_range_unavailable(h, r) ==
  IF valid_state(r) /\ r.epoch = h.epoch /\ h.pull.from < r.retained_from
  THEN account(h, h.pull.from,
               [k \in 1..(r.retained_from - h.pull.from) |-> Overflow])
  ELSE failed(h)

invalid_release(h, r) ==
  IF valid_state(r) /\ r.epoch = h.epoch THEN require_recovery(h)
  ELSE failed(h)

(* MeasurementTransfer::accept_response. *)
accept_response(h, r) ==
  CASE r.decision = "Busy" -> abandon_pull_for_retry(h)
    [] r.decision = "SampleChunk" -> accept_chunk(h, r)
    [] r.decision \in {"Gap", "ContinuityBreak"} -> accept_event(h, r)
    [] r.decision = "NoData" -> accept_no_data(h, r)
    [] r.decision = "RangeUnavailable" -> accept_range_unavailable(h, r)
    [] r.decision = "InvalidRelease" -> invalid_release(h, r)
    [] r.decision \in {"StreamChanged", "CursorAhead", "InvalidRequest",
                       "InternalError"} -> require_recovery(h)

(* The receipt of the pending record: durable follows received. *)
confirm_durable(h) ==
  IF record_end(h.pending) \in h.durable..h.received
  THEN [h EXCEPT !.phase = "Ready", !.durable = record_end(h.pending),
                 !.pending = NoRecord]
  ELSE failed(h)

------------------------
(* reconcile_existing_capture: the node may not have released what is not
   durable, nor the capture be ahead of the node.  An error ends startup;
   online it would be met again at every further attempt. *)
reconcile(epoch, durable, state) ==
  IF /\ valid_state(state) /\ state.epoch = epoch
     /\ state.released <= durable /\ durable <= state.produced
  THEN recovered(epoch, durable, state.released)
  ELSE failed(Offline)
=============================================================================
