-------------------------- MODULE RetentionCheckpoint --------------------------
(* The one-to-one retention checkpoint of a capture segment
   (retention_checkpoint.rs): an archive is bound to the segment, verified,
   acknowledged by the server, then the capture and later the archive are
   recorded as deleted.  Every update computes the next state, publishes
   it atomically and only then replaces the state in memory; a reader
   validates the whole chain of times. *)
EXTENDS Naturals

CONSTANTS
    Archives,                      \* archive identities, NoArchive the all-zero one
    NoArchive, Never,
    CaptureGrace, ArchiveRetention,
    MaxClock, MaxFailures          \* bounds of the clock and of the interrupted updates

ASSUME CheckpointAssumption ==
    /\ NoArchive \in Archives /\ Never \notin Nat \cup Archives
    /\ CaptureGrace \in Nat \ {0} /\ ArchiveRetention \in Nat \ {0}

VARIABLES
    clock,        \* the trusted time the next operation is given
    memory,       \* RetentionCheckpointStore::state, Never when no store is open
    stored,       \* the checkpoint a reader finds, Never when there is none
    durable,      \* what a loss of power leaves of it
    writing,      \* the state persist_atomic is publishing, Never otherwise
    failures

checkpoint_vars == <<clock, memory, stored, durable, writing, failures>>

NewState(at) ==
    [validated |-> at, archive |-> Never, verified |-> Never, acked |-> Never,
     capture_after |-> Never, archive_after |-> Never, capture_deleted |-> Never, archive_deleted |-> Never]

\* Each operation either changes the state, finds it already done, or is an error.
bind_archive(s, a) ==
    /\ a # NoArchive /\ s.archive = Never
    /\ writing' = [s EXCEPT !.archive = a]

mark_archive_verified(s, a, at) ==
    /\ s.archive = a /\ at >= s.validated /\ s.verified = Never
    /\ writing' = [s EXCEPT !.verified = at]

mark_replication_acknowledged(s, a, at) ==
    /\ s.archive = a /\ s.verified # Never /\ at >= s.verified /\ s.acked = Never
    /\ writing' = [s EXCEPT !.acked = at, !.capture_after = at + CaptureGrace,
                            !.archive_after = at + ArchiveRetention]

capture_deletable(s, at) == s.capture_deleted = Never /\ s.capture_after # Never /\ at >= s.capture_after

\* Mutant: the archive does not wait for the capture.
archive_deletable_early(s, at) ==
    s.archive_deleted = Never /\ s.archive_after # Never /\ at >= s.archive_after

archive_deletable(s, at) ==
    /\ s.archive_deleted = Never /\ s.capture_deleted # Never
    /\ s.archive_after # Never /\ at >= s.archive_after

mark_capture_deleted(s, at) ==
    /\ capture_deletable(s, at)
    /\ writing' = [s EXCEPT !.capture_deleted = at]

mark_archive_deleted(s, at) ==
    /\ archive_deletable(s, at)
    /\ writing' = [s EXCEPT !.archive_deleted = at]

not_before(value, bound) == value # Never => bound # Never /\ value >= bound

\* What decode_checkpoint and validate_decoded_state accept.
readable(s) ==
    /\ s.archive # NoArchive
    /\ s.archive = Never => {s.verified, s.acked, s.capture_deleted, s.archive_deleted} = {Never}
    /\ not_before(s.verified, s.validated) /\ not_before(s.acked, s.verified)
    /\ IF s.acked # Never
       THEN s.capture_after > s.acked /\ s.archive_after > s.acked
       ELSE {s.capture_after, s.archive_after, s.capture_deleted, s.archive_deleted} = {Never}
    /\ not_before(s.capture_deleted, s.capture_after)
    /\ not_before(s.archive_deleted, s.archive_after) /\ not_before(s.archive_deleted, s.capture_deleted)
------------------------
CheckpointInit ==
    /\ clock = 0 /\ memory = Never /\ stored = Never /\ durable = Never /\ writing = Never /\ failures = 0

ClockTicks == clock < MaxClock /\ clock' = clock + 1 /\ UNCHANGED <<memory, stored, durable, writing, failures>>

create ==
    /\ memory = Never /\ stored = Never /\ writing = Never
    /\ writing' = NewState(clock)
    /\ UNCHANGED <<clock, memory, stored, durable, failures>>

open ==
    /\ memory = Never /\ stored # Never /\ writing = Never
    /\ readable(stored) /\ memory' = stored
    /\ UNCHANGED <<clock, stored, durable, writing, failures>>

update ==
    /\ memory # Never /\ writing = Never
    /\ \/ \E a \in Archives : \/ bind_archive(memory, a)
                              \/ mark_archive_verified(memory, a, clock)
                              \/ mark_replication_acknowledged(memory, a, clock)
       \/ mark_capture_deleted(memory, clock)
       \/ mark_archive_deleted(memory, clock)
    /\ UNCHANGED <<clock, memory, stored, durable, failures>>

\* The rename makes the new state visible, the directory barrier makes it durable.
persist_rename ==
    /\ writing # Never /\ stored # writing
    /\ stored' = writing
    /\ UNCHANGED <<clock, memory, durable, writing, failures>>

persist_sync ==
    /\ writing # Never /\ stored = writing
    /\ durable' = stored /\ memory' = writing /\ writing' = Never
    /\ UNCHANGED <<clock, stored, failures>>

\* A failing call keeps the store and its old state; a crash closes the store.
UpdateFails ==
    /\ writing # Never /\ failures < MaxFailures /\ failures' = failures + 1
    /\ writing' = Never /\ memory' \in {memory, Never}
    /\ UNCHANGED <<clock, stored, durable>>

PowerFails ==
    /\ failures < MaxFailures /\ failures' = failures + 1
    /\ stored' \in {stored, durable} /\ durable' = stored'
    /\ memory' = Never /\ writing' = Never
    /\ UNCHANGED clock

CheckpointNext ==
    \/ ClockTicks \/ create \/ open \/ update \/ persist_rename \/ persist_sync \/ UpdateFails \/ PowerFails

CheckpointSpec == CheckpointInit /\ [][CheckpointNext]_checkpoint_vars

\* Whatever was published can be read back: no order of operations, failed updates
\* retried at a later time included, stores a state that open would refuse.
StoredIsReadable == \A s \in {stored, durable} \ {Never} : readable(s)
=============================================================================
