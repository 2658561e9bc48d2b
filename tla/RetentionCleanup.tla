--------------------------- MODULE RetentionCleanup ---------------------------
(* Retention of captures and archives (archive_coverage.rs,
   capture_coverage_checkpoint.rs, archive_retention.rs,
   retention_cleanup.rs).  A capture segment may be deleted once replicated
   archive products cover it exactly and a grace period has passed; an
   archive product once its own period has passed and the deletion of
   every segment it was made from is on record.  Each deletion is a
   sequence of unlinks, a directory barrier and a checkpoint replaced
   atomically, and may be cut between any two of them.

   A file is what its directory names: `disk' is what a process sees,
   `synced' what the last barrier on the directory made durable.  Files
   are published by rename after sync_all, so they are never torn. *)
EXTENDS Naturals

CONSTANTS
    Segments,        \* window ordinals of one boot stream, 0 .. n-1
    Products,        \* ids of archive products
    Indexes,         \* the coverage indexes the compactor may offer
    GracePeriods,    \* values of capture_grace_seconds the installation may configure
    ArchivePeriod,   \* archive_retention_seconds
    Closed,          \* the protection a caller passes for a stream without a writer
    None,
    MaxNow,          \* bound of the clock
    PowerMayFail,    \* values of `power' to explore
    MaxFaults        \* bound of the crashes, losses of power and failing system calls

\* Samples 2s and 2s+1 are the window of segment s.
SegmentKey(s) == [hardware |-> "sensor", boot |-> 1, ordinal |-> s, first |-> 2 * s, end |-> 2 * s + 2]

SegmentKeys == {SegmentKey(s) : s \in Segments}

dependencies(index) == {span.segment : span \in index.inputs}

\* The two checkpoints, the fields of CaptureCoverageState and ArchiveRetentionState.
CaptureStates ==
    [segment : SegmentKeys, products : SUBSET Products, replicated : Nat,
     delete_after : Nat, deleted : Nat \cup {None}]

ArchiveStates ==
    [product : Products, dependencies : SUBSET SegmentKeys, verified : Nat, acked : Nat,
     delete_after : Nat, deleted : Nat \cup {None}]

latest(times) == CHOOSE t \in times : \A u \in times : u <= t

\* The id of a product is not given again to one of other captures.
ASSUME RetentionAssumption ==
    /\ Segments \subseteq Nat /\ Closed \notin Nat
    /\ GracePeriods \subseteq Nat \ {0} /\ ArchivePeriod \in Nat \ {0}
    /\ latest(Segments) \in Segments /\ \A s \in Segments : s <= latest(Segments)
    /\ latest(GracePeriods) \in GracePeriods
    /\ \A i \in Indexes : i.product \in Products /\ None \notin dependencies(i)
    /\ \A i, j \in Indexes :
         i.product = j.product => dependencies(i) \cap dependencies(j) # {}
    /\ None \notin Nat \cup {"wal", "archive"} \cup SegmentKeys \cup Indexes
                     \cup CaptureStates \cup ArchiveStates

VARIABLES
    now,             \* TrustedUnixSeconds of the next call
    grace,           \* the RetentionPolicy in force
    active,          \* ordinal of the window the capture writer owns, or Closed
    verified, acked, \* per product: when it was verified and when the server acknowledged it
    disk, synced,    \* the files: as seen, and as the last directory barrier left them
    job,             \* the maintenance call in progress
    answer,          \* what the last one was refused for, or "none"
    replica,         \* per product: what the server holds a copy of (observation)
    offers,          \* the indexes the compactor may offer
    power,           \* whether the power may fail in this behaviour
    faults

vars == <<now, grace, active, verified, acked, disk, synced, job, answer, replica, offers, power, faults>>
world == <<grace, active, verified, acked, replica, offers, power>>
------------------------
(* The coverage index of a product *)

UtcHour(start) == [kind |-> "UtcHour", start |-> start]
TimeUnresolved(boot, first, end) == [kind |-> "TimeUnresolved", boot |-> boot, first |-> first, end |-> end]

valid_revision(index) ==
    IF index.number = 0 THEN index.supersedes = None
                        ELSE index.supersedes \notin {None, index.product}

valid_segment(key) == key.hardware # None /\ key.boot # 0 /\ key.end > key.first

valid_partition(partition) ==
    IF partition.kind = "UtcHour" THEN partition.start % 3600 = 0
    ELSE partition.boot # 0 /\ partition.end > partition.first

valid_span(index, span) ==
    LET part == index.partition IN
    /\ valid_segment(span.segment)
    /\ span.segment.hardware = index.hardware
    /\ span.first >= span.segment.first /\ span.end <= span.segment.end /\ span.end > span.first
    /\ part.kind = "TimeUnresolved" =>
         span.segment.boot = part.boot /\ span.first >= part.first /\ span.end <= part.end

cursors(x) == x.first .. x.end - 1

ranges_overlap(a, b) == a.first < b.end /\ b.first < a.end

validate(index) ==
    /\ index.product # None /\ index.hardware # None
    /\ valid_revision(index) /\ valid_partition(index.partition)
    /\ index.inputs # {}
    /\ \A a \in index.inputs : valid_span(index, a)
    /\ \A a, b \in index.inputs : a # b /\ a.segment = b.segment => ~ranges_overlap(a, b)

------------------------
(* The proof that products cover a segment exactly.  Each piece of
   evidence is a product with its index and its two times. *)

covering(key, ps) ==
    UNION {{[span |-> i, product |-> p] : i \in {x \in disk[<<"index", p>>].inputs : x.segment = key}}
             : p \in ps}

contributing(key, ps) == {p \in ps : key \in dependencies(disk[<<"index", p>>])}

no_superseded(ps) == \A p \in ps : disk[<<"index", p>>].supersedes \notin ps

\* Sorted by their starts, the spans lead from the first cursor to the last without
\* a gap and without an overlap: each of them is a range of its own inside the window.
exact_chain(key, spans) ==
    \A c \in cursors(key) : \E a \in spans : \A b \in spans : c \in cursors(b.span) <=> b = a

\* prove_capture_coverage succeeds for this segment and these products.
proves(key, ps) ==
    /\ valid_segment(key)
    /\ \A p \in ps : validate(disk[<<"index", p>>]) /\ verified[p] <= acked[p]
    /\ no_superseded(ps)
    /\ exact_chain(key, covering(key, ps))

CaptureCoverageState(key, ps) ==
    LET products == contributing(key, ps)
        at       == latest({acked[p] : p \in products})
    IN  [segment |-> key, products |-> products, replicated |-> at,
         delete_after |-> at + grace, deleted |-> None]

ArchiveRetentionState(p) ==
    [product |-> p, dependencies |-> dependencies(disk[<<"index", p>>]), verified |-> verified[p],
     acked |-> acked[p], delete_after |-> acked[p] + ArchivePeriod, deleted |-> None]

\* What the readers of the two checkpoints accept.
readable_capture(state) ==
    /\ valid_segment(state.segment) /\ state.products # {}
    /\ state.delete_after > state.replicated
    /\ state.deleted # None => state.deleted >= state.delete_after

readable_archive(state) ==
    /\ state.dependencies # {} /\ \A key \in state.dependencies : valid_segment(key)
    /\ state.acked >= state.verified /\ state.delete_after > state.acked
    /\ state.deleted # None => state.deleted >= state.delete_after

\* CaptureCoverageState::deletable, ArchiveRetentionState::deadline_elapsed
deadline_elapsed(state, at) == state.deleted = None /\ at >= state.delete_after
------------------------
(* Files and directories *)

Files == {"wal", "manifest", "capture_cp"} \X Segments \cup {"archive", "index", "archive_cp"} \X Products

exists(f) == disk[f] # None

Directory(f) ==
    CASE f[1] \in {"wal", "manifest"}  -> {"wal", "manifest"} \X Segments
      [] f[1] \in {"archive", "index"} -> {"archive", "index"} \X Products
      [] OTHER                         -> {f}

sync_directory(f) == synced' = [g \in Files |-> IF g \in Directory(f) THEN disk[g] ELSE synced[g]]

Idle == [kind |-> "idle"]

Init ==
    /\ now = 0 /\ grace = latest(GracePeriods) /\ active = latest(Segments)
    /\ verified = [p \in Products |-> None] /\ acked = [p \in Products |-> None]
    /\ disk = [f \in Files |-> CASE f[1] = "wal" /\ f[2] < active -> "wal"
                                 [] f[1] = "manifest" /\ f[2] < active -> SegmentKey(f[2])
                                 [] OTHER -> None]
    /\ synced = disk
    /\ job = Idle /\ answer = "none" /\ faults = 0
    /\ replica = [p \in Products |-> None] /\ offers = Indexes /\ power \in PowerMayFail
------------------------
(* The surroundings: the capture writer, the compactor, the server, the
   operator's policy and the clock.  Their steps commute with those of a
   call, which decided with what it read at its start: they are taken
   between calls. *)

Tick ==
    /\ job = Idle /\ now < MaxNow /\ now' = now + 1
    /\ UNCHANGED <<world, disk, synced, job, answer, faults>>

\* The writer seals its window: WAL and manifest are durable, the next window opens.
SealWindow ==
    /\ job = Idle /\ active \in Segments
    /\ disk' = [disk EXCEPT ![<<"wal", active>>] = "wal", ![<<"manifest", active>>] = SegmentKey(active)]
    /\ synced' = [synced EXCEPT ![<<"wal", active>>] = "wal", ![<<"manifest", active>>] = SegmentKey(active)]
    /\ active' = IF active + 1 \in Segments THEN active + 1 ELSE Closed
    /\ UNCHANGED <<now, grace, verified, acked, replica, offers, power, job, answer, faults>>

ChangePolicy ==
    /\ job = Idle /\ now = 1 /\ grace' \in GracePeriods \ {grace}
    /\ UNCHANGED <<now, active, verified, acked, replica, offers, power, disk, synced, job, answer, faults>>

\* The product is verified, replicated and acknowledged.
Replicate(p) ==
    /\ job = Idle /\ synced[<<"index", p>>] # None /\ acked[p] = None
    /\ verified' = [verified EXCEPT ![p] = now]
    /\ acked' = [acked EXCEPT ![p] = now]
    /\ replica' = [replica EXCEPT ![p] = disk[<<"index", p>>]]
    /\ UNCHANGED <<now, grace, active, offers, power, disk, synced, job, answer, faults>>
------------------------
(* Calls that end at once: refused, or nothing to do *)

Benign == {"ok", "Deleted", "NotDue", "AlreadyRecorded", "AlreadyExists", "WaitingForCaptureCleanup"}

Answer(a) == answer' = IF a \in Benign THEN "none" ELSE a

Return(a) == job' = Idle /\ Answer(a) /\ UNCHANGED <<now, world, disk, synced, faults>>

\* The rest of the call replaces file f by `content' and then answers `a'.
Persist(f, content, a) ==
    /\ job' = [kind |-> "persist", file |-> f, next |-> content, step |-> "rename", answer |-> a]
    /\ answer' = "none"
    /\ UNCHANGED <<now, world, disk, synced, faults>>

\* publish_archive_coverage_index; the product's data is in place before its index.
publish_archive_coverage_index(p, index) ==
    /\ job = Idle /\ validate(index) /\ ~exists(<<"index", p>>)
    /\ dependencies(index) \subseteq {disk[<<"manifest", s>>] : s \in Segments}
    /\ disk' = [disk EXCEPT ![<<"archive", p>>] = "archive"]
    /\ synced' = [synced EXCEPT ![<<"archive", p>>] = "archive"]
    /\ job' = [kind |-> "persist", file |-> <<"index", p>>, next |-> index, step |-> "rename", answer |-> "ok"]
    /\ answer' = "none"
    /\ UNCHANGED <<now, world, faults>>

\* Mutant: an existing checkpoint is replaced.
create_capture_checkpoint_again(s, ps) ==
    /\ job = Idle
    /\ \A p \in ps : exists(<<"index", p>>) /\ acked[p] # None
    /\ proves(SegmentKey(s), ps)
    /\ Persist(<<"capture_cp", s>>, CaptureCoverageState(SegmentKey(s), ps), "ok")

\* CaptureCoverageCheckpointStore::create from a proof
create_capture_checkpoint(s, ps) ==
    LET f     == <<"capture_cp", s>>
        state == CaptureCoverageState(SegmentKey(s), ps)
    IN  /\ job = Idle
        /\ \A p \in ps : exists(<<"index", p>>) /\ acked[p] # None
        /\ proves(SegmentKey(s), ps)
        /\ IF exists(f) THEN Return(IF disk[f] = state THEN "ok" ELSE "AlreadyExists")
           ELSE Persist(f, state, "ok")

\* ArchiveRetentionCheckpointStore::create
create_archive_checkpoint(p) ==
    LET f == <<"archive_cp", p>> IN
    /\ job = Idle /\ exists(<<"index", p>>) /\ acked[p] # None
    /\ validate(disk[<<"index", p>>]) /\ verified[p] <= acked[p]
    /\ IF exists(f) THEN Return(IF disk[f] = ArchiveRetentionState(p) THEN "ok" ELSE "AlreadyExists")
       ELSE Persist(f, ArchiveRetentionState(p), "ok")
------------------------
(* The two cleanups: everything up to the first unlink is one decision *)

protected(protection, s) == protection # Closed /\ s >= protection

\* Both artefacts are there with the expected identity, or the second one alone is.
identified(data, descriptor, matches) ==
    IF exists(descriptor) THEN matches ELSE ~exists(data)

StartUnlink(kind, data, descriptor, cp) ==
    /\ job' = [kind |-> kind, data |-> data, descriptor |-> descriptor, checkpoint |-> cp,
               state |-> disk[cp], at |-> now, step |-> "data"]
    /\ answer' = "none"
    /\ UNCHANGED <<now, world, disk, synced, faults>>

cleanup_capture_segment(s, protection) ==
    LET cp == <<"capture_cp", s>>  wal == <<"wal", s>>  manifest == <<"manifest", s>> IN
    /\ job = Idle /\ exists(cp)
    /\ IF ~readable_capture(disk[cp]) THEN Return("InvalidStoredState")
       ELSE IF disk[cp].deleted # None
       THEN Return(IF exists(wal) \/ exists(manifest)
                   THEN "ArtifactsPresentAfterRecordedDeletion" ELSE "AlreadyRecorded")
       ELSE IF ~deadline_elapsed(disk[cp], now) THEN Return("NotDue")
       ELSE IF protected(protection, s)   THEN Return("ActiveWindowProtected")
       ELSE IF exists(wal) /\ ~exists(manifest) THEN Return("WalWithoutManifest")
       ELSE IF ~identified(wal, manifest, disk[manifest] = disk[cp].segment)
       THEN Return("SegmentIdentityMismatch")
       ELSE StartUnlink("capture", wal, manifest, cp)

\* Every dependency has a checkpoint of its own that records the deletion.
capture_dependencies_deleted(state, paths) ==
    \A f \in paths : disk[f].deleted # None

cleanup_archive_product(p, paths) ==
    LET cp == <<"archive_cp", p>>  data == <<"archive", p>>  index == <<"index", p>> IN
    /\ job = Idle /\ exists(cp) /\ \A f \in paths : exists(f)
    /\ IF ~readable_archive(disk[cp]) \/ \E f \in paths : ~readable_capture(disk[f])
       THEN Return("InvalidStoredState")
       ELSE IF disk[cp].deleted # None
       THEN Return(IF exists(data) \/ exists(index)
                   THEN "ArtifactsPresentAfterRecordedDeletion" ELSE "AlreadyRecorded")
       ELSE IF ~deadline_elapsed(disk[cp], now) THEN Return("NotDue")
       ELSE IF {disk[f].segment : f \in paths} # disk[cp].dependencies
       THEN Return("CaptureCheckpointSetMismatch")
       ELSE IF ~capture_dependencies_deleted(disk[cp], paths) THEN Return("WaitingForCaptureCleanup")
       ELSE IF exists(data) /\ ~exists(index) THEN Return("ArchiveWithoutCoverageIndex")
       ELSE IF ~identified(data, index, /\ disk[index].product = disk[cp].product
                                        /\ dependencies(disk[index]) = disk[cp].dependencies)
       THEN Return("ArchiveDependenciesMismatch")
       ELSE StartUnlink("archive", data, index, cp)

\* Mutant: the descriptor goes first.
RemoveData_swapped ==
    /\ job.kind \in {"capture", "archive"} /\ job.step = "data"
    /\ disk' = [disk EXCEPT ![job.descriptor] = None]
    /\ job' = [job EXCEPT !.step = "descriptor", !.descriptor = job.data]
    /\ UNCHANGED <<now, world, synced, answer, faults>>

\* remove_if_present of the data, then of its descriptor
RemoveData ==
    /\ job.kind \in {"capture", "archive"} /\ job.step = "data"
    /\ disk' = [disk EXCEPT ![job.data] = None]
    /\ job' = [job EXCEPT !.step = "descriptor"]
    /\ UNCHANGED <<now, world, synced, answer, faults>>

RemoveDescriptor ==
    /\ job.kind \in {"capture", "archive"} /\ job.step = "descriptor"
    /\ disk' = [disk EXCEPT ![job.descriptor] = None]
    /\ job' = [job EXCEPT !.step = "sync"]
    /\ UNCHANGED <<now, world, synced, answer, faults>>

SyncArtifacts ==
    /\ job.kind \in {"capture", "archive"} /\ job.step = "sync"
    /\ sync_directory(job.data)
    /\ job' = [job EXCEPT !.step = "mark"]
    /\ UNCHANGED <<now, world, disk, answer, faults>>

\* mark_deleted with the time the call was given; the deadline is asked again.
mark_deleted ==
    /\ job.kind \in {"capture", "archive"} /\ job.step = "mark"
    /\ deadline_elapsed(job.state, job.at)
    /\ Persist(job.checkpoint, [job.state EXCEPT !.deleted = job.at], "Deleted")

\* persist_atomic: temporary file, sync_all, rename, directory barrier
Rename ==
    /\ job.kind = "persist" /\ job.step = "rename"
    /\ disk' = [disk EXCEPT ![job.file] = job.next]
    /\ job' = [job EXCEPT !.step = "sync"]
    /\ UNCHANGED <<now, world, synced, answer, faults>>

SyncRename ==
    /\ job.kind = "persist" /\ job.step = "sync"
    /\ sync_directory(job.file)
    /\ job' = Idle /\ Answer(job.answer)
    /\ UNCHANGED <<now, world, disk, faults>>
------------------------
(* Faults: a system call fails, the process dies, the power goes *)

\* A failing call returns its error and a dead process nothing: either ends the job.
Interrupted ==
    /\ faults < MaxFaults /\ job # Idle /\ faults' = faults + 1
    /\ job' = Idle /\ answer' = "none"
    /\ UNCHANGED <<now, world, disk, synced>>

\* What no barrier covers survives or not, each directory entry for itself.
PowerLoss ==
    /\ power /\ faults < MaxFaults /\ faults' = faults + 1
    /\ \E lost \in SUBSET {f \in Files : disk[f] # synced[f]} :
         /\ disk' = [f \in Files |-> IF f \in lost THEN synced[f] ELSE disk[f]]
         /\ synced' = disk'
    /\ job' = Idle /\ answer' = "none"
    /\ UNCHANGED <<now, world>>

Maintain ==
    \/ RemoveData \/ RemoveDescriptor \/ SyncArtifacts \/ mark_deleted \/ Rename \/ SyncRename

\* The ordinal a caller read is the writer's, or an older one.
Protections == IF active = Closed THEN Segments \cup {Closed} ELSE {a \in Segments : a <= active}

Cleanup ==
    \/ \E s \in Segments : \E protection \in Protections : cleanup_capture_segment(s, protection)
    \/ \E p \in Products : \E deps \in SUBSET Segments :
         cleanup_archive_product(p, {"capture_cp"} \X deps)

Call ==
    \/ \E index \in offers : publish_archive_coverage_index(index.product, index)
    \/ \E s \in Segments, ps \in SUBSET Products : create_capture_checkpoint(s, ps)
    \/ \E p \in Products : create_archive_checkpoint(p)
    \/ Cleanup

Surroundings == Tick \/ SealWindow \/ ChangePolicy \/ \E p \in Products : Replicate(p)

Next == Surroundings \/ Call \/ Maintain \/ Interrupted \/ PowerLoss

Spec == Init /\ [][Next]_vars
------------------------
(* Properties *)

sealed(s) == active = Closed \/ s < active
\* A capture file is only ever missing when the server holds every one of its
\* samples, for at least the grace period: across every crash, failing call and
\* loss of power, and whatever indexes the compactor offered and the policy became.
NothingUncoveredDeleted ==
    \A s \in Segments : sealed(s) /\ ~(exists(<<"wal", s>>) /\ exists(<<"manifest", s>>)) =>
        \A c \in cursors(SegmentKey(s)) : \E p \in Products :
            /\ replica[p] # None
            /\ \E span \in replica[p].inputs : span.segment = SegmentKey(s) /\ c \in cursors(span)
            /\ \E g \in GracePeriods : now >= acked[p] + g

\* The local archive is removed only after every capture it was made from is durably
\* gone: no loss of power brings back a capture whose archive is missing.
ArchiveOutlivesCapture ==
    \A p \in Products : replica[p] # None /\ ~exists(<<"archive", p>>) =>
        /\ now >= acked[p] + ArchivePeriod
        /\ \A key \in dependencies(replica[p]) : \A kind \in {"wal", "manifest"} :
             disk[<<kind, key.ordinal>>] = None /\ synced[<<kind, key.ordinal>>] = None

\* A deadline and a recorded deletion that are durable never change, whatever the
\* policy in force when a create or a cleanup is repeated.
RecordsStand ==
    [][\A f \in Files : f[1] \in {"capture_cp", "archive_cp"} /\ synced[f] # None =>
         /\ synced'[f] # None /\ synced'[f].delete_after = synced[f].delete_after
         /\ synced[f].deleted # None => synced'[f].deleted = synced[f].deleted]_vars

Conflicts == {"InvalidStoredState", "ArtifactsPresentAfterRecordedDeletion", "SegmentIdentityMismatch", "ArchiveDependenciesMismatch"}
Orphans   == {"WalWithoutManifest", "ArchiveWithoutCoverageIndex"}

\* A cleanup cut anywhere is taken up by the next call and never refused; a loss of
\* power never makes it report a conflict with its own records.
CleanupResumes == answer \notin Conflicts /\ (power \/ answer \notin Orphans)

\* Nothing is deleted too early and no decision to delete is taken back.
DeletionSafe == [](NothingUncoveredDeleted /\ ArchiveOutlivesCapture) /\ RecordsStand
=============================================================================
