--------------------------- MODULE CaptureSegments ---------------------------
(* The capture of one (hardware_id, boot_epoch) stream on disk: a chain of
   write-ahead files, one per window, each sealed by its last record and
   then described by a manifest (capture_wal.rs, capture_segments.rs,
   capture_window.rs of sensor-host).

   What a file holds is split in two: what a reader of the running system
   sees (the page cache) and what a barrier has made safe against a loss
   of power.  A crash of the process keeps the first, a loss of power only
   the second and any part of what had been written back on its own.  The
   process may stop between any two system calls, also while it recovers.

   A data record covers one position; a record of several samples is one
   longer step of the same cursor.  Whether a record ends its window comes
   from its timing, so it is a free property of the record.  File headers
   are 64 bytes: a loss of power keeps a header whole or not at all.  What
   is written back of an append is a prefix of it. *)
EXTENDS Naturals, Sequences, FiniteSets, FiniteSetsExt, SequencesExt

CONSTANTS
    MaxCursor,       \* bound: positions the stream may reach
    MaxBatch,        \* most records of one durability group
    FaultBudgets     \* bound: crashes of the process, losses of power and
                     \* failing calls, one combination of which is met

ASSUME BoundsAssumption ==
    /\ MaxCursor \in Nat \ {0}
    /\ MaxBatch \in Nat \ {0}
    /\ FaultBudgets \subseteq [process : Nat, power : Nat, io : Nat]

VARIABLES
    files,   \* the segments of the stream directory, by window ordinal
    writer,  \* CaptureSegmentStream and its CaptureWalSink
    pc,      \* the system call the storage thread is about to make
    reported,   \* largest cursor ever reported durable to the channel
    budget   \* remaining crashes, losses of power and failures

segmentVars == <<files, writer, pc, reported, budget>>

Steps == {"down", "scan", "create", "header", "header_sync", "directory_sync",
          "publish", "publish_sync", "ready", "writing", "written",
          "failed", "refused"}

Record(at, ends) == [at |-> at, end |-> at + 1, seals |-> ends]

\* The explicit WindowSeal record covers no position.
WindowSeal(at) == [at |-> at, end |-> at, seals |-> TRUE]

NoManifest == [state |-> "none", first |-> 0, end |-> 0]

NewFile(first) ==
    [first |-> first, header |-> "none", recs |-> <<>>, synced |-> 0,
     torn |-> FALSE, linked |-> FALSE, manifest |-> NoManifest]

(* Reading a file: the ledger replays every record. *)

\* validate_next: each record starts where the previous one ended.
replays(f) ==
    \A i \in 1 .. Len(f.recs) :
        f.recs[i].at = IF i = 1 THEN f.first ELSE f.recs[i - 1].end

next_cursor(f) == IF f.recs = <<>> THEN f.first ELSE Last(f.recs).end

sealed_windows(f) == {i \in 1 .. Len(f.recs) : f.recs[i].seals}

sealed_manifest(f) ==
    [state |-> "cached", first |-> f.first,
     end |-> f.recs[Min(sealed_windows(f))].end]

Current == files[writer.ordinal]

\* Errors open() returns: a header that does not continue the chain, a record
\* that does not follow, a second window, a record behind the seal, a file
\* without seal that has a successor or a manifest, a manifest that disagrees.
inconsistent(f) ==
    \/ f.first # writer.next
    \/ ~replays(f)
    \/ /\ sealed_windows(f) = {}
       /\ writer.ordinal < Len(files) \/ f.manifest.state # "none"
    \/ /\ sealed_windows(f) # {}
       /\ \/ Cardinality(sealed_windows(f)) > 1
          \/ sealed_manifest(f).end # next_cursor(f)
          \/ /\ f.manifest.state # "none"
             /\ [f.manifest EXCEPT !.state = "cached"] # sealed_manifest(f)

\* What reading the file at hand tells open() to do.
verdict(f) ==
    CASE f.header = "none" -> "header"
      [] f.header # "none" /\ f.torn /\ replays(f) -> "truncate"
      [] f.header # "none" /\ ~(f.torn /\ replays(f)) /\ inconsistent(f) -> "refuse"
      [] OTHER -> IF sealed_windows(f) = {} THEN "current"
                  ELSE IF f.manifest.state = "none" THEN "publish" ELSE "next"

(* Barriers. *)
Synced(f) ==
    [f EXCEPT !.header = IF @ = "cached" THEN "synced" ELSE @,
              !.synced = Len(f.recs)]

\* Names become durable for the whole directory at once.
Linked(f) ==
    [f EXCEPT !.linked = TRUE,
              !.manifest.state = IF @ = "cached" THEN "synced" ELSE @]

LinkedFiles == [i \in DOMAIN files |-> Linked(files[i])]

Spend(kind) ==
    /\ budget[kind] > 0
    /\ budget' = [budget EXCEPT ![kind] = @ - 1]

(* Initially the directory is empty and no process runs. *)
NoBatch == [ordinal |-> 0, next |-> 0, batch |-> <<>>, then |-> "scan"]

SegmentInit ==
    /\ files = <<>>
    /\ writer = NoBatch
    /\ pc = "down"
    /\ reported = 0
    /\ budget \in FaultBudgets

(* Opening the stream. *)

\* inspect_capture_stream_origin: a start, and a rollover to this boot epoch, first
\* read the header of the first file.
origin_unreadable == files # <<>> /\ files[1].header = "none"

\* CaptureWalReader::open fails with TruncatedFileHeader: the stream is not opened.
RefuseOrigin ==
    /\ pc \in {"down", "failed", "refused"}
    /\ origin_unreadable
    /\ pc' = "refused"
    /\ UNCHANGED <<files, writer, reported, budget>>

\* CaptureSegmentStream::open, also of a repository that replaces a failed one.  The
\* replacement is not inspected again, but its first file has had its header.
Open ==
    /\ pc \in {"down", "failed", "refused"}
    /\ ~origin_unreadable
    /\ files' = LinkedFiles
    /\ writer' = [NoBatch EXCEPT !.ordinal = 1]
    /\ pc' = IF files = <<>> THEN "create" ELSE "scan"
    /\ UNCHANGED <<reported, budget>>

\* recover: an incomplete last record is cut off and the file synchronised.
TruncateTail ==
    /\ pc = "scan"
    /\ verdict(Current) = "truncate"
    /\ files' = [files EXCEPT ![writer.ordinal] = Synced([@ EXCEPT !.torn = FALSE])]
    /\ UNCHANGED <<writer, pc, reported, budget>>

\* open returns: the last file, without a seal, becomes current and its end
\* the durable cursor, or an error keeps the host from using this capture.
OpenReturns ==
    /\ pc = "scan"
    /\ verdict(Current) \in {"current", "refuse"}
    /\ IF verdict(Current) = "current"
       THEN /\ writer' = [writer EXCEPT !.next = next_cursor(Current)]
            /\ reported' = Max({reported, next_cursor(Current)})
            /\ pc' = "ready"
       ELSE /\ pc' = "refused"
            /\ UNCHANGED <<writer, reported>>
    /\ UNCHANGED <<files, budget>>

\* A sealed file with its manifest: go on to the next, or create it.
NextSegment ==
    /\ pc = "scan"
    /\ verdict(Current) = "next"
    /\ writer' = [writer EXCEPT !.ordinal = @ + 1, !.next = Current.manifest.end]
    /\ pc' = IF writer.ordinal = Len(files) THEN "create" ELSE "scan"
    /\ UNCHANGED <<files, reported, budget>>

\* A later file without header was created just before the process stopped.
MissingHeader ==
    /\ pc = "scan"
    /\ verdict(Current) = "header"
    /\ files' = [files EXCEPT ![writer.ordinal].first = writer.next]
    /\ pc' = "header"
    /\ UNCHANGED <<writer, reported, budget>>

MissingManifest ==
    /\ pc = "scan"
    /\ verdict(Current) = "publish"
    /\ writer' = [writer EXCEPT !.then = "scan"]
    /\ pc' = "publish"
    /\ UNCHANGED <<files, reported, budget>>

(* CaptureWalSink::open of a new file, one step per system call. *)
CreateFile ==
    /\ pc = "create"
    /\ files' = Append(files, NewFile(writer.next))
    /\ pc' = "header"
    /\ UNCHANGED <<writer, reported, budget>>

WriteHeader ==
    /\ pc = "header"
    /\ files' = [files EXCEPT ![writer.ordinal].header = "cached"]
    /\ pc' = "header_sync"
    /\ UNCHANGED <<writer, reported, budget>>

SyncHeader ==
    /\ pc = "header_sync"
    /\ files' = [files EXCEPT ![writer.ordinal] = Synced(@)]
    /\ pc' = "directory_sync"
    /\ UNCHANGED <<writer, reported, budget>>

SyncNewFile ==
    /\ pc = "directory_sync"
    /\ files' = LinkedFiles
    /\ pc' = "scan"
    /\ UNCHANGED <<writer, reported, budget>>

(* publish_manifest: temporary file, barrier and rename, then the
   directory.  Nothing reads a temporary file, so the rename is the step. *)
PublishManifest ==
    /\ pc = "publish"
    /\ files' = [files EXCEPT ![writer.ordinal].manifest = sealed_manifest(Current)]
    /\ pc' = "publish_sync"
    /\ UNCHANGED <<writer, reported, budget>>

SyncManifest ==
    /\ pc = "publish_sync"
    /\ files' = LinkedFiles
    /\ pc' = writer.then
    /\ UNCHANGED <<writer, reported, budget>>

(* Writing. *)

\* rotate_if_needed, before every group and every explicit end of a window.
\* It takes the steps open takes at a sealed last file.
Rotate ==
    /\ pc = "ready"
    /\ sealed_windows(Current) # {}
    /\ writer' = [writer EXCEPT !.next = Current.first]
    /\ pc' = "scan"
    /\ UNCHANGED <<files, reported, budget>>

\* Mutant: an explicitly finished segment is not rotated before the next group.
Stage_unrotated ==
    /\ pc = "ready"
    /\ \A i \in sealed_windows(Current) : Current.recs[i].at = Current.recs[i].end
    /\ \E n \in 1 .. MaxBatch, ends \in BOOLEAN :
         /\ writer.next + n <= MaxCursor
         /\ writer' = [writer EXCEPT
              !.batch = [i \in 1 .. n |-> Record(writer.next + i - 1, ends /\ i = n)]]
    /\ pc' = "writing"
    /\ UNCHANGED <<files, reported, budget>>

\* A group of contiguous records; one that ends the window is the last.
Stage ==
    /\ pc = "ready"
    /\ sealed_windows(Current) = {}
    /\ \E n \in 1 .. MaxBatch, ends \in BOOLEAN :
         /\ writer.next + n <= MaxCursor
         /\ writer' = [writer EXCEPT
              !.batch = [i \in 1 .. n |-> Record(writer.next + i - 1, ends /\ i = n)]]
    /\ pc' = "writing"
    /\ UNCHANGED <<files, reported, budget>>

\* finish_window of a window that holds something.
FinishWindow ==
    /\ pc = "ready"
    /\ sealed_windows(Current) = {}
    /\ Current.recs # <<>>
    /\ writer' = [writer EXCEPT !.batch = <<WindowSeal(writer.next)>>]
    /\ pc' = "writing"
    /\ UNCHANGED <<files, reported, budget>>

\* write_all may have reached the middle of a record ...
AppendPart ==
    /\ pc = "writing"
    /\ ~Current.torn
    /\ files' = [files EXCEPT ![writer.ordinal].torn = TRUE]
    /\ UNCHANGED <<writer, pc, reported, budget>>

\* ... or its end.
AppendRecord ==
    /\ pc = "writing"
    /\ files' = [files EXCEPT ![writer.ordinal].recs = Append(@, Head(writer.batch)),
                              ![writer.ordinal].torn = FALSE]
    /\ writer' = [writer EXCEPT !.batch = Tail(@)]
    /\ pc' = IF Len(writer.batch) = 1 THEN "written" ELSE "writing"
    /\ UNCHANGED <<reported, budget>>

\* sync_data succeeds: the writer takes over the prepared ledger and cursor.
\* After the seal of finish_window the manifest follows.
Sync ==
    /\ pc = "written"
    /\ files' = [files EXCEPT ![writer.ordinal] = Synced(@)]
    /\ writer' = [writer EXCEPT !.next = next_cursor(Current), !.then = "ready"]
    /\ reported' = Max({reported, next_cursor(Current)})
    /\ pc' = IF Last(Current.recs) = WindowSeal(next_cursor(Current))
             THEN "publish" ELSE "ready"
    /\ UNCHANGED budget

\* A write or a barrier fails.  The writer is poisoned (a failing rotation or
\* open ends the same way): only another open may touch the files again.
IoFails ==
    /\ pc \in Steps \ {"down", "ready", "failed", "refused"}
    /\ Spend("io")
    /\ pc' = "failed"
    /\ UNCHANGED <<files, writer, reported>>

(* Crashes. *)
CrashProcess ==
    /\ pc \notin {"down", "refused"}
    /\ Spend("process")
    /\ pc' = "down"
    /\ UNCHANGED <<files, writer, reported>>

\* What may be left of a file: what a barrier covered and a part of the rest.
Left(f, h, k, t, m) ==
    [f EXCEPT !.header = h, !.recs = SubSeq(f.recs, 1, k), !.synced = k,
              !.torn = t, !.linked = TRUE,
              !.manifest = IF m = "none" THEN NoManifest ELSE [@ EXCEPT !.state = m]]

Survivors(f) ==
    LET headers == IF f.header = "cached" THEN {"none", "synced"} ELSE {f.header}
        states  == IF f.manifest.state = "cached" THEN {"none", "synced"}
                   ELSE {f.manifest.state}
        All == {Left(f, h, k, t, m) : h \in headers, k \in f.synced .. Len(f.recs),
                                      t \in BOOLEAN, m \in states}
    IN  {g \in All : /\ g.torn => g.synced < Len(f.recs) \/ f.torn
                     /\ g.header = "none" => g.recs = <<>> /\ ~g.torn}

SegmentPowerLoss ==
    /\ Spend("power")
    /\ \E n \in {m \in 0 .. Len(files) : \A i \in m + 1 .. Len(files) : ~files[i].linked} :
         files' \in {g \in [1 .. n -> UNION {Survivors(files[i]) : i \in 1 .. n}] :
                       \A i \in 1 .. n : g[i] \in Survivors(files[i])}
    /\ pc' = "down"
    /\ UNCHANGED <<writer, reported>>

------------------------
SegmentNext ==
    \/ RefuseOrigin \/ Open \/ TruncateTail \/ OpenReturns \/ NextSegment
    \/ MissingHeader \/ MissingManifest
    \/ CreateFile \/ WriteHeader \/ SyncHeader \/ SyncNewFile
    \/ PublishManifest \/ SyncManifest
    \/ Rotate \/ Stage \/ FinishWindow
    \/ AppendPart \/ AppendRecord \/ Sync \/ IoFails
    \/ CrashProcess \/ SegmentPowerLoss

SegmentSpec == SegmentInit /\ [][SegmentNext]_segmentVars

------------------------
(* Properties. *)

\* Whatever the process was doing when it stopped, in a write, a rotation, a publication
\* or a recovery, the next open accepts what it left behind.  The one exception loses
\* nothing: the stream is a first file that never got its header, and no record.
RefusalLosesNothing ==
    pc = "refused" =>
        /\ Len(files) = 1 /\ files[1].header = "none"
        /\ files[1].recs = <<>> /\ reported = 0

covers(record, c) == record.at = c /\ record.end = c + 1

\* A stream that is open for writing holds every position below its durable
\* cursor in exactly one record, none above it, and the cursor is not below
\* anything that was ever reported durable: an uncertain write is neither lost
\* nor appended twice by the retry that follows recovery.
CaptureIntact ==
    pc = "ready" =>
        /\ writer.next = reported
        /\ \A c \in 0 .. MaxCursor :
             Cardinality({p \in UNION {{i} \X (1 .. Len(files[i].recs)) : i \in DOMAIN files} :
                            covers(files[p[1]].recs[p[2]], c)})
               = IF c < writer.next THEN 1 ELSE 0

\* A segment whose manifest is published never changes again, and the manifest
\* describes it: archive and retention read published segments without locks.
\* Only a loss of power before the directory's barrier takes a manifest away.
PublishedIsFrozen ==
    [][\A i \in DOMAIN files :
         files[i].manifest.state # "none" =>
            /\ i \in DOMAIN files'
            /\ files'[i].recs = files[i].recs
            /\ ~files'[i].torn
            /\ \/ [files'[i].manifest EXCEPT !.state = "cached"] = sealed_manifest(files[i])
               \/ files[i].manifest.state = "cached" /\ files'[i].manifest = NoManifest]_segmentVars

\* What was reported durable stays: a capture that holds something can be opened again,
\* holds every position once, and its published segments are frozen.
CaptureKept == [](RefusalLosesNothing /\ CaptureIntact) /\ PublishedIsFrozen

\* A cursor is reported durable, and the node told to release what lies below
\* it, only after a barrier that covers every record below it
\* (BOUNDED-PERSISTENCE-WRITER.md, last line).
ReceiptAfterBarrier ==
    \A c \in 0 .. MaxCursor - 1 :
        c < reported =>
            \E i \in DOMAIN files :
                /\ files[i].linked
                /\ files[i].header = "synced"
                /\ \E j \in 1 .. files[i].synced :
                      covers(files[i].recs[j], c)
=============================================================================
