---------------------------- MODULE StorageProofs ----------------------------
(* The retention of captures and archives, for every set of segments,
   products and indexes, every policy and any number of crashes, failing
   calls and losses of power; and the capture of one stream on disk, for
   every length, group size and number of faults: the last part. *)
EXTENDS RetentionCleanup, RetentionCheckpoint, CaptureSegments, FiniteSetTheorems, SequenceTheorems,
        WellFoundedInduction, TLAPS

------------------------
(* The cleanup of captures and archives (RetentionCleanup). *)

Wal(s) == <<"wal", s>>
Manifest(s) == <<"manifest", s>>
CaptureCp(s) == <<"capture_cp", s>>
Archive(p) == <<"archive", p>>
IndexOf(p) == <<"index", p>>
ArchiveCp(p) == <<"archive_cp", p>>

Gone(f) == disk[f] = None /\ synced[f] = None
Present(f) == disk[f] # None /\ synced[f] # None
CaptureGone(s) == Gone(Wal(s)) /\ Gone(Manifest(s))
ArchiveGone(p) == Gone(Archive(p)) /\ Gone(IndexOf(p))

(* The server has had every sample of the segment for a grace period at t. *)
Released(s, t) ==
  \A c \in cursors(SegmentKey(s)) : \E p \in Products :
    /\ replica[p] # None
    /\ \E span \in replica[p].inputs :
         span.segment = SegmentKey(s) /\ c \in cursors(span)
    /\ \E g \in GracePeriods : acked[p] + g <= t

(* All of what the product was made from is durably gone. *)
SourcesGone(p) ==
  \A s \in Segments : SegmentKey(s) \in dependencies(replica[p]) => CaptureGone(s)

(* An index the compactor published: of windows that are sealed. *)
SealedIndex(p, x) ==
  /\ x \in Indexes /\ x.product = p /\ validate(x)
  /\ \A key \in dependencies(x) :
       \E s \in Segments : key = SegmentKey(s) /\ sealed(s)

(* What the two checkpoints may hold, on disk or on its way there. *)
CaptureState(s, x) ==
  /\ x \in CaptureStates /\ x.segment = SegmentKey(s) /\ readable_capture(x)
  /\ sealed(s) /\ Released(s, x.delete_after)
  /\ x.deleted # None => CaptureGone(s)

ArchiveState(p, x) ==
  /\ x \in ArchiveStates /\ x.product = p /\ readable_archive(x)
  /\ replica[p] # None /\ x.dependencies = dependencies(replica[p])
  /\ x.delete_after = acked[p] + ArchivePeriod
  /\ x.deleted # None => ArchiveGone(p)

(* A later state of a checkpoint takes back no deadline and no deletion. *)
Extends(x, y) ==
  /\ y # None /\ y.delete_after = x.delete_after
  /\ x.deleted # None => y.deleted = x.deleted

------------------------
(* The inductive invariant, part by part. *)

WorldTypes ==
  /\ now \in Nat /\ grace \in GracePeriods /\ active \in {latest(Segments), Closed}
  /\ verified \in [Products -> Nat \cup {None}]
  /\ acked = verified
  /\ replica \in [Products -> Indexes \cup {None}]
  /\ offers = Indexes
  /\ DOMAIN disk = Files /\ DOMAIN synced = Files

Replicas ==
  \A p \in Products :
    /\ replica[p] = None <=> acked[p] = None
    /\ acked[p] # None => acked[p] <= now /\ SealedIndex(p, replica[p])

(* What a file holds, as seen and as the last barrier left it. *)
ContentSound(content) ==
  /\ \A s \in Segments :
       /\ content[Manifest(s)] \in {None, SegmentKey(s)}
       /\ content[Manifest(s)] # None => sealed(s)
       /\ content[CaptureCp(s)] # None => CaptureState(s, content[CaptureCp(s)])
  /\ \A p \in Products :
       /\ content[IndexOf(p)] # None =>
            /\ SealedIndex(p, content[IndexOf(p)])
            /\ acked[p] # None => content[IndexOf(p)] = replica[p]
       /\ content[ArchiveCp(p)] # None => ArchiveState(p, content[ArchiveCp(p)])

(* A sealed capture is whole until the server holds it. *)
CapturesHeld ==
  \A s \in Segments :
    sealed(s) => \/ Present(Wal(s)) /\ Present(Manifest(s))
                 \/ Released(s, now)

(* An index comes after its archive; both stay until the captures are gone. *)
ArchivesHeld ==
  \A p \in Products :
    IF acked[p] = None
    THEN /\ disk[IndexOf(p)] # None => Present(Archive(p))
         /\ synced[IndexOf(p)] # None => synced[IndexOf(p)] = disk[IndexOf(p)]
    ELSE \/ Present(Archive(p)) /\ Present(IndexOf(p))
         \/ now >= acked[p] + ArchivePeriod /\ SourcesGone(p)

RecordsHeld ==
  /\ \A s \in Segments :
       synced[CaptureCp(s)] # None => Extends(synced[CaptureCp(s)], disk[CaptureCp(s)])
  /\ \A p \in Products :
       synced[ArchiveCp(p)] # None => Extends(synced[ArchiveCp(p)], disk[ArchiveCp(p)])

(* Without a loss of power, data goes before its descriptor. *)
DescriptorsLast ==
  ~power =>
    /\ \A s \in Segments : disk[Manifest(s)] = None => disk[Wal(s)] = None
    /\ \A p \in Products :
         acked[p] # None /\ disk[IndexOf(p)] = None => disk[Archive(p)] = None

(* The call in progress. *)
PersistsIndex(p) ==
  /\ job.file = IndexOf(p) /\ acked[p] = None /\ Present(Archive(p))
  /\ SealedIndex(p, job.next)
  /\ job.step = "rename" => disk[IndexOf(p)] = None
  /\ job.step = "sync" => disk[IndexOf(p)] = job.next

PersistsCapture(s) ==
  /\ job.file = CaptureCp(s) /\ CaptureState(s, job.next)
  /\ disk[CaptureCp(s)] # None => Extends(disk[CaptureCp(s)], job.next)

PersistsArchive(p) ==
  /\ job.file = ArchiveCp(p) /\ ArchiveState(p, job.next)
  /\ disk[ArchiveCp(p)] # None => Extends(disk[ArchiveCp(p)], job.next)

Persists ==
  /\ DOMAIN job = {"kind", "file", "next", "step", "answer"}
  /\ job.step \in {"rename", "sync"} /\ job.answer \in {"ok", "Deleted"}
  /\ \/ \E p \in Products : PersistsIndex(p) \/ PersistsArchive(p)
     \/ \E s \in Segments : PersistsCapture(s)

Unlinks(data, descriptor) ==
  /\ DOMAIN job = {"kind", "data", "descriptor", "checkpoint", "state", "at", "step"}
  /\ job.data = data /\ job.descriptor = descriptor
  /\ job.step \in {"data", "descriptor", "sync", "mark"}
  /\ job.step # "data" => disk[data] = None
  /\ job.step \in {"sync", "mark"} => disk[descriptor] = None
  /\ job.step = "mark" => Gone(data) /\ Gone(descriptor)
  /\ job.state = disk[job.checkpoint]
  /\ deadline_elapsed(job.state, job.at) /\ job.at \in Nat /\ job.at <= now

CleansCapture(s) ==
  /\ job.checkpoint = CaptureCp(s) /\ CaptureState(s, job.state)
  /\ Unlinks(Wal(s), Manifest(s))

CleansArchive(p) ==
  /\ job.checkpoint = ArchiveCp(p) /\ ArchiveState(p, job.state)
  /\ SourcesGone(p)
  /\ Unlinks(Archive(p), IndexOf(p))

JobSound ==
  \/ job = Idle
  \/ job.kind = "persist" /\ Persists
  \/ job.kind = "capture" /\ \E s \in Segments : CleansCapture(s)
  \/ job.kind = "archive" /\ \E p \in Products : CleansArchive(p)

CleanupInv ==
  /\ WorldTypes /\ Replicas
  /\ ContentSound(disk) /\ ContentSound(synced)
  /\ CapturesHeld /\ ArchivesHeld /\ RecordsHeld /\ DescriptorsLast
  /\ JobSound /\ CleanupResumes

FilesInv ==
  /\ WorldTypes /\ Replicas
  /\ ContentSound(disk) /\ ContentSound(synced)
  /\ CapturesHeld /\ ArchivesHeld /\ RecordsHeld /\ DescriptorsLast

------------------------
(* What no step takes back. *)
Later ==
  /\ now' \in Nat /\ now <= now'
  /\ \A s \in Segments : sealed(s) => sealed(s)'
  /\ \A p \in Products :
       acked[p] # None => acked'[p] = acked[p] /\ replica'[p] = replica[p]
  /\ \A s \in Segments :
       sealed(s) => /\ Gone(Wal(s)) => Gone(Wal(s))'
                    /\ Gone(Manifest(s)) => Gone(Manifest(s))'
  /\ \A p \in Products :
       acked[p] # None => /\ Gone(Archive(p)) => Gone(Archive(p))'
                          /\ Gone(IndexOf(p)) => Gone(IndexOf(p))'

(* The six kinds of files. *)
LEMMA Paths ==
  /\ \A s \in Segments :
       /\ Wal(s) \in Files /\ Wal(s)[1] = "wal" /\ Wal(s)[2] = s
       /\ Manifest(s) \in Files /\ Manifest(s)[1] = "manifest" /\ Manifest(s)[2] = s
       /\ CaptureCp(s) \in Files /\ CaptureCp(s)[1] = "capture_cp"
       /\ CaptureCp(s)[2] = s
  /\ \A p \in Products :
       /\ Archive(p) \in Files /\ Archive(p)[1] = "archive" /\ Archive(p)[2] = p
       /\ IndexOf(p) \in Files /\ IndexOf(p)[1] = "index" /\ IndexOf(p)[2] = p
       /\ ArchiveCp(p) \in Files /\ ArchiveCp(p)[1] = "archive_cp"
       /\ ArchiveCp(p)[2] = p
  BY DEF Files, Wal, Manifest, CaptureCp, Archive, IndexOf, ArchiveCp

(* A segment is known by its ordinal. *)
LEMMA Keys ==
  /\ \A s, t \in Segments : SegmentKey(s) = SegmentKey(t) => s = t
  /\ \A s \in Segments : SegmentKey(s).ordinal = s /\ SegmentKey(s) # None
  BY RetentionAssumption DEF SegmentKey, SegmentKeys

LEMMA ReleasedLater ==
  ASSUME WorldTypes, Replicas, Later, NEW s \in Segments,
         NEW t \in Nat, NEW u \in Nat, t <= u, Released(s, t)
  PROVE  Released(s, u)'
<1> SUFFICES ASSUME NEW c \in cursors(SegmentKey(s))
             PROVE  \E p \in Products :
                      /\ replica'[p] # None
                      /\ \E span \in replica'[p].inputs :
                           span.segment = SegmentKey(s) /\ c \in cursors(span)
                      /\ \E g \in GracePeriods : acked'[p] + g <= u
  BY DEF Released
<1>2. PICK p \in Products :
        /\ replica[p] # None
        /\ \E span \in replica[p].inputs :
             span.segment = SegmentKey(s) /\ c \in cursors(span)
        /\ \E g \in GracePeriods : acked[p] + g <= t
  BY DEF Released
<1>3. PICK g \in GracePeriods : acked[p] + g <= t BY <1>2
<1>4. acked[p] # None /\ acked[p] \in Nat /\ g \in Nat
  BY <1>2, RetentionAssumption DEF Replicas, WorldTypes
<1>5. acked'[p] = acked[p] /\ replica'[p] = replica[p] BY <1>4 DEF Later
<1>6. acked[p] + g <= u BY <1>3, <1>4
<1> QED BY <1>2, <1>5, <1>6

LEMMA SealedIndexLater ==
  ASSUME Later, NEW p \in Products, NEW x, SealedIndex(p, x)
  PROVE  SealedIndex(p, x)'
  BY DEF Later, SealedIndex

LEMMA SourcesGoneLater ==
  ASSUME Later, Replicas, NEW p \in Products, acked[p] # None, SourcesGone(p)
  PROVE  SourcesGone(p)'
<1>1. replica'[p] = replica[p] BY DEF Later
<1>2. ASSUME NEW s \in Segments, SegmentKey(s) \in dependencies(replica[p])
      PROVE  sealed(s)
  <2>1. PICK t \in Segments : SegmentKey(s) = SegmentKey(t) /\ sealed(t)
    BY <1>2 DEF Replicas, SealedIndex
  <2> QED BY <2>1, Keys
<1> QED BY <1>1, <1>2 DEF SourcesGone, Later, CaptureGone

LEMMA CaptureStateLater ==
  ASSUME WorldTypes, Replicas, Later, NEW s \in Segments, NEW x, CaptureState(s, x)
  PROVE  CaptureState(s, x)'
<1>1. x.delete_after \in Nat BY DEF CaptureState, CaptureStates
<1>2. Released(s, x.delete_after)' BY <1>1, ReleasedLater DEF CaptureState
<1>3. sealed(s)' /\ (x.deleted # None => CaptureGone(s)')
  BY DEF CaptureState, Later, CaptureGone
<1> QED BY <1>2, <1>3 DEF CaptureState

LEMMA ArchiveStateLater ==
  ASSUME Replicas, Later, NEW p \in Products, NEW x, ArchiveState(p, x)
  PROVE  ArchiveState(p, x)'
<1>1. acked[p] # None BY DEF ArchiveState, Replicas
<1> QED BY <1>1 DEF ArchiveState, Later, ArchiveGone

LEMMA ContentLater ==
  ASSUME WorldTypes, Replicas, Later, NEW content, ContentSound(content),
         \A p \in Products :
           content[IndexOf(p)] # None /\ acked[p] = None /\ acked'[p] # None =>
             content[IndexOf(p)] = replica'[p]
  PROVE  ContentSound(content)'
<1>1. ASSUME NEW s \in Segments
      PROVE  /\ content[Manifest(s)] # None => sealed(s)'
             /\ content[CaptureCp(s)] # None => CaptureState(s, content[CaptureCp(s)])'
  BY CaptureStateLater DEF ContentSound, Later
<1>2. ASSUME NEW p \in Products
      PROVE  /\ content[IndexOf(p)] # None =>
                  /\ SealedIndex(p, content[IndexOf(p)])'
                  /\ acked'[p] # None => content[IndexOf(p)] = replica'[p]
             /\ content[ArchiveCp(p)] # None => ArchiveState(p, content[ArchiveCp(p)])'
  BY ArchiveStateLater, SealedIndexLater DEF ContentSound, Later
<1> QED BY <1>1, <1>2 DEF ContentSound

(* Files that were both sound, each from either of two contents. *)
LEMMA MixedContent ==
  ASSUME ContentSound(disk), ContentSound(synced), NEW content,
         \A f \in Files : content[f] \in {disk[f], synced[f]}
  PROVE  ContentSound(content)
  BY Paths DEF ContentSound

(* A step that touches no file and nothing of what they were made from. *)
LEMMA SameFiles ==
  ASSUME FilesInv, grace' \in GracePeriods,
         UNCHANGED <<now, active, verified, acked, replica, offers, power, disk, synced>>
  PROVE  FilesInv' /\ Later
<1>1. Later BY DEF Later, FilesInv, WorldTypes, sealed, Gone
<1>2. ContentSound(disk)' /\ ContentSound(synced)' BY <1>1, ContentLater DEF FilesInv
<1>3. WorldTypes' /\ Replicas' /\ RecordsHeld' /\ DescriptorsLast'
  <2>1. WorldTypes' BY DEF FilesInv, WorldTypes
  <2>2. Replicas' BY <1>1, SealedIndexLater DEF FilesInv, Replicas
  <2>3. RecordsHeld' /\ DescriptorsLast' BY DEF FilesInv, RecordsHeld, DescriptorsLast
  <2> QED BY <2>1, <2>2, <2>3
<1>4. CapturesHeld' /\ ArchivesHeld'
  <2>1. \A s \in Segments : Released(s, now) => Released(s, now)' BY DEF Released
  <2>2. \A p \in Products : SourcesGone(p) => SourcesGone(p)'
    BY DEF SourcesGone, CaptureGone, Gone
  <2> QED BY <2>1, <2>2 DEF FilesInv, CapturesHeld, ArchivesHeld, sealed, Present
<1> QED BY <1>1, <1>2, <1>3, <1>4 DEF FilesInv

(* A barrier, or a loss of power: each file is as one of them was. *)
LEMMA Settling ==
  ASSUME FilesInv, UNCHANGED <<now, world>>,
         DOMAIN disk' = Files, DOMAIN synced' = Files,
         \A f \in Files : /\ disk'[f] \in {disk[f], synced[f]}
                          /\ synced'[f] \in {disk[f], synced[f]},
         disk' = disk \/ (power /\ synced' = disk')
  PROVE  FilesInv' /\ Later
<1>1. UNCHANGED <<grace, active, verified, acked, replica, offers, power>> BY DEF world
<1>2. Later BY <1>1, Paths DEF Later, FilesInv, WorldTypes, sealed, Gone
<1>3. ContentSound(disk)' /\ ContentSound(synced)'
  <2>1. PICK d : d = disk' OBVIOUS
  <2>2. PICK e : e = synced' OBVIOUS
  <2>3. ContentSound(d) /\ ContentSound(e) BY <2>1, <2>2, MixedContent DEF FilesInv
  <2>4. ContentSound(d)' /\ ContentSound(e)'
    BY <1>1, <1>2, <2>3, ContentLater DEF FilesInv
  <2> QED BY <2>1, <2>2, <2>4
<1>4. WorldTypes' /\ Replicas'
  BY <1>1, <1>2, SealedIndexLater DEF FilesInv, WorldTypes, Replicas
<1>5. CapturesHeld'
  <2>1. \A s \in Segments : Released(s, now) => Released(s, now)' BY <1>1 DEF Released
  <2> QED BY <1>1, <2>1, Paths DEF FilesInv, CapturesHeld, sealed, Present
<1>6. ArchivesHeld'
  <2> SUFFICES ASSUME NEW p \in Products
               PROVE  IF acked'[p] = None
                      THEN /\ disk'[IndexOf(p)] # None => Present(Archive(p))'
                           /\ synced'[IndexOf(p)] # None =>
                                synced'[IndexOf(p)] = disk'[IndexOf(p)]
                      ELSE \/ Present(Archive(p))' /\ Present(IndexOf(p))'
                           \/ now' >= acked'[p] + ArchivePeriod /\ SourcesGone(p)'
    BY DEF ArchivesHeld
  <2>1. CASE acked[p] = None BY <1>1, <2>1, Paths DEF FilesInv, ArchivesHeld, Present
  <2>2. CASE acked[p] # None
    <3>1. SourcesGone(p) => SourcesGone(p)' BY <1>2, <2>2, SourcesGoneLater DEF FilesInv
    <3> QED BY <1>1, <2>2, <3>1, Paths DEF FilesInv, ArchivesHeld, Present
  <2> QED BY <2>1, <2>2
<1>7. RecordsHeld' BY Paths DEF FilesInv, RecordsHeld, Extends
<1>8. DescriptorsLast' BY <1>1 DEF FilesInv, DescriptorsLast
<1> QED BY <1>2, <1>3, <1>4, <1>5, <1>6, <1>7, <1>8 DEF FilesInv

(* Between calls: the clock, the policy, the writer, the server. *)
LEMMA SurroundingsKeep ==
  ASSUME CleanupInv, Surroundings
  PROVE  CleanupInv'
<1> USE DEF world
<1>1. CASE Tick
  <2>1. /\ now' = now + 1 /\ job = Idle
        /\ UNCHANGED <<grace, active, verified, acked, replica, offers, power,
                       disk, synced, job, answer>>
    BY <1>1 DEF Tick
  <2>2. now \in Nat /\ now' \in Nat /\ now <= now' BY <2>1 DEF CleanupInv, WorldTypes
  <2>3. Later BY <2>1, <2>2 DEF Later, sealed, Gone
  <2>4. ContentSound(disk)' /\ ContentSound(synced)'
    BY <2>1, <2>3, ContentLater DEF CleanupInv
  <2>5. WorldTypes' BY <2>1, <2>2 DEF CleanupInv, WorldTypes
  <2>6. Replicas'
    <3>1. \A p \in Products : acked[p] # None => acked[p] \in Nat
      BY DEF CleanupInv, WorldTypes
    <3> QED BY <2>1, <2>2, <2>3, <3>1, SealedIndexLater DEF CleanupInv, Replicas
  <2>7. CapturesHeld'
    <3>2. ASSUME NEW s \in Segments, Released(s, now) PROVE Released(s, now)'
      <4>1. PICK t : t = now' OBVIOUS
      <4>2. Released(s, t)' BY <2>2, <2>3, <3>2, <4>1, ReleasedLater DEF CleanupInv
      <4> QED BY <4>1, <4>2 DEF Released
    <3> QED BY <2>1, <3>2 DEF CleanupInv, CapturesHeld, sealed, Present
  <2>8. ArchivesHeld'
    <3>1. ASSUME NEW p \in Products, acked[p] # None
          PROVE  SourcesGone(p) => SourcesGone(p)'
      BY <2>3, <3>1, SourcesGoneLater DEF CleanupInv
    <3>2. \A p \in Products :
            acked[p] # None /\ now >= acked[p] + ArchivePeriod =>
              now' >= acked[p] + ArchivePeriod
      BY <2>1, RetentionAssumption DEF CleanupInv, WorldTypes
    <3> QED BY <2>1, <3>1, <3>2 DEF CleanupInv, ArchivesHeld, Present
  <2>9. RecordsHeld' /\ DescriptorsLast' /\ JobSound' /\ CleanupResumes'
    BY <2>1 DEF CleanupInv, RecordsHeld, DescriptorsLast, JobSound, CleanupResumes
  <2> QED BY <2>4, <2>5, <2>6, <2>7, <2>8, <2>9 DEF CleanupInv
<1>2. CASE ChangePolicy
  <2>1. /\ job = Idle /\ grace' \in GracePeriods
        /\ UNCHANGED <<now, active, verified, acked, replica, offers, power,
                       disk, synced, job, answer>>
    BY <1>2 DEF ChangePolicy
  <2>2. FilesInv' BY <2>1, SameFiles DEF CleanupInv, FilesInv
  <2>3. JobSound' /\ CleanupResumes' BY <2>1 DEF CleanupInv, JobSound, CleanupResumes
  <2> QED BY <2>2, <2>3 DEF CleanupInv, FilesInv
<1>3. CASE SealWindow
  <2> DEFINE w == Wal(active)  m == Manifest(active)
  <2>1. /\ job = Idle /\ active \in Segments
        /\ disk' = [disk EXCEPT ![w] = "wal", ![m] = SegmentKey(active)]
        /\ synced' = [synced EXCEPT ![w] = "wal", ![m] = SegmentKey(active)]
        /\ active' = IF active + 1 \in Segments THEN active + 1 ELSE Closed
        /\ UNCHANGED <<now, grace, verified, acked, replica, offers, power, job, answer>>
    BY <1>3 DEF SealWindow, Wal, Manifest
  <2>2. /\ active \in Nat /\ active # Closed /\ ~sealed(active) /\ active' = Closed
        /\ \A s \in Segments : sealed(s) => s # active /\ sealed(s)'
        /\ \A s \in Segments : sealed(s)' => sealed(s) \/ s = active
    <3>1. active = latest(Segments) /\ active \in Nat
      BY <2>1, RetentionAssumption DEF CleanupInv, WorldTypes
    <3>2. active' = Closed BY <2>1, <3>1, RetentionAssumption
    <3> QED BY <2>1, <3>1, <3>2, RetentionAssumption DEF sealed
  <2>3. /\ w \in Files /\ m \in Files /\ w # m
        /\ DOMAIN disk = Files /\ DOMAIN synced = Files
    BY <2>1, Paths DEF CleanupInv, WorldTypes
  <2>4. /\ DOMAIN disk' = Files /\ DOMAIN synced' = Files
        /\ disk'[w] = "wal" /\ synced'[w] = "wal"
        /\ disk'[m] = SegmentKey(active) /\ synced'[m] = SegmentKey(active)
        /\ \A f \in Files \ {w, m} : disk'[f] = disk[f] /\ synced'[f] = synced[f]
    BY <2>1, <2>3
  <2>5. /\ \A s \in Segments :
             /\ CaptureCp(s) \in Files \ {w, m}
             /\ s # active => Wal(s) \in Files \ {w, m} /\ Manifest(s) \in Files \ {w, m}
        /\ \A p \in Products : /\ Archive(p) \in Files \ {w, m}
                               /\ IndexOf(p) \in Files \ {w, m}
                               /\ ArchiveCp(p) \in Files \ {w, m}
    BY <2>1, Paths
  <2> HIDE DEF w, m
  <2>6. Later BY <2>1, <2>2, <2>4, <2>5 DEF Later, CleanupInv, WorldTypes, Gone
  <2>7. ASSUME NEW c, ContentSound(c), NEW d,
               d[m] = SegmentKey(active), \A f \in Files \ {w, m} : d[f] = c[f]
        PROVE  ContentSound(d)'
    <3>1. ContentSound(c)' BY <2>1, <2>6, <2>7, ContentLater DEF CleanupInv
    <3>2. ASSUME NEW s \in Segments
          PROVE  /\ d[Manifest(s)] \in {None, SegmentKey(s)}
                 /\ d[Manifest(s)] # None => sealed(s)'
                 /\ d[CaptureCp(s)] # None => CaptureState(s, d[CaptureCp(s)])'
      <4>1. CASE s = active
        <5>1. sealed(s)' BY <2>1, <2>2, <4>1, RetentionAssumption DEF sealed
        <5> QED BY <2>5, <2>7, <3>1, <4>1, <5>1 DEF ContentSound, m
      <4>2. CASE s # active BY <2>5, <2>7, <3>1, <4>2 DEF ContentSound
      <4> QED BY <4>1, <4>2
    <3> QED BY <2>5, <2>7, <3>1, <3>2 DEF ContentSound
  <2>8. ContentSound(disk)' /\ ContentSound(synced)'
    <3>1. PICK d : d = disk' OBVIOUS
    <3>2. PICK e : e = synced' OBVIOUS
    <3>3. ContentSound(d)' /\ ContentSound(e)' BY <2>4, <2>7, <3>1, <3>2 DEF CleanupInv
    <3> QED BY <3>1, <3>2, <3>3
  <2>9. WorldTypes' /\ Replicas'
    <3>1. WorldTypes' BY <2>1, <2>2, <2>4 DEF CleanupInv, WorldTypes
    <3>2. Replicas' BY <2>1, <2>6, SealedIndexLater DEF CleanupInv, Replicas
    <3> QED BY <3>1, <3>2
  <2>10. CapturesHeld'
    <3>1. \A s \in Segments : Released(s, now) => Released(s, now)' BY <2>1 DEF Released
    <3>2. ASSUME NEW s \in Segments, sealed(s)'
          PROVE  (Present(Wal(s))' /\ Present(Manifest(s))') \/ Released(s, now)'
      <4>1. CASE s = active
        BY <2>1, <2>4, <4>1, Keys, RetentionAssumption DEF Present, w, m
      <4>2. CASE s # active
        BY <2>2, <2>4, <2>5, <3>1, <3>2, <4>2 DEF CleanupInv, CapturesHeld, Present
      <4> QED BY <4>1, <4>2
    <3> QED BY <3>2 DEF CapturesHeld
  <2>11. ArchivesHeld'
    <3>1. \A p \in Products : acked[p] # None /\ SourcesGone(p) => SourcesGone(p)'
      BY <2>6, SourcesGoneLater DEF CleanupInv
    <3> QED BY <2>1, <2>4, <2>5, <3>1 DEF CleanupInv, ArchivesHeld, Present
  <2>12. RecordsHeld' BY <2>4, <2>5 DEF CleanupInv, RecordsHeld
  <2>13. DescriptorsLast'
    <3>1. ASSUME ~power, NEW s \in Segments, disk'[Manifest(s)] = None
          PROVE  disk'[Wal(s)] = None
      <4>1. CASE s = active BY <2>4, <3>1, <4>1, Keys DEF m
      <4>2. CASE s # active BY <2>4, <2>5, <3>1, <4>2 DEF CleanupInv, DescriptorsLast
      <4> QED BY <4>1, <4>2
    <3> QED BY <2>1, <2>4, <2>5, <3>1 DEF CleanupInv, DescriptorsLast
  <2>14. JobSound' /\ CleanupResumes' BY <2>1 DEF CleanupInv, JobSound, CleanupResumes
  <2> QED BY <2>8, <2>9, <2>10, <2>11, <2>12, <2>13, <2>14 DEF CleanupInv
<1>4. ASSUME NEW q \in Products, Replicate(q)
      PROVE  CleanupInv'
  <2>1. /\ job = Idle /\ synced[IndexOf(q)] # None /\ acked[q] = None
        /\ verified' = [verified EXCEPT ![q] = now]
        /\ acked' = [acked EXCEPT ![q] = now]
        /\ replica' = [replica EXCEPT ![q] = disk[IndexOf(q)]]
        /\ UNCHANGED <<now, grace, active, offers, power, disk, synced, job, answer>>
    BY <1>4 DEF Replicate, IndexOf
  <2>2. /\ disk[IndexOf(q)] = synced[IndexOf(q)]
        /\ SealedIndex(q, disk[IndexOf(q)]) /\ disk[IndexOf(q)] \in Indexes
        /\ disk[IndexOf(q)] # None
        /\ Present(Archive(q)) /\ Present(IndexOf(q))
    BY <2>1 DEF CleanupInv, ArchivesHeld, ContentSound, SealedIndex, Present
  <2>3. /\ acked'[q] = now /\ replica'[q] = disk[IndexOf(q)] /\ now \in Nat /\ now # None
        /\ \A p \in Products \ {q} : acked'[p] = acked[p] /\ replica'[p] = replica[p]
    BY <2>1, RetentionAssumption DEF CleanupInv, WorldTypes
  <2>4. Later BY <2>1, <2>3 DEF Later, sealed, Gone
  <2>5. ContentSound(disk)' /\ ContentSound(synced)'
    <3>1. \A p \in Products :
            acked[p] = None /\ acked'[p] # None =>
              disk[IndexOf(p)] = replica'[p] /\ synced[IndexOf(p)] = replica'[p]
      BY <2>2, <2>3
    <3> QED BY <2>1, <2>4, <3>1, ContentLater DEF CleanupInv
  <2>6. WorldTypes' BY <2>1, <2>2 DEF CleanupInv, WorldTypes
  <2>7. Replicas'
    <3>1. ASSUME NEW p \in Products
          PROVE  /\ replica'[p] = None <=> acked'[p] = None
                 /\ acked'[p] # None => acked'[p] <= now' /\ SealedIndex(p, replica[p])'
      <4>1. CASE p = q BY <2>1, <2>2, <2>3, <4>1 DEF SealedIndex, sealed
      <4>2. CASE p # q BY <2>1, <2>3, <4>2 DEF CleanupInv, Replicas, SealedIndex, sealed
      <4> QED BY <4>1, <4>2
    <3> QED BY <3>1 DEF Replicas
  <2>8. CapturesHeld'
    <3>1. \A s \in Segments : Released(s, now) => Released(s, now)'
      <4>1. \A s \in Segments, t \in Nat : Released(s, t) => Released(s, t)'
        BY <2>4, ReleasedLater DEF CleanupInv
      <4> QED BY <2>1, <2>3, <4>1 DEF Released
    <3> QED BY <2>1, <3>1 DEF CleanupInv, CapturesHeld, sealed, Present
  <2>9. ArchivesHeld'
    <3>1. \A p \in Products : acked[p] # None /\ SourcesGone(p) => SourcesGone(p)'
      BY <2>4, SourcesGoneLater DEF CleanupInv
    <3> QED BY <2>1, <2>2, <2>3, <3>1 DEF CleanupInv, ArchivesHeld, Present
  <2>10. RecordsHeld' /\ JobSound' /\ CleanupResumes'
    BY <2>1 DEF CleanupInv, RecordsHeld, JobSound, CleanupResumes
  <2>11. DescriptorsLast' BY <2>1, <2>2, <2>3 DEF CleanupInv, DescriptorsLast
  <2> QED BY <2>5, <2>6, <2>7, <2>8, <2>9, <2>10, <2>11 DEF CleanupInv
<1> QED BY <1>1, <1>2, <1>3, <1>4 DEF Surroundings

(* A non-empty set of naturals has a least element. *)
LEMMA LeastNat ==
  ASSUME NEW S \in SUBSET Nat, S # {}
  PROVE  \E n \in S : \A m \in S : n <= m
<1>1. PICK x \in S : \A y \in S : ~ (<<y, x>> \in OpToRel(<, Nat))
  BY NatLessThanWellFounded, WFMin
<1>2. ASSUME NEW y \in S PROVE x <= y
  <2>1. ~(y < x)
    <3>1. <<y, x>> \in Nat \X Nat OBVIOUS
    <3>2. y < x => <<y, x>> \in OpToRel(<, Nat) BY <3>1, Zenon DEF OpToRel
    <3> QED BY <1>1, <3>2, Zenon
  <2> QED BY <2>1
<1> QED BY <1>2

(* A set of times that has a bound has a latest one. *)
LEMMA LatestIs ==
  ASSUME NEW T, T \subseteq Nat, T # {}, NEW n \in Nat, \A t \in T : t <= n
  PROVE  latest(T) \in T /\ \A t \in T : t <= latest(T)
<1> DEFINE D == {n - t : t \in T}
<1>1. \A t \in T : n - t \in Nat OBVIOUS
<1>2. D \subseteq Nat BY <1>1
<1>3. D # {} OBVIOUS
<1> HIDE DEF D
<1>4. PICK d \in D : \A e \in D : d <= e BY <1>2, <1>3, LeastNat
<1> USE DEF D
<1>5. PICK t \in T : d = n - t OBVIOUS
<1>6. \A u \in T : u <= t
  <2> SUFFICES ASSUME NEW u \in T PROVE u <= t OBVIOUS
  <2>1. n - t <= n - u BY <1>4, <1>5
  <2> QED BY <2>1
<1> QED BY <1>6 DEF latest

(* A call that is refused, or has nothing to do. *)
LEMMA ReturnKeeps ==
  ASSUME CleanupInv, NEW a, Return(a),
         a \notin Conflicts, power \/ a \notin Orphans
  PROVE  CleanupInv'
<1>1. /\ job' = Idle /\ (answer' = a \/ answer' = "none")
      /\ UNCHANGED <<now, grace, active, verified, acked, replica, offers, power, disk, synced>>
  BY DEF Return, Answer, world
<1>2. FilesInv' BY <1>1, SameFiles DEF CleanupInv, FilesInv, WorldTypes
<1>3. JobSound' /\ CleanupResumes'
  BY <1>1 DEF JobSound, CleanupResumes, Conflicts, Orphans
<1> QED BY <1>2, <1>3 DEF CleanupInv, FilesInv

(* A call that goes on to replace a checkpoint. *)
LEMMA PersistKeeps ==
  ASSUME CleanupInv, NEW f, NEW x, NEW a \in {"ok", "Deleted"}, Persist(f, x, a),
         disk[f] # None => Extends(disk[f], x),
         \/ \E s \in Segments : f = CaptureCp(s) /\ CaptureState(s, x)
         \/ \E p \in Products : f = ArchiveCp(p) /\ ArchiveState(p, x)
  PROVE  CleanupInv'
<1>1. /\ job' = [kind |-> "persist", file |-> f, next |-> x, step |-> "rename", answer |-> a]
      /\ answer' = "none"
      /\ UNCHANGED <<now, grace, active, verified, acked, replica, offers, power, disk, synced>>
  BY DEF Persist, world
<1>2. FilesInv' /\ Later BY <1>1, SameFiles DEF CleanupInv, FilesInv, WorldTypes
<1>3. /\ job'.kind = "persist" /\ job'.file = f /\ job'.next = x
      /\ job'.step = "rename" /\ job'.answer = a
      /\ DOMAIN job' = {"kind", "file", "next", "step", "answer"}
  BY <1>1
<1>4. ASSUME NEW s \in Segments, f = CaptureCp(s), CaptureState(s, x)
      PROVE  PersistsCapture(s)'
  <2>1. CaptureState(s, x)' BY <1>2, <1>4, CaptureStateLater DEF CleanupInv
  <2>2. CaptureState(s, job.next)' BY <1>3, <2>1 DEF CaptureState, Released
  <2> QED BY <1>1, <1>3, <1>4, <2>2 DEF PersistsCapture
<1>5. ASSUME NEW p \in Products, f = ArchiveCp(p), ArchiveState(p, x)
      PROVE  PersistsArchive(p)'
  <2>1. ArchiveState(p, x)' BY <1>2, <1>5, ArchiveStateLater DEF CleanupInv
  <2>2. ArchiveState(p, job.next)' BY <1>3, <2>1 DEF ArchiveState
  <2> QED BY <1>1, <1>3, <1>5, <2>2 DEF PersistsArchive
<1>6. JobSound' BY <1>3, <1>4, <1>5 DEF JobSound, Persists
<1>7. CleanupResumes' BY <1>1 DEF CleanupResumes, Conflicts, Orphans
<1> QED BY <1>2, <1>6, <1>7 DEF CleanupInv, FilesInv

(* What proves the coverage of a segment: the server has all of it. *)
LEMMA ProofIsSound ==
  ASSUME CleanupInv, NEW s \in Segments, NEW ps \in SUBSET Products,
         \A p \in ps : disk[IndexOf(p)] # None /\ acked[p] # None,
         proves(SegmentKey(s), ps)
  PROVE  CaptureState(s, CaptureCoverageState(SegmentKey(s), ps))
<1> DEFINE key == SegmentKey(s)
           products == contributing(key, ps)
           times == {acked[p] : p \in products}
           at == latest(times)
           x == CaptureCoverageState(key, ps)
<1>1. /\ key.first = 2 * s /\ key.end = 2 * s + 2 /\ s \in Nat
      /\ valid_segment(key) /\ exact_chain(key, covering(key, ps))
  BY RetentionAssumption DEF proves, SegmentKey
<1>2. \A p \in ps : disk[IndexOf(p)] = replica[p] /\ SealedIndex(p, replica[p])
  BY DEF CleanupInv, ContentSound, Replicas
<1>3. /\ products \subseteq Products
      /\ \A p \in products : /\ p \in ps /\ key \in dependencies(disk[IndexOf(p)])
                             /\ acked[p] \in Nat /\ acked[p] <= now
  BY DEF contributing, CleanupInv, WorldTypes, Replicas, IndexOf
<1>4. ASSUME NEW c \in cursors(key)
      PROVE  \E p \in products : \E span \in replica[p].inputs :
               span.segment = key /\ c \in cursors(span)
  <2>1. PICK a \in covering(key, ps) : c \in cursors(a.span)
    BY <1>1, <1>4 DEF exact_chain
  <2>2. PICK p \in ps : \E i \in disk[<<"index", p>>].inputs :
          i.segment = key /\ a = [span |-> i, product |-> p]
    BY <2>1 DEF covering
  <2>3. PICK i \in disk[<<"index", p>>].inputs :
          i.segment = key /\ a = [span |-> i, product |-> p]
    BY <2>2
  <2>4. a.span = i BY <2>3
  <2>5. p \in products BY <2>3 DEF contributing, dependencies
  <2> QED BY <1>2, <2>1, <2>3, <2>4, <2>5 DEF IndexOf
<1>5. products # {}
  <2>1. key.first \in cursors(key) BY <1>1 DEF cursors
  <2> QED BY <1>4, <2>1
<1>6. times \subseteq Nat /\ times # {} /\ \A t \in times : t <= now BY <1>3, <1>5
<1>7. at \in Nat /\ \A p \in products : acked[p] <= at
  <2>1. now \in Nat BY DEF CleanupInv, WorldTypes
  <2> QED BY <1>6, <2>1, LatestIs
<1>8. grace \in GracePeriods /\ grace \in Nat /\ grace > 0
  BY RetentionAssumption DEF CleanupInv, WorldTypes
<1>9. x = [segment |-> key, products |-> products, replicated |-> at,
           delete_after |-> at + grace, deleted |-> None]
  BY DEF CaptureCoverageState
<1> HIDE DEF products, at, x
<1>10. x \in CaptureStates BY <1>3, <1>7, <1>8, <1>9 DEF CaptureStates, SegmentKeys
<1>11. readable_capture(x) BY <1>1, <1>5, <1>7, <1>8, <1>9 DEF readable_capture
<1>12. sealed(s)
  <2>1. PICK p \in products : TRUE BY <1>5
  <2>2. PICK t \in Segments : key = SegmentKey(t) /\ sealed(t)
    BY <1>2, <1>3, <2>1 DEF SealedIndex
  <2> QED BY <2>2, Keys
<1>13. Released(s, x.delete_after)
  <2> SUFFICES ASSUME NEW c \in cursors(key)
               PROVE  \E p \in Products :
                        /\ replica[p] # None
                        /\ \E span \in replica[p].inputs :
                             span.segment = key /\ c \in cursors(span)
                        /\ \E g \in GracePeriods : acked[p] + g <= x.delete_after
    BY DEF Released
  <2>1. PICK p \in products : \E span \in replica[p].inputs :
          span.segment = key /\ c \in cursors(span)
    BY <1>4
  <2>2. p \in Products /\ replica[p] # None /\ acked[p] + grace <= x.delete_after
    BY <1>3, <1>7, <1>8, <1>9, <2>1 DEF CleanupInv, Replicas
  <2> QED BY <1>8, <2>1, <2>2
<1>14. x.segment = key /\ x.deleted = None BY <1>9
<1> QED BY <1>10, <1>11, <1>12, <1>13, <1>14 DEF CaptureState, x

(* The retention state a new archive checkpoint begins with. *)
LEMMA RetentionIsSound ==
  ASSUME CleanupInv, NEW p \in Products, disk[IndexOf(p)] # None, acked[p] # None
  PROVE  ArchiveState(p, ArchiveRetentionState(p))
<1> DEFINE x == ArchiveRetentionState(p)
<1>1. /\ disk[IndexOf(p)] = replica[p] /\ SealedIndex(p, replica[p])
      /\ acked[p] \in Nat /\ verified[p] = acked[p] /\ replica[p] # None
  BY DEF CleanupInv, ContentSound, Replicas, WorldTypes
<1>2. x = [product |-> p, dependencies |-> dependencies(replica[p]),
           verified |-> acked[p], acked |-> acked[p],
           delete_after |-> acked[p] + ArchivePeriod, deleted |-> None]
  BY <1>1 DEF ArchiveRetentionState, IndexOf
<1> HIDE DEF x
<1>3. dependencies(replica[p]) \in SUBSET SegmentKeys
  BY <1>1 DEF SealedIndex, SegmentKeys
<1>4. x \in ArchiveStates BY <1>1, <1>2, <1>3, RetentionAssumption DEF ArchiveStates
<1>5. /\ dependencies(replica[p]) # {}
      /\ \A key \in dependencies(replica[p]) : valid_segment(key)
  BY <1>1 DEF SealedIndex, validate, valid_span, dependencies
<1>6. readable_archive(x) BY <1>1, <1>2, <1>5, RetentionAssumption DEF readable_archive
<1>7. /\ x.product = p /\ x.dependencies = dependencies(replica[p])
      /\ x.delete_after = acked[p] + ArchivePeriod /\ x.deleted = None
  BY <1>2
<1> QED BY <1>1, <1>4, <1>6, <1>7 DEF ArchiveState, x

(* A call that begins to remove the files of a segment or a product. *)
LEMMA UnlinkStarts ==
  ASSUME CleanupInv, NEW kind, NEW data, NEW descriptor, NEW cp,
         StartUnlink(kind, data, descriptor, cp),
         deadline_elapsed(disk[cp], now),
         \/ \E s \in Segments :
              /\ kind = "capture" /\ cp = CaptureCp(s) /\ CaptureState(s, disk[cp])
              /\ data = Wal(s) /\ descriptor = Manifest(s)
         \/ \E p \in Products :
              /\ kind = "archive" /\ cp = ArchiveCp(p) /\ ArchiveState(p, disk[cp])
              /\ data = Archive(p) /\ descriptor = IndexOf(p) /\ SourcesGone(p)
  PROVE  CleanupInv'
<1>1. /\ job' = [kind |-> kind, data |-> data, descriptor |-> descriptor,
                 checkpoint |-> cp, state |-> disk[cp], at |-> now, step |-> "data"]
      /\ answer' = "none"
      /\ UNCHANGED <<now, grace, active, verified, acked, replica, offers, power, disk, synced>>
  BY DEF StartUnlink, world
<1>2. FilesInv' /\ Later BY <1>1, SameFiles DEF CleanupInv, FilesInv, WorldTypes
<1>3. /\ job'.kind = kind /\ job'.data = data /\ job'.descriptor = descriptor
      /\ job'.checkpoint = cp /\ job'.state = disk[cp] /\ job'.at = now
      /\ job'.step = "data"
  BY <1>1
<1>4. Unlinks(data, descriptor)'
  <2>1. now \in Nat BY DEF CleanupInv, WorldTypes
  <2> QED BY <1>1, <1>3, <2>1 DEF Unlinks, deadline_elapsed
<1>5. ASSUME NEW s \in Segments, cp = CaptureCp(s), CaptureState(s, disk[cp])
      PROVE  CaptureState(s, job.state)'
  BY <1>1, <1>3, <1>5 DEF CaptureState, Released, sealed, CaptureGone, Gone
<1>6. ASSUME NEW p \in Products, cp = ArchiveCp(p), ArchiveState(p, disk[cp])
      PROVE  ArchiveState(p, job.state)'
  BY <1>1, <1>3, <1>6 DEF ArchiveState, ArchiveGone, Gone
<1>7. \A p \in Products : SourcesGone(p) => SourcesGone(p)'
  BY <1>1 DEF SourcesGone, CaptureGone, Gone
<1>8. JobSound'
  <2>1. ASSUME NEW s \in Segments, kind = "capture", cp = CaptureCp(s),
               CaptureState(s, disk[cp]), data = Wal(s), descriptor = Manifest(s)
        PROVE  CleansCapture(s)'
    BY <1>3, <1>4, <1>5, <2>1 DEF CleansCapture
  <2>2. ASSUME NEW p \in Products, kind = "archive", cp = ArchiveCp(p),
               ArchiveState(p, disk[cp]), data = Archive(p), descriptor = IndexOf(p),
               SourcesGone(p)
        PROVE  CleansArchive(p)'
    BY <1>3, <1>4, <1>6, <1>7, <2>2 DEF CleansArchive
  <2> QED BY <1>3, <2>1, <2>2 DEF JobSound
<1>9. CleanupResumes' BY <1>1 DEF CleanupResumes, Conflicts, Orphans
<1> QED BY <1>2, <1>8, <1>9 DEF CleanupInv, FilesInv

LEMMA CaptureCallsKeep ==
  ASSUME CleanupInv, NEW s \in Segments, NEW protection,
         cleanup_capture_segment(s, protection)
  PROVE  CleanupInv'
<1> DEFINE cp == CaptureCp(s)
<1>1. disk[cp] # None /\ CaptureState(s, disk[cp])
  BY DEF cleanup_capture_segment, exists, CleanupInv, ContentSound, CaptureCp
<1>2. readable_capture(disk[cp]) /\ disk[cp].segment = SegmentKey(s)
  BY <1>1 DEF CaptureState
<1>3. CASE disk[cp].deleted # None
  <2>1. ~exists(Wal(s)) /\ ~exists(Manifest(s))
    BY <1>1, <1>3 DEF CaptureState, CaptureGone, Gone, exists
  <2>2. Return("AlreadyRecorded")
    BY <1>2, <1>3, <2>1 DEF cleanup_capture_segment, CaptureCp, Wal, Manifest
  <2> QED BY <2>2, ReturnKeeps DEF Conflicts, Orphans
<1>4. CASE disk[cp].deleted = None
  <2>1. CASE ~deadline_elapsed(disk[cp], now)
    <3>1. Return("NotDue") BY <1>2, <1>4, <2>1 DEF cleanup_capture_segment, CaptureCp
    <3> QED BY <3>1, ReturnKeeps DEF Conflicts, Orphans
  <2>2. CASE deadline_elapsed(disk[cp], now) /\ protected(protection, s)
    <3>1. Return("ActiveWindowProtected")
      BY <1>2, <1>4, <2>2 DEF cleanup_capture_segment, CaptureCp
    <3> QED BY <3>1, ReturnKeeps DEF Conflicts, Orphans
  <2>3. CASE /\ deadline_elapsed(disk[cp], now) /\ ~protected(protection, s)
             /\ exists(Wal(s)) /\ ~exists(Manifest(s))
    <3>1. Return("WalWithoutManifest")
      BY <1>2, <1>4, <2>3 DEF cleanup_capture_segment, CaptureCp, Wal, Manifest
    <3>2. power BY <2>3 DEF CleanupInv, DescriptorsLast, exists
    <3> QED BY <3>1, <3>2, ReturnKeeps DEF Conflicts, Orphans
  <2>4. CASE /\ deadline_elapsed(disk[cp], now) /\ ~protected(protection, s)
             /\ ~(exists(Wal(s)) /\ ~exists(Manifest(s)))
    <3>1. identified(Wal(s), Manifest(s), disk[Manifest(s)] = disk[cp].segment)
      BY <1>2, <2>4 DEF identified, exists, CleanupInv, ContentSound
    <3>2. StartUnlink("capture", Wal(s), Manifest(s), cp)
      BY <1>2, <1>4, <2>4, <3>1 DEF cleanup_capture_segment, CaptureCp, Wal, Manifest
    <3> QED BY <1>1, <2>4, <3>2, UnlinkStarts
  <2> QED BY <2>1, <2>2, <2>3, <2>4
<1> QED BY <1>3, <1>4

LEMMA ArchiveCallsKeep ==
  ASSUME CleanupInv, NEW p \in Products, NEW deps \in SUBSET Segments,
         cleanup_archive_product(p, {"capture_cp"} \X deps)
  PROVE  CleanupInv'
<1> DEFINE cp == ArchiveCp(p)
           paths == {"capture_cp"} \X deps
<1>1. disk[cp] # None /\ ArchiveState(p, disk[cp]) /\ \A f \in paths : disk[f] # None
  BY DEF cleanup_archive_product, exists, CleanupInv, ContentSound, ArchiveCp
<1>2. /\ readable_archive(disk[cp]) /\ disk[cp].product = p /\ replica[p] # None
      /\ disk[cp].dependencies = dependencies(replica[p]) /\ acked[p] # None
  BY <1>1 DEF ArchiveState, CleanupInv, Replicas
<1>3. ASSUME NEW f \in paths
      PROVE  \E t \in Segments : f = CaptureCp(t) /\ CaptureState(t, disk[f])
  <2>1. PICK t \in deps : f = <<"capture_cp", t>> BY <1>3
  <2> QED BY <1>1, <2>1 DEF CaptureCp, CleanupInv, ContentSound
<1>4. \A f \in paths : readable_capture(disk[f]) BY <1>3 DEF CaptureState
<1> HIDE DEF paths
<1>5. CASE disk[cp].deleted # None
  <2>1. ~exists(Archive(p)) /\ ~exists(IndexOf(p))
    BY <1>1, <1>5 DEF ArchiveState, ArchiveGone, Gone, exists
  <2>2. Return("AlreadyRecorded")
    BY <1>2, <1>4, <1>5, <2>1 DEF cleanup_archive_product, ArchiveCp, Archive, IndexOf, paths
  <2> QED BY <2>2, ReturnKeeps DEF Conflicts, Orphans
<1>6. CASE disk[cp].deleted = None
  <2> DEFINE due == deadline_elapsed(disk[cp], now)
             named == {disk[f].segment : f \in paths} = disk[cp].dependencies
             recorded == capture_dependencies_deleted(disk[cp], paths)
             orphan == exists(Archive(p)) /\ ~exists(IndexOf(p))
  <2>1. CASE ~due
    <3>1. Return("NotDue")
      BY <1>2, <1>4, <1>6, <2>1 DEF cleanup_archive_product, ArchiveCp, paths
    <3> QED BY <3>1, ReturnKeeps DEF Conflicts, Orphans
  <2>2. CASE due /\ ~named
    <3>1. Return("CaptureCheckpointSetMismatch")
      BY <1>2, <1>4, <1>6, <2>2 DEF cleanup_archive_product, ArchiveCp, paths
    <3> QED BY <3>1, ReturnKeeps DEF Conflicts, Orphans
  <2>3. CASE due /\ named /\ ~recorded
    <3>1. Return("WaitingForCaptureCleanup")
      BY <1>2, <1>4, <1>6, <2>3 DEF cleanup_archive_product, ArchiveCp, paths
    <3> QED BY <3>1, ReturnKeeps DEF Conflicts, Orphans
  <2>4. CASE due /\ named /\ recorded /\ orphan
    <3>1. Return("ArchiveWithoutCoverageIndex") BY <1>2, <1>4, <1>6, <2>4
         DEF cleanup_archive_product, ArchiveCp, Archive, IndexOf, paths
    <3>2. power BY <1>2, <2>4 DEF CleanupInv, DescriptorsLast, exists
    <3> QED BY <3>1, <3>2, ReturnKeeps DEF Conflicts, Orphans
  <2>5. CASE due /\ named /\ recorded /\ ~orphan
    <3>1. identified(Archive(p), IndexOf(p),
                     /\ disk[IndexOf(p)].product = disk[cp].product
                     /\ dependencies(disk[IndexOf(p)]) = disk[cp].dependencies)
      BY <1>2, <2>5 DEF identified, exists, CleanupInv, ContentSound, SealedIndex
    <3>2. StartUnlink("archive", Archive(p), IndexOf(p), cp)
      BY <1>2, <1>4, <1>6, <2>5, <3>1
         DEF cleanup_archive_product, ArchiveCp, Archive, IndexOf, paths
    <3>3. SourcesGone(p)
      <4> SUFFICES ASSUME NEW s \in Segments, SegmentKey(s) \in dependencies(replica[p])
                   PROVE  CaptureGone(s)
        BY DEF SourcesGone
      <4>1. PICK f \in paths : disk[f].segment = SegmentKey(s) BY <1>2, <2>5
      <4>2. PICK t \in Segments : f = CaptureCp(t) /\ CaptureState(t, disk[f]) BY <1>3
      <4>3. t = s BY <4>1, <4>2, Keys DEF CaptureState
      <4>4. disk[f].deleted # None BY <2>5, <4>1 DEF capture_dependencies_deleted
      <4> QED BY <4>2, <4>3, <4>4 DEF CaptureState
    <3> QED BY <1>1, <2>5, <3>2, <3>3, UnlinkStarts
  <2> QED BY <2>1, <2>2, <2>3, <2>4, <2>5
<1> QED BY <1>5, <1>6

LEMMA CreateKeeps ==
  ASSUME CleanupInv,
         \/ \E s \in Segments, ps \in SUBSET Products : create_capture_checkpoint(s, ps)
         \/ \E p \in Products : create_archive_checkpoint(p)
  PROVE  CleanupInv'
<1>1. ASSUME NEW s \in Segments, NEW ps \in SUBSET Products, create_capture_checkpoint(s, ps)
      PROVE  CleanupInv'
  <2> DEFINE x == CaptureCoverageState(SegmentKey(s), ps)
  <2>1. CaptureState(s, x)
    BY <1>1, ProofIsSound DEF create_capture_checkpoint, exists, IndexOf
  <2>2. CASE exists(CaptureCp(s))
    <3>1. Return("ok") \/ Return("AlreadyExists")
      BY <1>1, <2>2 DEF create_capture_checkpoint, CaptureCp
    <3> QED BY <3>1, ReturnKeeps DEF Conflicts, Orphans
  <2>3. CASE ~exists(CaptureCp(s))
    <3>1. Persist(CaptureCp(s), x, "ok") /\ disk[CaptureCp(s)] = None
      BY <1>1, <2>3 DEF create_capture_checkpoint, CaptureCp, exists
    <3> QED BY <2>1, <3>1, PersistKeeps
  <2> QED BY <2>2, <2>3
<1>2. ASSUME NEW p \in Products, create_archive_checkpoint(p)
      PROVE  CleanupInv'
  <2> DEFINE x == ArchiveRetentionState(p)
  <2>1. ArchiveState(p, x)
    BY <1>2, RetentionIsSound DEF create_archive_checkpoint, exists, IndexOf
  <2>2. CASE exists(ArchiveCp(p))
    <3>1. Return("ok") \/ Return("AlreadyExists")
      BY <1>2, <2>2 DEF create_archive_checkpoint, ArchiveCp
    <3> QED BY <3>1, ReturnKeeps DEF Conflicts, Orphans
  <2>3. CASE ~exists(ArchiveCp(p))
    <3>1. Persist(ArchiveCp(p), x, "ok") /\ disk[ArchiveCp(p)] = None
      BY <1>2, <2>3 DEF create_archive_checkpoint, ArchiveCp, exists
    <3> QED BY <2>1, <3>1, PersistKeeps
  <2> QED BY <2>2, <2>3
<1> QED BY <1>1, <1>2

(* An index is published for a product the server does not hold yet. *)
LEMMA PublishKeeps ==
  ASSUME CleanupInv, NEW index \in offers,
         publish_archive_coverage_index(index.product, index)
  PROVE  CleanupInv'
<1> DEFINE p == index.product
<1>1. /\ job = Idle /\ validate(index) /\ disk[IndexOf(p)] = None
      /\ dependencies(index) \subseteq {disk[<<"manifest", s>>] : s \in Segments}
      /\ disk' = [disk EXCEPT ![Archive(p)] = "archive"]
      /\ synced' = [synced EXCEPT ![Archive(p)] = "archive"]
      /\ job' = [kind |-> "persist", file |-> IndexOf(p), next |-> index,
                 step |-> "rename", answer |-> "ok"]
      /\ answer' = "none"
      /\ UNCHANGED <<now, grace, active, verified, acked, replica, offers, power>>
  BY DEF publish_archive_coverage_index, world, exists, IndexOf, Archive
<1>2. index \in Indexes /\ p \in Products
  BY RetentionAssumption DEF CleanupInv, WorldTypes
<1>3. ASSUME NEW key \in dependencies(index)
      PROVE  \E s \in Segments : key = SegmentKey(s) /\ sealed(s) /\ disk[Manifest(s)] = key
  <2>1. PICK s \in Segments : key = disk[Manifest(s)] BY <1>1, <1>3 DEF Manifest
  <2>2. key # None BY <1>2, <1>3, RetentionAssumption
  <2> QED BY <2>1, <2>2 DEF CleanupInv, ContentSound
<1>4. SealedIndex(p, index) BY <1>1, <1>2, <1>3 DEF SealedIndex
<1>5. acked[p] = None
  <2> SUFFICES ASSUME acked[p] # None PROVE FALSE OBVIOUS
  <2>1. SourcesGone(p) /\ replica[p] \in Indexes /\ replica[p].product = p
    BY <1>1, <1>2 DEF CleanupInv, ArchivesHeld, Present, Replicas, SealedIndex
  <2>2. PICK key \in dependencies(index) : key \in dependencies(replica[p])
    BY <1>2, <2>1, RetentionAssumption
  <2>3. PICK s \in Segments : key = SegmentKey(s) /\ disk[Manifest(s)] = key BY <1>3
  <2> QED BY <2>1, <2>2, <2>3, Keys DEF SourcesGone, CaptureGone, Gone
<1>6. /\ Archive(p) \in Files /\ DOMAIN disk = Files /\ DOMAIN synced = Files
      /\ \A s \in Segments : /\ Wal(s) \in Files \ {Archive(p)}
                             /\ Manifest(s) \in Files \ {Archive(p)}
                             /\ CaptureCp(s) \in Files \ {Archive(p)}
      /\ \A q \in Products : /\ IndexOf(q) \in Files \ {Archive(p)}
                             /\ ArchiveCp(q) \in Files \ {Archive(p)}
                             /\ q # p => Archive(q) \in Files \ {Archive(p)}
  BY <1>2, Paths DEF CleanupInv, WorldTypes
<1>7. /\ DOMAIN disk' = Files /\ DOMAIN synced' = Files
      /\ disk'[Archive(p)] = "archive" /\ synced'[Archive(p)] = "archive"
      /\ \A f \in Files \ {Archive(p)} : disk'[f] = disk[f] /\ synced'[f] = synced[f]
  BY <1>1, <1>6
<1>8. "archive" # None BY RetentionAssumption
<1> HIDE DEF p
<1>9. Later BY <1>1, <1>5, <1>6, <1>7 DEF Later, sealed, Gone, CleanupInv, WorldTypes
<1>10. ASSUME NEW c, ContentSound(c), NEW d,
              \A f \in Files \ {Archive(p)} : d[f] = c[f]
       PROVE  ContentSound(d)'
  <2>1. ContentSound(d) BY <1>6, <1>10 DEF ContentSound
  <2> QED BY <1>1, <1>9, <2>1, ContentLater DEF CleanupInv
<1>11. ContentSound(disk)' /\ ContentSound(synced)'
  <2>1. PICK d : d = disk' OBVIOUS
  <2>2. PICK e : e = synced' OBVIOUS
  <2>3. ContentSound(d)' /\ ContentSound(e)' BY <1>7, <1>10, <2>1, <2>2 DEF CleanupInv
  <2> QED BY <2>1, <2>2, <2>3
<1>12. WorldTypes' /\ Replicas'
  <2>1. WorldTypes' BY <1>1, <1>7 DEF CleanupInv, WorldTypes
  <2>2. Replicas' BY <1>1, <1>9, SealedIndexLater DEF CleanupInv, Replicas
  <2> QED BY <2>1, <2>2
<1>13. CapturesHeld'
  <2>1. \A s \in Segments : Released(s, now) => Released(s, now)' BY <1>1 DEF Released
  <2> QED BY <1>1, <1>6, <1>7, <2>1 DEF CleanupInv, CapturesHeld, sealed, Present
<1>14. ArchivesHeld'
  <2>1. \A q \in Products : acked[q] # None /\ SourcesGone(q) => SourcesGone(q)'
    BY <1>9, SourcesGoneLater DEF CleanupInv
  <2> QED BY <1>1, <1>2, <1>5, <1>6, <1>7, <1>8, <2>1 DEF CleanupInv, ArchivesHeld, Present
<1>15. RecordsHeld' /\ DescriptorsLast'
  BY <1>1, <1>5, <1>6, <1>7 DEF CleanupInv, RecordsHeld, DescriptorsLast
<1>16. JobSound'
  <2>1. /\ job'.kind = "persist" /\ job'.file = IndexOf(p) /\ job'.next = index
        /\ job'.step = "rename" /\ job'.answer = "ok"
        /\ DOMAIN job' = {"kind", "file", "next", "step", "answer"}
    BY <1>1 DEF p
  <2>2. SealedIndex(p, job.next)' BY <1>1, <1>4, <2>1 DEF SealedIndex, sealed
  <2>3. PersistsIndex(p)'
    BY <1>1, <1>2, <1>5, <1>6, <1>7, <1>8, <2>1, <2>2 DEF PersistsIndex, Present, p
  <2> QED BY <1>2, <2>1, <2>3 DEF JobSound, Persists, p
<1>17. CleanupResumes' BY <1>1 DEF CleanupResumes, Conflicts, Orphans
<1> QED BY <1>11, <1>12, <1>13, <1>14, <1>15, <1>16, <1>17 DEF CleanupInv

(* An unlinked file of a segment the server has. *)
LEMMA CaptureUnlinked ==
  ASSUME FilesInv, NEW s \in Segments, NEW f \in {Wal(s), Manifest(s)},
         Released(s, now), f = Manifest(s) => disk[Wal(s)] = None,
         disk' = [disk EXCEPT ![f] = None], UNCHANGED <<now, world, synced>>
  PROVE  FilesInv' /\ Later /\ disk'[f] = None
<1>1. UNCHANGED <<grace, active, verified, acked, replica, offers, power>> BY DEF world
<1>2. f \in Files /\ DOMAIN disk = Files BY Paths DEF FilesInv, WorldTypes
<1>3. /\ DOMAIN disk' = Files /\ disk'[f] = None
      /\ \A g \in Files \ {f} : disk'[g] = disk[g]
  BY <1>2
<1>4. /\ \A t \in Segments : /\ CaptureCp(t) \in Files \ {f}
                             /\ t # s => Wal(t) \in Files \ {f} /\ Manifest(t) \in Files \ {f}
      /\ f = Wal(s) => Manifest(s) \in Files \ {f}
      /\ f = Manifest(s) => Wal(s) \in Files \ {f}
      /\ \A p \in Products : /\ Archive(p) \in Files \ {f} /\ IndexOf(p) \in Files \ {f}
                             /\ ArchiveCp(p) \in Files \ {f}
  BY Paths
<1>5. Later
  <2>1. \A t \in Segments : /\ Gone(Wal(t)) => Gone(Wal(t))'
                            /\ Gone(Manifest(t)) => Gone(Manifest(t))'
    BY <1>3, Paths DEF Gone
  <2> QED BY <1>1, <1>3, <1>4, <2>1 DEF Later, sealed, Gone, FilesInv, WorldTypes
<1>6. ContentSound(disk)' /\ ContentSound(synced)'
  <2>1. PICK d : d = disk' OBVIOUS
  <2>2. ContentSound(d)
    <3>1. \A g \in Files : d[g] = disk[g] \/ d[g] = None BY <1>3, <2>1
    <3>2. ContentSound(disk) BY DEF FilesInv
    <3> QED BY <3>1, <3>2, Paths DEF ContentSound
  <2>3. ContentSound(d)' /\ ContentSound(synced)'
    BY <1>1, <1>5, <2>2, ContentLater DEF FilesInv
  <2> QED BY <2>1, <2>3
<1>7. WorldTypes' /\ Replicas'
  <2>1. WorldTypes' BY <1>1, <1>3 DEF FilesInv, WorldTypes
  <2>2. Replicas' BY <1>1, <1>5, SealedIndexLater DEF FilesInv, Replicas
  <2> QED BY <2>1, <2>2
<1>8. CapturesHeld'
  <2>1. \A t \in Segments : Released(t, now) => Released(t, now)' BY <1>1 DEF Released
  <2> QED BY <1>1, <1>3, <1>4, <2>1 DEF FilesInv, CapturesHeld, sealed, Present
<1>9. ArchivesHeld'
  <2>1. \A q \in Products : acked[q] # None /\ SourcesGone(q) => SourcesGone(q)'
    BY <1>5, SourcesGoneLater DEF FilesInv
  <2> QED BY <1>1, <1>3, <1>4, <2>1 DEF FilesInv, ArchivesHeld, Present
<1>10. RecordsHeld' BY <1>3, <1>4 DEF FilesInv, RecordsHeld
<1>11. DescriptorsLast' BY <1>1, <1>3, <1>4 DEF FilesInv, DescriptorsLast
<1> QED BY <1>3, <1>5, <1>6, <1>7, <1>8, <1>9, <1>10, <1>11 DEF FilesInv

(* An unlinked file of a product whose captures are gone. *)
LEMMA ArchiveUnlinked ==
  ASSUME FilesInv, NEW p \in Products, NEW f \in {Archive(p), IndexOf(p)},
         acked[p] # None, now >= acked[p] + ArchivePeriod, SourcesGone(p),
         f = IndexOf(p) => disk[Archive(p)] = None,
         disk' = [disk EXCEPT ![f] = None], UNCHANGED <<now, world, synced>>
  PROVE  FilesInv' /\ Later /\ disk'[f] = None
<1>1. UNCHANGED <<grace, active, verified, acked, replica, offers, power>> BY DEF world
<1>2. f \in Files /\ DOMAIN disk = Files BY Paths DEF FilesInv, WorldTypes
<1>3. /\ DOMAIN disk' = Files /\ disk'[f] = None
      /\ \A g \in Files \ {f} : disk'[g] = disk[g]
  BY <1>2
<1>4. /\ \A s \in Segments : /\ Wal(s) \in Files \ {f} /\ Manifest(s) \in Files \ {f}
                             /\ CaptureCp(s) \in Files \ {f}
      /\ f = Archive(p) => IndexOf(p) \in Files \ {f}
      /\ f = IndexOf(p) => Archive(p) \in Files \ {f}
      /\ \A q \in Products : /\ ArchiveCp(q) \in Files \ {f}
                             /\ q # p => Archive(q) \in Files \ {f} /\ IndexOf(q) \in Files \ {f}
  BY Paths
<1>5. Later
  <2>1. \A q \in Products : /\ Gone(Archive(q)) => Gone(Archive(q))'
                            /\ Gone(IndexOf(q)) => Gone(IndexOf(q))'
    BY <1>3, Paths DEF Gone
  <2> QED BY <1>1, <1>3, <1>4, <2>1 DEF Later, sealed, Gone, FilesInv, WorldTypes
<1>6. ContentSound(disk)' /\ ContentSound(synced)'
  <2>1. PICK d : d = disk' OBVIOUS
  <2>2. ContentSound(d)
    <3>1. \A g \in Files : d[g] = disk[g] \/ d[g] = None BY <1>3, <2>1
    <3>2. ContentSound(disk) BY DEF FilesInv
    <3> QED BY <3>1, <3>2, Paths DEF ContentSound
  <2>3. ContentSound(d)' /\ ContentSound(synced)'
    BY <1>1, <1>5, <2>2, ContentLater DEF FilesInv
  <2> QED BY <2>1, <2>3
<1>7. WorldTypes' /\ Replicas'
  <2>1. WorldTypes' BY <1>1, <1>3 DEF FilesInv, WorldTypes
  <2>2. Replicas' BY <1>1, <1>5, SealedIndexLater DEF FilesInv, Replicas
  <2> QED BY <2>1, <2>2
<1>8. CapturesHeld'
  <2>1. \A t \in Segments : Released(t, now) => Released(t, now)' BY <1>1 DEF Released
  <2> QED BY <1>1, <1>3, <1>4, <2>1 DEF FilesInv, CapturesHeld, sealed, Present
<1>9. ArchivesHeld'
  <2>1. \A q \in Products : acked[q] # None /\ SourcesGone(q) => SourcesGone(q)'
    BY <1>5, SourcesGoneLater DEF FilesInv
  <2> QED BY <1>1, <1>3, <1>4, <2>1 DEF FilesInv, ArchivesHeld, Present
<1>10. RecordsHeld' BY <1>3, <1>4 DEF FilesInv, RecordsHeld
<1>11. DescriptorsLast' BY <1>1, <1>3, <1>4 DEF FilesInv, DescriptorsLast
<1> QED BY <1>3, <1>5, <1>6, <1>7, <1>8, <1>9, <1>10, <1>11 DEF FilesInv

(* The next step of a call in progress. *)
LEMMA JobMoves ==
  ASSUME NEW step, job' = [job EXCEPT !.step = step]
  PROVE  /\ Persists \/ (\E d, e : Unlinks(d, e)) =>
              /\ DOMAIN job' = DOMAIN job /\ job'.step = step /\ job'.kind = job.kind
         /\ Persists => /\ job'.file = job.file /\ job'.next = job.next
                        /\ job'.answer = job.answer
         /\ (\E d, e : Unlinks(d, e)) =>
              /\ job'.data = job.data /\ job'.descriptor = job.descriptor
              /\ job'.checkpoint = job.checkpoint /\ job'.state = job.state
              /\ job'.at = job.at
  BY DEF Persists, Unlinks

(* A cleanup takes its next step on files it has not touched since. *)
LEMMA CaptureGoesOn ==
  ASSUME CleanupInv, Later, NEW s \in Segments, job.kind = "capture", CleansCapture(s),
         NEW step \in {"descriptor", "sync", "mark"}, job' = [job EXCEPT !.step = step],
         disk'[CaptureCp(s)] = disk[CaptureCp(s)],
         disk'[Wal(s)] = None,
         step \in {"sync", "mark"} => disk'[Manifest(s)] = None,
         step = "mark" => Gone(Wal(s))' /\ Gone(Manifest(s))',
         answer' = answer, power' = power
  PROVE  JobSound' /\ CleanupResumes'
<1>1. Unlinks(Wal(s), Manifest(s)) /\ CaptureState(s, job.state) BY DEF CleansCapture
<1>2. /\ DOMAIN job' = DOMAIN job /\ job'.step = step /\ job'.kind = "capture"
      /\ job'.data = job.data /\ job'.descriptor = job.descriptor
      /\ job'.checkpoint = job.checkpoint /\ job'.state = job.state /\ job'.at = job.at
  BY <1>1, JobMoves
<1>3. CaptureState(s, job.state)'
  <2>1. PICK x : x = job.state OBVIOUS
  <2>2. CaptureState(s, x)' BY <1>1, <2>1, CaptureStateLater DEF CleanupInv
  <2> QED BY <1>2, <2>1, <2>2 DEF CaptureState, Released
<1>4. Unlinks(Wal(s), Manifest(s))'
  <2>1. job'.at <= now' BY <1>1, <1>2 DEF Unlinks, Later, CleanupInv, WorldTypes
  <2> QED BY <1>1, <1>2, <2>1 DEF Unlinks, deadline_elapsed, CleansCapture
<1>5. CleansCapture(s)' BY <1>2, <1>3, <1>4 DEF CleansCapture
<1>6. CleanupResumes' BY DEF CleanupInv, CleanupResumes
<1> QED BY <1>2, <1>5, <1>6 DEF JobSound

LEMMA ArchiveGoesOn ==
  ASSUME CleanupInv, Later, NEW p \in Products, job.kind = "archive", CleansArchive(p),
         NEW step \in {"descriptor", "sync", "mark"}, job' = [job EXCEPT !.step = step],
         disk'[ArchiveCp(p)] = disk[ArchiveCp(p)],
         disk'[Archive(p)] = None,
         step \in {"sync", "mark"} => disk'[IndexOf(p)] = None,
         step = "mark" => Gone(Archive(p))' /\ Gone(IndexOf(p))',
         answer' = answer, power' = power
  PROVE  JobSound' /\ CleanupResumes'
<1>1. Unlinks(Archive(p), IndexOf(p)) /\ ArchiveState(p, job.state) BY DEF CleansArchive
<1>2. /\ DOMAIN job' = DOMAIN job /\ job'.step = step /\ job'.kind = "archive"
      /\ job'.data = job.data /\ job'.descriptor = job.descriptor
      /\ job'.checkpoint = job.checkpoint /\ job'.state = job.state /\ job'.at = job.at
  BY <1>1, JobMoves
<1>3. ArchiveState(p, job.state)'
  <2>1. PICK x : x = job.state OBVIOUS
  <2>2. ArchiveState(p, x)' BY <1>1, <2>1, ArchiveStateLater DEF CleanupInv
  <2> QED BY <1>2, <2>1, <2>2 DEF ArchiveState
<1>4. Unlinks(Archive(p), IndexOf(p))'
  <2>1. job'.at <= now' BY <1>1, <1>2 DEF Unlinks, Later, CleanupInv, WorldTypes
  <2> QED BY <1>1, <1>2, <2>1 DEF Unlinks, deadline_elapsed, CleansArchive
<1>5. SourcesGone(p)'
  BY <1>1, SourcesGoneLater DEF CleansArchive, CleanupInv, ArchiveState, Replicas
<1>6. CleansArchive(p)' BY <1>2, <1>3, <1>4, <1>5 DEF CleansArchive
<1>7. CleanupResumes' BY DEF CleanupInv, CleanupResumes
<1> QED BY <1>2, <1>6, <1>7 DEF JobSound

(* The two unlinks. *)
LEMMA RemovalsKeep ==
  ASSUME CleanupInv, RemoveData \/ RemoveDescriptor
  PROVE  CleanupInv'
<1> USE DEF world
<1>1. job # Idle /\ job.kind \in {"capture", "archive"}
  BY DEF RemoveData, RemoveDescriptor, Idle
<1>2. ASSUME NEW s \in Segments, job.kind = "capture", CleansCapture(s)
      PROVE  CleanupInv'
  <2>1. /\ job.data = Wal(s) /\ job.descriptor = Manifest(s)
        /\ job.step # "data" => disk[Wal(s)] = None
        /\ Wal(s) # Manifest(s) /\ CaptureCp(s) \notin {Wal(s), Manifest(s)}
        /\ Wal(s) \in Files /\ Manifest(s) \in Files /\ CaptureCp(s) \in Files
        /\ DOMAIN disk = Files
    BY <1>2, Paths DEF CleansCapture, Unlinks, CleanupInv, WorldTypes
  <2>2. Released(s, now)
    <3>1. /\ Released(s, job.state.delete_after) /\ job.state.delete_after \in Nat
          /\ job.state.delete_after <= now /\ now \in Nat
      BY <1>2 DEF CleansCapture, CaptureState, CaptureStates, Unlinks,
                  deadline_elapsed, CleanupInv, WorldTypes
    <3> SUFFICES ASSUME NEW c \in cursors(SegmentKey(s))
                 PROVE  \E p \in Products :
                          /\ replica[p] # None
                          /\ \E span \in replica[p].inputs :
                               span.segment = SegmentKey(s) /\ c \in cursors(span)
                          /\ \E g \in GracePeriods : acked[p] + g <= now
      BY DEF Released
    <3>2. PICK p \in Products :
            /\ replica[p] # None
            /\ \E span \in replica[p].inputs :
                 span.segment = SegmentKey(s) /\ c \in cursors(span)
            /\ \E g \in GracePeriods : acked[p] + g <= job.state.delete_after
      BY <3>1 DEF Released
    <3>3. PICK g \in GracePeriods : acked[p] + g <= job.state.delete_after BY <3>2
    <3>4. acked[p] \in Nat /\ g \in Nat
      BY <3>2, RetentionAssumption DEF CleanupInv, WorldTypes, Replicas
    <3>5. acked[p] + g <= now BY <3>1, <3>3, <3>4
    <3> QED BY <3>2, <3>5
  <2>3. CASE RemoveData
    <3>1. /\ disk' = [disk EXCEPT ![Wal(s)] = None]
          /\ job' = [job EXCEPT !.step = "descriptor"]
          /\ UNCHANGED <<now, world, synced, answer>>
      BY <2>1, <2>3 DEF RemoveData
    <3>2. FilesInv' /\ Later /\ disk'[Wal(s)] = None
      BY <2>1, <2>2, <3>1, CaptureUnlinked DEF CleanupInv, FilesInv
    <3>3. JobSound' /\ CleanupResumes' BY <1>2, <2>1, <3>1, <3>2, CaptureGoesOn
    <3> QED BY <3>2, <3>3 DEF CleanupInv, FilesInv
  <2>4. CASE RemoveDescriptor
    <3>1. /\ disk' = [disk EXCEPT ![Manifest(s)] = None] /\ job.step = "descriptor"
          /\ job' = [job EXCEPT !.step = "sync"]
          /\ UNCHANGED <<now, world, synced, answer>>
      BY <2>1, <2>4 DEF RemoveDescriptor
    <3>2. FilesInv' /\ Later /\ disk'[Manifest(s)] = None
      BY <2>1, <2>2, <3>1, CaptureUnlinked DEF CleanupInv, FilesInv
    <3>3. disk'[Wal(s)] = None /\ disk'[CaptureCp(s)] = disk[CaptureCp(s)] BY <2>1, <3>1
    <3>4. JobSound' /\ CleanupResumes' BY <1>2, <3>1, <3>2, <3>3, CaptureGoesOn
    <3> QED BY <3>2, <3>4 DEF CleanupInv, FilesInv
  <2> QED BY <2>3, <2>4
<1>3. ASSUME NEW p \in Products, job.kind = "archive", CleansArchive(p)
      PROVE  CleanupInv'
  <2>1. /\ job.data = Archive(p) /\ job.descriptor = IndexOf(p)
        /\ job.step # "data" => disk[Archive(p)] = None
        /\ Archive(p) # IndexOf(p) /\ ArchiveCp(p) \notin {Archive(p), IndexOf(p)}
        /\ Archive(p) \in Files /\ IndexOf(p) \in Files /\ ArchiveCp(p) \in Files
        /\ DOMAIN disk = Files
    BY <1>3, Paths DEF CleansArchive, Unlinks, CleanupInv, WorldTypes
  <2>2. acked[p] # None /\ SourcesGone(p) /\ now >= acked[p] + ArchivePeriod
    <3>1. /\ replica[p] # None /\ job.state.delete_after = acked[p] + ArchivePeriod
          /\ job.state.delete_after \in Nat
          /\ job.state.delete_after <= job.at /\ job.at \in Nat /\ job.at <= now /\ now \in Nat
      BY <1>3 DEF CleansArchive, ArchiveState, ArchiveStates, Unlinks,
                  deadline_elapsed, CleanupInv, WorldTypes
    <3> QED BY <1>3, <3>1 DEF CleansArchive, CleanupInv, Replicas
  <2>3. CASE RemoveData
    <3>1. /\ disk' = [disk EXCEPT ![Archive(p)] = None]
          /\ job' = [job EXCEPT !.step = "descriptor"]
          /\ UNCHANGED <<now, world, synced, answer>>
      BY <2>1, <2>3 DEF RemoveData
    <3>2. FilesInv' /\ Later /\ disk'[Archive(p)] = None
      BY <2>1, <2>2, <3>1, ArchiveUnlinked DEF CleanupInv, FilesInv
    <3>3. JobSound' /\ CleanupResumes' BY <1>3, <2>1, <3>1, <3>2, ArchiveGoesOn
    <3> QED BY <3>2, <3>3 DEF CleanupInv, FilesInv
  <2>4. CASE RemoveDescriptor
    <3>1. /\ disk' = [disk EXCEPT ![IndexOf(p)] = None] /\ job.step = "descriptor"
          /\ job' = [job EXCEPT !.step = "sync"]
          /\ UNCHANGED <<now, world, synced, answer>>
      BY <2>1, <2>4 DEF RemoveDescriptor
    <3>2. FilesInv' /\ Later /\ disk'[IndexOf(p)] = None
      BY <2>1, <2>2, <3>1, ArchiveUnlinked DEF CleanupInv, FilesInv
    <3>3. disk'[Archive(p)] = None /\ disk'[ArchiveCp(p)] = disk[ArchiveCp(p)]
      BY <2>1, <3>1
    <3>4. JobSound' /\ CleanupResumes' BY <1>3, <3>1, <3>2, <3>3, ArchiveGoesOn
    <3> QED BY <3>2, <3>4 DEF CleanupInv, FilesInv
  <2> QED BY <2>3, <2>4
<1> QED BY <1>1, <1>2, <1>3 DEF CleanupInv, JobSound

(* The barrier on the directory of what was unlinked. *)
LEMMA SyncArtifactsKeeps ==
  ASSUME CleanupInv, SyncArtifacts
  PROVE  CleanupInv'
<1>1. /\ job.kind \in {"capture", "archive"} /\ job.step = "sync"
      /\ synced' = [g \in Files |-> IF g \in Directory(job.data) THEN disk[g] ELSE synced[g]]
      /\ job' = [job EXCEPT !.step = "mark"]
      /\ disk' = disk /\ answer' = answer /\ power' = power /\ UNCHANGED <<now, world>>
  BY DEF SyncArtifacts, sync_directory, world
<1>2. FilesInv' /\ Later
  <2>1. DOMAIN disk' = Files /\ DOMAIN synced' = Files
    BY <1>1 DEF CleanupInv, WorldTypes
  <2>2. \A f \in Files : /\ disk'[f] \in {disk[f], synced[f]}
                         /\ synced'[f] \in {disk[f], synced[f]}
    BY <1>1
  <2> QED BY <1>1, <2>1, <2>2, Settling DEF CleanupInv, FilesInv
<1>3. ASSUME NEW s \in Segments, job.kind = "capture", CleansCapture(s)
      PROVE  JobSound' /\ CleanupResumes'
  <2>1. /\ job.data = Wal(s) /\ disk[Wal(s)] = None /\ disk[Manifest(s)] = None
    BY <1>1, <1>3 DEF CleansCapture, Unlinks
  <2>2. Wal(s) \in Directory(Wal(s)) /\ Manifest(s) \in Directory(Wal(s))
    BY DEF Directory, Wal, Manifest
  <2>3. Gone(Wal(s))' /\ Gone(Manifest(s))' BY <1>1, <2>1, <2>2, Paths DEF Gone
  <2> QED BY <1>1, <1>2, <1>3, <2>1, <2>3, CaptureGoesOn
<1>4. ASSUME NEW p \in Products, job.kind = "archive", CleansArchive(p)
      PROVE  JobSound' /\ CleanupResumes'
  <2>1. /\ job.data = Archive(p) /\ disk[Archive(p)] = None /\ disk[IndexOf(p)] = None
    BY <1>1, <1>4 DEF CleansArchive, Unlinks
  <2>2. Archive(p) \in Directory(Archive(p)) /\ IndexOf(p) \in Directory(Archive(p))
    BY DEF Directory, Archive, IndexOf
  <2>3. Gone(Archive(p))' /\ Gone(IndexOf(p))' BY <1>1, <2>1, <2>2, Paths DEF Gone
  <2> QED BY <1>1, <1>2, <1>4, <2>1, <2>3, ArchiveGoesOn
<1>5. JobSound' /\ CleanupResumes' BY <1>1, <1>3, <1>4 DEF CleanupInv, JobSound, Idle
<1> QED BY <1>2, <1>5 DEF CleanupInv, FilesInv

(* The deletion goes on record with the time the call was given. *)
LEMMA MarkKeeps ==
  ASSUME CleanupInv, mark_deleted
  PROVE  CleanupInv'
<1> DEFINE x == [job.state EXCEPT !.deleted = job.at]
<1>1. /\ job.kind \in {"capture", "archive"} /\ job.step = "mark"
      /\ deadline_elapsed(job.state, job.at)
      /\ Persist(job.checkpoint, x, "Deleted")
  BY DEF mark_deleted
<1>2. ASSUME NEW s \in Segments, CleansCapture(s)
      PROVE  CleanupInv'
  <2>1. /\ job.checkpoint = CaptureCp(s) /\ job.state = disk[CaptureCp(s)]
        /\ job.state \in CaptureStates /\ CaptureState(s, job.state)
        /\ CaptureGone(s) /\ job.at \in Nat /\ job.at >= job.state.delete_after
        /\ job.state.deleted = None
    BY <1>1, <1>2 DEF CleansCapture, Unlinks, CaptureState, CaptureGone, deadline_elapsed
  <2>2. /\ x \in CaptureStates /\ x.segment = job.state.segment
        /\ x.products = job.state.products /\ x.replicated = job.state.replicated
        /\ x.delete_after = job.state.delete_after /\ x.deleted = job.at
    BY <2>1 DEF CaptureStates
  <2> HIDE DEF x
  <2>3. CaptureState(s, x) BY <2>1, <2>2 DEF CaptureState, readable_capture
  <2>4. x # None BY <2>2, RetentionAssumption
  <2>5. Extends(disk[CaptureCp(s)], x) BY <2>1, <2>2, <2>4 DEF Extends
  <2> QED BY <1>1, <2>1, <2>3, <2>5, PersistKeeps
<1>3. ASSUME NEW p \in Products, CleansArchive(p)
      PROVE  CleanupInv'
  <2>1. /\ job.checkpoint = ArchiveCp(p) /\ job.state = disk[ArchiveCp(p)]
        /\ job.state \in ArchiveStates /\ ArchiveState(p, job.state)
        /\ ArchiveGone(p) /\ job.at \in Nat /\ job.at >= job.state.delete_after
        /\ job.state.deleted = None
    BY <1>1, <1>3 DEF CleansArchive, Unlinks, ArchiveState, ArchiveGone, deadline_elapsed
  <2>2. /\ x \in ArchiveStates /\ x.product = job.state.product
        /\ x.dependencies = job.state.dependencies /\ x.verified = job.state.verified
        /\ x.acked = job.state.acked
        /\ x.delete_after = job.state.delete_after /\ x.deleted = job.at
    BY <2>1 DEF ArchiveStates
  <2> HIDE DEF x
  <2>3. ArchiveState(p, x) BY <2>1, <2>2 DEF ArchiveState, readable_archive
  <2>4. x # None BY <2>2, RetentionAssumption
  <2>5. Extends(disk[ArchiveCp(p)], x) BY <2>1, <2>2, <2>4 DEF Extends
  <2> QED BY <1>1, <2>1, <2>3, <2>5, PersistKeeps
<1> QED BY <1>1, <1>2, <1>3 DEF CleanupInv, JobSound, Idle

(* The rest of a call is forgotten, or done: its files stay. *)
LEMMA JobEnds ==
  ASSUME CleanupInv, FilesInv', job' = Idle, answer' = "none"
  PROVE  CleanupInv'
<1>1. JobSound' /\ CleanupResumes' BY DEF JobSound, CleanupResumes, Conflicts, Orphans
<1> QED BY <1>1 DEF CleanupInv, FilesInv

(* The barrier after a rename. *)
LEMMA SyncRenameKeeps ==
  ASSUME CleanupInv, SyncRename
  PROVE  CleanupInv'
<1>1. /\ job.kind = "persist" /\ job' = Idle /\ disk' = disk /\ UNCHANGED <<now, world>>
      /\ synced' = [g \in Files |-> IF g \in Directory(job.file) THEN disk[g] ELSE synced[g]]
      /\ Answer(job.answer)
  BY DEF SyncRename, sync_directory
<1>2. answer' = "none" BY <1>1 DEF CleanupInv, JobSound, Persists, Idle, Answer, Benign
<1>3. FilesInv'
  <2>1. DOMAIN disk' = Files /\ DOMAIN synced' = Files
    BY <1>1 DEF CleanupInv, WorldTypes
  <2>2. \A f \in Files : /\ disk'[f] \in {disk[f], synced[f]}
                         /\ synced'[f] \in {disk[f], synced[f]}
    BY <1>1
  <2> QED BY <1>1, <2>1, <2>2, Settling DEF CleanupInv, FilesInv
<1> QED BY <1>1, <1>2, <1>3, JobEnds

(* A failing system call, the end of the process, a loss of power. *)
LEMMA FaultsKeep ==
  ASSUME CleanupInv, Interrupted \/ PowerLoss
  PROVE  CleanupInv'
<1>1. job' = Idle /\ answer' = "none" /\ UNCHANGED <<now, world>>
  BY DEF Interrupted, PowerLoss
<1>2. DOMAIN disk = Files /\ DOMAIN synced = Files BY DEF CleanupInv, WorldTypes
<1>3. CASE Interrupted
  <2>1. disk' = disk /\ synced' = synced BY <1>3 DEF Interrupted
  <2>2. FilesInv' BY <1>1, <1>2, <2>1, Settling DEF CleanupInv, FilesInv
  <2> QED BY <1>1, <2>2, JobEnds
<1>4. CASE PowerLoss
  <2>1. PICK lost \in SUBSET {f \in Files : disk[f] # synced[f]} :
          /\ disk' = [f \in Files |-> IF f \in lost THEN synced[f] ELSE disk[f]]
          /\ synced' = disk'
    BY <1>4 DEF PowerLoss
  <2>2. power BY <1>4 DEF PowerLoss
  <2>3. /\ DOMAIN disk' = Files /\ DOMAIN synced' = Files
        /\ \A f \in Files : /\ disk'[f] \in {disk[f], synced[f]}
                            /\ synced'[f] \in {disk[f], synced[f]}
    BY <2>1
  <2>4. FilesInv' BY <1>1, <2>1, <2>2, <2>3, Settling DEF CleanupInv, FilesInv
  <2> QED BY <1>1, <2>4, JobEnds
<1> QED BY <1>3, <1>4

(* A checkpoint is replaced by its successor. *)
LEMMA CheckpointRenamed ==
  ASSUME CleanupInv, Rename, NEW f, job.file = f, job.next # None,
         disk[f] # None => Extends(disk[f], job.next),
         \/ \E s \in Segments : f = CaptureCp(s) /\ CaptureState(s, job.next)
         \/ \E p \in Products : f = ArchiveCp(p) /\ ArchiveState(p, job.next)
  PROVE  FilesInv' /\ Later /\ disk'[f] = job.next
<1>1. /\ disk' = [disk EXCEPT ![f] = job.next] /\ synced' = synced
      /\ UNCHANGED <<now, grace, active, verified, acked, replica, offers, power>>
  BY DEF Rename, world
<1>2. f \in Files /\ DOMAIN disk = Files BY Paths DEF CleanupInv, WorldTypes
<1>3. /\ DOMAIN disk' = Files /\ disk'[f] = job.next
      /\ \A g \in Files \ {f} : disk'[g] = disk[g]
  BY <1>1, <1>2
<1>4. /\ \A s \in Segments : Wal(s) \in Files \ {f} /\ Manifest(s) \in Files \ {f}
      /\ \A p \in Products : Archive(p) \in Files \ {f} /\ IndexOf(p) \in Files \ {f}
  BY Paths
<1>5. Later BY <1>1, <1>3, <1>4 DEF Later, sealed, Gone, CleanupInv, WorldTypes
<1>6. ContentSound(disk)' /\ ContentSound(synced)'
  <2>1. PICK d : d = disk' OBVIOUS
  <2>2. ContentSound(d)
    <3>1. ContentSound(disk) BY DEF CleanupInv
    <3>2. ASSUME NEW s \in Segments
          PROVE  d[CaptureCp(s)] # None => CaptureState(s, d[CaptureCp(s)])
      <4>1. CASE CaptureCp(s) = f
        <5>1. f # ArchiveCp(s) /\ \A t \in Segments : f = CaptureCp(t) => t = s
          BY <3>2, <4>1, Paths DEF CaptureCp, ArchiveCp
        <5>2. CaptureState(s, job.next) BY <4>1, <5>1 DEF CaptureCp, ArchiveCp
        <5> QED BY <1>3, <2>1, <4>1, <5>2
      <4>2. CASE CaptureCp(s) # f
        BY <1>3, <2>1, <3>1, <3>2, <4>2, Paths DEF ContentSound
      <4> QED BY <4>1, <4>2
    <3>3. ASSUME NEW p \in Products
          PROVE  d[ArchiveCp(p)] # None => ArchiveState(p, d[ArchiveCp(p)])
      <4>1. CASE ArchiveCp(p) = f
        <5>1. \A q \in Products : f = ArchiveCp(q) => q = p
          BY <3>3, <4>1, Paths DEF ArchiveCp
        <5>2. ArchiveState(p, job.next) BY <4>1, <5>1 DEF CaptureCp, ArchiveCp
        <5> QED BY <1>3, <2>1, <4>1, <5>2
      <4>2. CASE ArchiveCp(p) # f
        BY <1>3, <2>1, <3>1, <3>3, <4>2, Paths DEF ContentSound
      <4> QED BY <4>1, <4>2
    <3>4. /\ \A s \in Segments : d[Manifest(s)] = disk[Manifest(s)]
          /\ \A p \in Products : d[IndexOf(p)] = disk[IndexOf(p)]
      BY <1>3, <1>4, <2>1
    <3> QED BY <3>1, <3>2, <3>3, <3>4 DEF ContentSound
  <2>3. ContentSound(d)' /\ ContentSound(synced)'
    BY <1>1, <1>5, <2>2, ContentLater DEF CleanupInv
  <2> QED BY <2>1, <2>3
<1>7. WorldTypes' /\ Replicas'
  <2>1. WorldTypes' BY <1>1, <1>3 DEF CleanupInv, WorldTypes
  <2>2. Replicas' BY <1>1, <1>5, SealedIndexLater DEF CleanupInv, Replicas
  <2> QED BY <2>1, <2>2
<1>8. CapturesHeld'
  <2>1. \A t \in Segments : Released(t, now) => Released(t, now)' BY <1>1 DEF Released
  <2> QED BY <1>1, <1>3, <1>4, <2>1 DEF CleanupInv, CapturesHeld, sealed, Present
<1>9. ArchivesHeld'
  <2>1. \A q \in Products : acked[q] # None /\ SourcesGone(q) => SourcesGone(q)'
    BY <1>5, SourcesGoneLater DEF CleanupInv
  <2> QED BY <1>1, <1>3, <1>4, <2>1 DEF CleanupInv, ArchivesHeld, Present
<1>10. RecordsHeld'
  <2>1. ASSUME NEW g \in Files, synced[g] # None => Extends(synced[g], disk[g])
        PROVE  synced'[g] # None => Extends(synced'[g], disk'[g])
    <3>1. CASE g # f BY <1>1, <1>3, <2>1, <3>1
    <3>2. CASE g = f BY <1>1, <1>3, <2>1, <3>2 DEF Extends
    <3> QED BY <3>1, <3>2
  <2> QED BY <2>1, Paths DEF CleanupInv, RecordsHeld
<1>11. DescriptorsLast' BY <1>1, <1>3, <1>4 DEF CleanupInv, DescriptorsLast
<1> QED BY <1>3, <1>5, <1>6, <1>7, <1>8, <1>9, <1>10, <1>11 DEF FilesInv

(* An index appears after its archive. *)
LEMMA IndexRenamed ==
  ASSUME CleanupInv, Rename, NEW p \in Products, PersistsIndex(p)
  PROVE  FilesInv' /\ Later /\ disk'[IndexOf(p)] = job.next
<1> DEFINE f == IndexOf(p)
<1>1. /\ disk' = [disk EXCEPT ![f] = job.next] /\ synced' = synced
      /\ UNCHANGED <<now, grace, active, verified, acked, replica, offers, power>>
      /\ acked[p] = None /\ Present(Archive(p)) /\ SealedIndex(p, job.next)
      /\ disk[f] = None /\ job.next # None
  BY RetentionAssumption DEF Rename, world, PersistsIndex, SealedIndex
<1>2. f \in Files /\ DOMAIN disk = Files BY Paths DEF CleanupInv, WorldTypes
<1>3. /\ DOMAIN disk' = Files /\ disk'[f] = job.next
      /\ \A g \in Files \ {f} : disk'[g] = disk[g]
  BY <1>1, <1>2
<1>4. /\ \A s \in Segments : /\ Wal(s) \in Files \ {f} /\ Manifest(s) \in Files \ {f}
                             /\ CaptureCp(s) \in Files \ {f}
      /\ \A q \in Products : /\ Archive(q) \in Files \ {f} /\ ArchiveCp(q) \in Files \ {f}
                             /\ q # p => IndexOf(q) \in Files \ {f}
  BY Paths
<1>5. synced[f] = None BY <1>1 DEF CleanupInv, ArchivesHeld
<1>6. Later BY <1>1, <1>3, <1>4 DEF Later, sealed, Gone, CleanupInv, WorldTypes
<1>7. ContentSound(disk)' /\ ContentSound(synced)'
  <2>1. PICK d : d = disk' OBVIOUS
  <2>2. ContentSound(d) BY <1>1, <1>3, <1>4, <2>1 DEF CleanupInv, ContentSound
  <2>3. ContentSound(d)' /\ ContentSound(synced)'
    BY <1>1, <1>6, <2>2, ContentLater DEF CleanupInv
  <2> QED BY <2>1, <2>3
<1> HIDE DEF f
<1>8. WorldTypes' /\ Replicas'
  <2>1. WorldTypes' BY <1>1, <1>3 DEF CleanupInv, WorldTypes
  <2>2. Replicas' BY <1>1, <1>6, SealedIndexLater DEF CleanupInv, Replicas
  <2> QED BY <2>1, <2>2
<1>9. CapturesHeld'
  <2>1. \A t \in Segments : Released(t, now) => Released(t, now)' BY <1>1 DEF Released
  <2> QED BY <1>1, <1>3, <1>4, <2>1 DEF CleanupInv, CapturesHeld, sealed, Present
<1>10. ArchivesHeld'
  <2>1. \A q \in Products : acked[q] # None /\ SourcesGone(q) => SourcesGone(q)'
    BY <1>6, SourcesGoneLater DEF CleanupInv
  <2>2. f = IndexOf(p) BY DEF f
  <2>3. \A q \in Products : Present(Archive(q)) => Present(Archive(q))'
    BY <1>1, <1>3, <1>4 DEF Present
  <2>4. ASSUME NEW q \in Products, q # p
        PROVE  disk'[IndexOf(q)] = disk[IndexOf(q)] /\ synced'[IndexOf(q)] = synced[IndexOf(q)]
    BY <1>1, <1>3, <1>4, <2>4
  <2> QED BY <1>1, <1>3, <1>5, <2>1, <2>2, <2>3, <2>4 DEF CleanupInv, ArchivesHeld, Present
<1>11. RecordsHeld' BY <1>1, <1>3, <1>4 DEF CleanupInv, RecordsHeld
<1>12. DescriptorsLast' BY <1>1, <1>3, <1>4 DEF CleanupInv, DescriptorsLast, f
<1> QED BY <1>3, <1>6, <1>7, <1>8, <1>9, <1>10, <1>11, <1>12 DEF FilesInv, f

(* The rename of persist_atomic. *)
LEMMA RenameKeeps ==
  ASSUME CleanupInv, Rename
  PROVE  CleanupInv'
<1>1. /\ job.kind = "persist" /\ job.step = "rename" /\ Persists
      /\ job' = [job EXCEPT !.step = "sync"] /\ answer' = answer /\ power' = power
      /\ UNCHANGED <<acked, synced>>
  BY DEF Rename, CleanupInv, JobSound, Idle, world
<1>2. /\ DOMAIN job' = DOMAIN job /\ job'.step = "sync" /\ job'.kind = "persist"
      /\ job'.file = job.file /\ job'.next = job.next /\ job'.answer = job.answer
  BY <1>1, JobMoves
<1>3. CleanupResumes' BY <1>1 DEF CleanupInv, CleanupResumes
<1>4. ASSUME NEW p \in Products, PersistsIndex(p)
      PROVE  FilesInv' /\ JobSound'
  <2>1. FilesInv' /\ Later /\ disk'[IndexOf(p)] = job.next BY <1>4, IndexRenamed
  <2>2. SealedIndex(p, job.next)'
    <3>1. PICK x : x = job.next OBVIOUS
    <3>2. SealedIndex(p, x)' BY <1>4, <2>1, <3>1, SealedIndexLater DEF PersistsIndex
    <3> QED BY <1>2, <3>1, <3>2 DEF SealedIndex
  <2>3. Present(Archive(p))'
    <3>1. disk'[Archive(p)] = disk[Archive(p)]
      <4>1. Archive(p) # IndexOf(p) /\ Archive(p) \in Files BY Paths
      <4> QED BY <1>4, <4>1 DEF Rename, PersistsIndex, CleanupInv, WorldTypes
    <3> QED BY <1>1, <1>4, <3>1 DEF PersistsIndex, Present
  <2>4. PersistsIndex(p)' BY <1>1, <1>2, <1>4, <2>1, <2>2, <2>3 DEF PersistsIndex
  <2> QED BY <1>1, <1>2, <2>1, <2>4 DEF JobSound, Persists
<1>5. ASSUME NEW s \in Segments, PersistsCapture(s)
      PROVE  FilesInv' /\ JobSound'
  <2>1. job.next # None BY <1>5, RetentionAssumption DEF PersistsCapture, CaptureState
  <2>2. FilesInv' /\ Later /\ disk'[CaptureCp(s)] = job.next
    BY <1>5, <2>1, CheckpointRenamed DEF PersistsCapture
  <2>3. CaptureState(s, job.next)'
    <3>1. PICK x : x = job.next OBVIOUS
    <3>2. CaptureState(s, x)'
      BY <1>5, <2>2, <3>1, CaptureStateLater DEF PersistsCapture, CleanupInv
    <3> QED BY <1>2, <3>1, <3>2 DEF CaptureState, Released
  <2>4. PersistsCapture(s)' BY <1>2, <1>5, <2>1, <2>2, <2>3 DEF PersistsCapture, Extends
  <2> QED BY <1>1, <1>2, <2>2, <2>4 DEF JobSound, Persists
<1>6. ASSUME NEW p \in Products, PersistsArchive(p)
      PROVE  FilesInv' /\ JobSound'
  <2>1. job.next # None BY <1>6, RetentionAssumption DEF PersistsArchive, ArchiveState
  <2>2. FilesInv' /\ Later /\ disk'[ArchiveCp(p)] = job.next
    BY <1>6, <2>1, CheckpointRenamed DEF PersistsArchive
  <2>3. ArchiveState(p, job.next)'
    <3>1. PICK x : x = job.next OBVIOUS
    <3>2. ArchiveState(p, x)'
      BY <1>6, <2>2, <3>1, ArchiveStateLater DEF PersistsArchive, CleanupInv
    <3> QED BY <1>2, <3>1, <3>2 DEF ArchiveState
  <2>4. PersistsArchive(p)' BY <1>2, <1>6, <2>1, <2>2, <2>3 DEF PersistsArchive, Extends
  <2> QED BY <1>1, <1>2, <2>2, <2>4 DEF JobSound, Persists
<1> QED BY <1>1, <1>3, <1>4, <1>5, <1>6 DEF CleanupInv, FilesInv, Persists

(* Every step keeps the invariant. *)
LEMMA CleanupStepKeeps ==
  ASSUME CleanupInv, [Next]_vars
  PROVE  CleanupInv'
<1>1. CASE UNCHANGED vars
  <2>1. UNCHANGED <<now, grace, active, verified, acked, replica, offers, power, disk, synced>>
    BY <1>1 DEF vars
  <2>2. FilesInv' /\ Later BY <2>1, SameFiles DEF CleanupInv, FilesInv, WorldTypes
  <2>3. job' = job /\ answer' = answer /\ power' = power BY <1>1 DEF vars
  <2>4. CleanupResumes' BY <2>3 DEF CleanupInv, CleanupResumes
  <2>5. JobSound'
    BY ZenonT(30), <2>1, <2>3 DEF CleanupInv, JobSound, Persists, PersistsIndex, PersistsCapture,
       PersistsArchive, CleansCapture, CleansArchive, Unlinks, SealedIndex, CaptureState,
       ArchiveState, sealed, Released, SourcesGone, CaptureGone, ArchiveGone, Gone, Present,
       Idle
  <2> QED BY <2>2, <2>4, <2>5 DEF CleanupInv, FilesInv
<1>2. CASE Surroundings BY <1>2, SurroundingsKeep
<1>3. CASE Call
  BY <1>3, PublishKeeps, CreateKeeps, CaptureCallsKeep, ArchiveCallsKeep DEF Call, Cleanup
<1>4. CASE Maintain
  BY <1>4, RemovalsKeep, SyncArtifactsKeeps, MarkKeeps, RenameKeeps, SyncRenameKeeps DEF Maintain
<1>5. CASE Interrupted \/ PowerLoss BY <1>5, FaultsKeep
<1> QED BY <1>1, <1>2, <1>3, <1>4, <1>5 DEF Next

LEMMA CleanupBegins ==
  ASSUME Init
  PROVE  CleanupInv
<1>1. /\ now = 0 /\ grace = latest(GracePeriods) /\ active = latest(Segments)
      /\ verified = [p \in Products |-> None] /\ acked = [p \in Products |-> None]
      /\ replica = [p \in Products |-> None] /\ offers = Indexes
      /\ job = Idle /\ answer = "none" /\ synced = disk
  BY DEF Init
<1>2. active \in Nat /\ active # Closed /\ grace \in GracePeriods
  BY <1>1, RetentionAssumption
<1>3. /\ DOMAIN disk = Files
      /\ \A s \in Segments :
           /\ disk[Wal(s)] = IF s < active THEN "wal" ELSE None
           /\ disk[Manifest(s)] = IF s < active THEN SegmentKey(s) ELSE None
           /\ disk[CaptureCp(s)] = None
      /\ \A p \in Products :
           /\ disk[Archive(p)] = None /\ disk[IndexOf(p)] = None
           /\ disk[ArchiveCp(p)] = None
  BY ZenonT(30), Paths DEF Init
<1>4. \A s \in Segments : sealed(s) <=> s < active BY <1>2 DEF sealed
<1>5. /\ "wal" # None /\ \A s \in Segments : SegmentKey(s) # None
  BY Keys, RetentionAssumption
<1>6. WorldTypes BY <1>1, <1>2, <1>3 DEF WorldTypes
<1>7. Replicas BY <1>1 DEF Replicas
<1>8. ContentSound(disk) /\ ContentSound(synced) BY <1>1, <1>3, <1>4 DEF ContentSound
<1>9. CapturesHeld BY <1>1, <1>3, <1>4, <1>5 DEF CapturesHeld, Present
<1>10. ArchivesHeld /\ RecordsHeld /\ DescriptorsLast
  BY <1>1, <1>3, <1>5 DEF ArchivesHeld, RecordsHeld, DescriptorsLast
<1>11. JobSound /\ CleanupResumes
  BY <1>1 DEF JobSound, CleanupResumes, Conflicts, Orphans
<1> QED BY <1>6, <1>7, <1>8, <1>9, <1>10, <1>11 DEF CleanupInv

(* What is missing has been released; what is released stays released. *)
LEMMA DeletionsCovered ==
  ASSUME CleanupInv
  PROVE  NothingUncoveredDeleted /\ ArchiveOutlivesCapture
<1>1. NothingUncoveredDeleted
  <2> SUFFICES ASSUME NEW s \in Segments, sealed(s),
                      ~(exists(<<"wal", s>>) /\ exists(<<"manifest", s>>)),
                      NEW c \in cursors(SegmentKey(s))
               PROVE  \E p \in Products :
                        /\ replica[p] # None
                        /\ \E span \in replica[p].inputs :
                             span.segment = SegmentKey(s) /\ c \in cursors(span)
                        /\ \E g \in GracePeriods : now >= acked[p] + g
    BY DEF NothingUncoveredDeleted
  <2>1. Released(s, now) BY DEF CleanupInv, CapturesHeld, Present, Wal, Manifest, exists
  <2>2. PICK p \in Products :
          /\ replica[p] # None
          /\ \E span \in replica[p].inputs :
               span.segment = SegmentKey(s) /\ c \in cursors(span)
          /\ \E g \in GracePeriods : acked[p] + g <= now
    BY <2>1 DEF Released
  <2>3. PICK g \in GracePeriods : acked[p] + g <= now BY <2>2
  <2>4. acked[p] \in Nat /\ g \in Nat /\ now \in Nat
    BY <2>2, RetentionAssumption DEF CleanupInv, WorldTypes, Replicas
  <2>5. now >= acked[p] + g BY <2>3, <2>4
  <2> QED BY <2>2, <2>5
<1>2. ArchiveOutlivesCapture
  <2> SUFFICES ASSUME NEW p \in Products, replica[p] # None, ~exists(<<"archive", p>>)
               PROVE  /\ now >= acked[p] + ArchivePeriod
                      /\ \A key \in dependencies(replica[p]) : \A kind \in {"wal", "manifest"} :
                           /\ disk[<<kind, key.ordinal>>] = None
                           /\ synced[<<kind, key.ordinal>>] = None
    BY DEF ArchiveOutlivesCapture
  <2>1. acked[p] # None /\ now >= acked[p] + ArchivePeriod /\ SourcesGone(p)
    BY DEF CleanupInv, Replicas, ArchivesHeld, Present, Archive, exists
  <2>2. ASSUME NEW key \in dependencies(replica[p])
        PROVE  \E s \in Segments : key.ordinal = s /\ CaptureGone(s)
    <3>1. PICK s \in Segments : key = SegmentKey(s)
      BY <2>1, <2>2 DEF CleanupInv, Replicas, SealedIndex
    <3> QED BY <2>1, <2>2, <3>1, Keys DEF SourcesGone
  <2> QED BY <2>1, <2>2 DEF CaptureGone, Gone, Wal, Manifest
<1> QED BY <1>1, <1>2

(* What a barrier, or a loss of power, leaves of a checkpoint. *)
LEMMA CheckpointSynced ==
  ASSUME CleanupInv, [Next]_vars, NEW f \in Files, f[1] \in {"capture_cp", "archive_cp"}
  PROVE  synced'[f] = synced[f] \/ synced'[f] = disk[f]
<1> USE DEF world
<1>1. CASE UNCHANGED vars BY <1>1 DEF vars
<1>2. CASE Surroundings
  <2>1. CASE SealWindow
    <3>1. /\ f # <<"wal", active>> /\ f # <<"manifest", active>> OBVIOUS
    <3>2. synced' = [synced EXCEPT ![<<"wal", active>>] = "wal",
                                   ![<<"manifest", active>>] = SegmentKey(active)]
      BY <2>1 DEF SealWindow
    <3> QED BY <3>1, <3>2 DEF CleanupInv, WorldTypes
  <2>2. CASE Tick \/ ChangePolicy \/ \E p \in Products : Replicate(p)
    BY <2>2 DEF Tick, ChangePolicy, Replicate
  <2> QED BY <1>2, <2>1, <2>2 DEF Surroundings
<1>3. CASE Call
  <2>1. ASSUME NEW index \in offers, publish_archive_coverage_index(index.product, index)
        PROVE  synced'[f] = synced[f]
    <3>1. /\ f # <<"archive", index.product>>
          /\ synced' = [synced EXCEPT ![<<"archive", index.product>>] = "archive"]
      BY <2>1 DEF publish_archive_coverage_index
    <3> QED BY <3>1 DEF CleanupInv, WorldTypes
  <2>2. ASSUME NEW s \in Segments, NEW ps \in SUBSET Products, create_capture_checkpoint(s, ps)
        PROVE  synced' = synced
    BY <2>2 DEF create_capture_checkpoint, Return, Persist
  <2>3. ASSUME NEW p \in Products, create_archive_checkpoint(p)
        PROVE  synced' = synced
    BY <2>3 DEF create_archive_checkpoint, Return, Persist
  <2>4. ASSUME NEW s \in Segments, NEW protection, cleanup_capture_segment(s, protection)
        PROVE  synced' = synced
    BY <2>4 DEF cleanup_capture_segment, Return, StartUnlink
  <2>5. ASSUME NEW p \in Products, NEW paths, cleanup_archive_product(p, paths)
        PROVE  synced' = synced
    BY <2>5 DEF cleanup_archive_product, Return, StartUnlink
  <2> QED BY <1>3, <2>1, <2>2, <2>3, <2>4, <2>5 DEF Call, Cleanup
<1>4. CASE Maintain
  BY <1>4 DEF Maintain, RemoveData, RemoveDescriptor, SyncArtifacts, mark_deleted, Persist,
              Rename, SyncRename, sync_directory
<1>5. CASE Interrupted BY <1>5 DEF Interrupted
<1>6. CASE PowerLoss
  <2>1. PICK lost \in SUBSET {g \in Files : disk[g] # synced[g]} :
          synced' = [g \in Files |-> IF g \in lost THEN synced[g] ELSE disk[g]]
    BY <1>6 DEF PowerLoss
  <2> QED BY <2>1
<1> QED BY <1>1, <1>2, <1>3, <1>4, <1>5, <1>6 DEF Next

(* What was durable of a deadline or a deletion stays durable. *)
LEMMA RecordsStandStep ==
  ASSUME CleanupInv, [Next]_vars, NEW f \in Files, f[1] \in {"capture_cp", "archive_cp"},
         synced[f] # None
  PROVE  /\ synced'[f] # None /\ synced'[f].delete_after = synced[f].delete_after
         /\ synced[f].deleted # None => synced'[f].deleted = synced[f].deleted
<1>1. Extends(synced[f], disk[f])
  <2>1. CASE f[1] = "capture_cp"
    <3>1. f[2] \in Segments /\ f = CaptureCp(f[2]) BY <2>1 DEF Files, CaptureCp
    <3> QED BY <3>1 DEF CleanupInv, RecordsHeld
  <2>2. CASE f[1] = "archive_cp"
    <3>1. f[2] \in Products /\ f = ArchiveCp(f[2]) BY <2>2 DEF Files, ArchiveCp
    <3> QED BY <3>1 DEF CleanupInv, RecordsHeld
  <2> QED BY <2>1, <2>2
<1> QED BY <1>1, CheckpointSynced DEF Extends

(* Nothing is deleted too early: whatever the crashes, failing calls and
   losses of power, the indexes that are offered and the policies that
   come into force, a capture file is only missing when the server has had
   all of its samples for a grace period, a local archive only when its
   captures are durably gone, and no durable deadline or deletion changes. *)
THEOREM DeletionsAreSafe == Spec => DeletionSafe
<1>1. Init => CleanupInv BY CleanupBegins
<1>2. CleanupInv /\ [Next]_vars => CleanupInv' BY CleanupStepKeeps
<1>3. CleanupInv => NothingUncoveredDeleted /\ ArchiveOutlivesCapture
  BY DeletionsCovered
<1>4. CleanupInv /\ [Next]_vars =>
        [\A f \in Files : f[1] \in {"capture_cp", "archive_cp"} /\ synced[f] # None =>
           /\ synced'[f] # None /\ synced'[f].delete_after = synced[f].delete_after
           /\ synced[f].deleted # None => synced'[f].deleted = synced[f].deleted]_vars
  BY RecordsStandStep
<1> QED BY <1>1, <1>2, <1>3, <1>4, PTL DEF Spec, DeletionSafe, RecordsStand

(* A cleanup that was cut anywhere is taken up by the next call: a call
   never reports a conflict with the records of an earlier one, and
   without a loss of power never half of an artefact either. *)
THEOREM CleanupsResume == Spec => []CleanupResumes
<1>1. Init => CleanupInv BY CleanupBegins
<1>2. CleanupInv /\ [Next]_vars => CleanupInv' BY CleanupStepKeeps
<1>3. CleanupInv => CleanupResumes BY DEF CleanupInv
<1> QED BY <1>1, <1>2, <1>3, PTL DEF Spec

------------------------
(* The one-to-one checkpoint of a segment (RetentionCheckpoint). *)

Times == Nat \cup {Never}

States ==
    [validated : Nat, archive : Archives \cup {Never}, verified : Times, acked : Times,
     capture_after : Times, archive_after : Times, capture_deleted : Times, archive_deleted : Times]

(* A state the store may hold or publish at a time: readable, and its
   deletion of the capture lies in the past, so that the deletion of the
   archive cannot come before it. *)
Sound(s, at) ==
    /\ s \in States
    /\ readable(s)
    /\ s.capture_deleted # Never => s.capture_deleted <= at

(* The inductive invariant: all four copies of the checkpoint are sound. *)
AllSound ==
    /\ clock \in Nat
    /\ \A s \in {memory, stored, durable, writing} \ {Never} : Sound(s, clock)

------------------------
(* Time passing keeps a state sound. *)
LEMMA SoundLater ==
    ASSUME NEW s, NEW at \in Nat, NEW later \in Nat, Sound(s, at), at <= later
    PROVE  Sound(s, later)
  BY CheckpointAssumption DEF Sound, States, Times

(* The state a new store begins with. *)
LEMMA NewStateSound ==
    ASSUME NEW at \in Nat
    PROVE  Sound(NewState(at), at)
<1>1. NewState(at) \in States BY DEF NewState, States, Times
<1>2. readable(NewState(at)) BY CheckpointAssumption DEF NewState, readable, not_before
<1> QED BY <1>1, <1>2 DEF Sound, NewState

(* What an update publishes from a sound state is sound. *)
LEMMA UpdateSound ==
    ASSUME clock \in Nat, memory # Never, Sound(memory, clock), update
    PROVE  Sound(writing', clock)
<1> DEFINE s == memory
<1>0. /\ s \in States /\ readable(s)
      /\ s.capture_deleted # Never => s.capture_deleted <= clock
  BY DEF Sound
<1> USE CheckpointAssumption
<1>1. ASSUME NEW a \in Archives, bind_archive(memory, a)
      PROVE  Sound(writing', clock)
  <2>1. writing' = [s EXCEPT !.archive = a] /\ s.archive = Never /\ a # NoArchive /\ a \in Archives
    BY <1>1 DEF bind_archive
  <2>2. writing' \in States BY <1>0, <2>1 DEF States
  <2>3. /\ writing'.archive = a /\ writing'.verified = Never /\ writing'.acked = Never
        /\ writing'.capture_after = Never /\ writing'.archive_after = Never
        /\ writing'.capture_deleted = Never /\ writing'.archive_deleted = Never
    BY <1>0, <2>1 DEF States, readable
  <2> QED BY <2>1, <2>2, <2>3 DEF Sound, readable, not_before
<1>2. ASSUME NEW a \in Archives, mark_archive_verified(memory, a, clock)
      PROVE  Sound(writing', clock)
  <2>1. /\ writing' = [s EXCEPT !.verified = clock] /\ s.archive = a
        /\ clock >= s.validated /\ s.verified = Never
    BY <1>2 DEF mark_archive_verified
  <2>2. writing' \in States BY <1>0, <2>1 DEF States, Times
  <2>3. /\ writing'.archive = s.archive /\ writing'.verified = clock /\ writing'.acked = Never
        /\ writing'.validated = s.validated
        /\ writing'.capture_after = Never /\ writing'.archive_after = Never
        /\ writing'.capture_deleted = Never /\ writing'.archive_deleted = Never
        /\ s.archive # NoArchive /\ s.validated \in Nat
    BY <1>0, <2>1 DEF States, readable, not_before
  <2> QED BY <2>1, <2>2, <2>3 DEF Sound, readable, not_before
<1>3. ASSUME NEW a \in Archives, mark_replication_acknowledged(memory, a, clock)
      PROVE  Sound(writing', clock)
  <2>1. /\ writing' = [s EXCEPT !.acked = clock, !.capture_after = clock + CaptureGrace,
                                !.archive_after = clock + ArchiveRetention]
        /\ s.archive = a /\ s.verified # Never /\ clock >= s.verified /\ s.acked = Never
    BY <1>3 DEF mark_replication_acknowledged
  <2>2. writing' \in States
    <3>1. clock \in Times /\ clock + CaptureGrace \in Times /\ clock + ArchiveRetention \in Times
      BY DEF Times
    <3> QED BY <1>0, <2>1, <3>1 DEF States
  <2>3. /\ writing'.archive = s.archive /\ writing'.verified = s.verified /\ writing'.acked = clock
        /\ writing'.validated = s.validated
        /\ writing'.capture_after = clock + CaptureGrace
        /\ writing'.archive_after = clock + ArchiveRetention
        /\ writing'.capture_deleted = Never /\ writing'.archive_deleted = Never
        /\ s.archive # NoArchive /\ not_before(s.verified, s.validated)
    BY <1>0, <2>1 DEF States, readable
  <2>4. s.archive # Never BY <1>0, <2>1 DEF readable
  <2> QED BY <2>1, <2>2, <2>3, <2>4 DEF Sound, readable, not_before
<1>4. ASSUME mark_capture_deleted(memory, clock)
      PROVE  Sound(writing', clock)
  <2>1. /\ writing' = [s EXCEPT !.capture_deleted = clock]
        /\ s.capture_deleted = Never /\ s.capture_after # Never /\ clock >= s.capture_after
    BY <1>4 DEF mark_capture_deleted, capture_deletable
  <2>2. writing' \in States BY <1>0, <2>1 DEF States, Times
  <2>3. s.acked # Never /\ s.archive # Never /\ s.archive_deleted = Never
    BY <1>0, <2>1 DEF readable, not_before
  <2>4. /\ writing'.archive = s.archive /\ writing'.verified = s.verified
        /\ writing'.acked = s.acked /\ writing'.validated = s.validated
        /\ writing'.capture_after = s.capture_after
        /\ writing'.archive_after = s.archive_after
        /\ writing'.capture_deleted = clock /\ writing'.archive_deleted = Never
    BY <1>0, <2>1, <2>3 DEF States
  <2> QED BY <1>0, <2>1, <2>2, <2>3, <2>4 DEF Sound, readable, not_before
<1>5. ASSUME mark_archive_deleted(memory, clock)
      PROVE  Sound(writing', clock)
  <2>1. /\ writing' = [s EXCEPT !.archive_deleted = clock]
        /\ s.capture_deleted # Never /\ s.archive_after # Never /\ clock >= s.archive_after
    BY <1>5 DEF mark_archive_deleted, archive_deletable
  <2>2. writing' \in States BY <1>0, <2>1 DEF States, Times
  <2>3. s.acked # Never /\ s.archive # Never BY <1>0, <2>1 DEF readable
  <2>4. /\ writing'.archive = s.archive /\ writing'.verified = s.verified
        /\ writing'.acked = s.acked /\ writing'.validated = s.validated
        /\ writing'.capture_after = s.capture_after
        /\ writing'.archive_after = s.archive_after
        /\ writing'.capture_deleted = s.capture_deleted /\ writing'.archive_deleted = clock
    BY <1>0, <2>1 DEF States
  <2>5. s.capture_deleted \in Nat /\ clock >= s.capture_deleted
    BY <1>0, <2>1 DEF States, Times
  <2> QED BY <1>0, <2>1, <2>2, <2>3, <2>4, <2>5 DEF Sound, readable, not_before
<1> QED BY <1>1, <1>2, <1>3, <1>4, <1>5 DEF update

(* Every step of the store, a failed update and a loss of power keep it. *)
LEMMA StepKeepsSound ==
    ASSUME AllSound, [CheckpointNext]_checkpoint_vars
    PROVE  AllSound'
<1> USE DEF AllSound
<1>1. CASE ClockTicks
  <2>1. clock' = clock + 1 /\ UNCHANGED <<memory, stored, durable, writing>>
    BY <1>1 DEF ClockTicks
  <2> QED BY <2>1, SoundLater
<1>2. CASE create BY <1>2, NewStateSound DEF create
<1>3. CASE open BY <1>3 DEF open
<1>4. CASE update
  <2>1. Sound(writing', clock) BY <1>4, UpdateSound DEF update
  <2> QED BY <1>4, <2>1 DEF update
<1>5. CASE persist_rename BY <1>5 DEF persist_rename
<1>6. CASE persist_sync BY <1>6 DEF persist_sync
<1>7. CASE UpdateFails BY <1>7 DEF UpdateFails
<1>8. CASE PowerFails BY <1>8 DEF PowerFails
<1>9. CASE UNCHANGED checkpoint_vars BY <1>9 DEF checkpoint_vars
<1> QED BY <1>1, <1>2, <1>3, <1>4, <1>5, <1>6, <1>7, <1>8, <1>9 DEF CheckpointNext

(* For every set of archives and every retention period, whatever was
   published can be read back: no order of operations, updates interrupted
   at any point and retried later included, stores a state open refuses. *)
THEOREM CheckpointStaysReadable == CheckpointSpec => []StoredIsReadable
<1>1. CheckpointInit => AllSound BY DEF CheckpointInit, AllSound
<1>2. AllSound /\ [CheckpointNext]_checkpoint_vars => AllSound' BY StepKeepsSound
<1>3. AllSound => StoredIsReadable BY DEF AllSound, Sound, StoredIsReadable
<1> QED BY <1>1, <1>2, <1>3, PTL DEF CheckpointSpec

(* The capture of one stream on disk.
   A file as the records in it, and the thread that writes it. *)
RecordType == [at : Nat, end : Nat, seals : BOOLEAN]
ManifestType == [state : {"none", "cached", "synced"}, first : Nat, end : Nat]
FileType ==
  [first : Nat, header : {"none", "cached", "synced"}, recs : Seq(RecordType), synced : Nat,
   torn : BOOLEAN, linked : BOOLEAN, manifest : ManifestType]
WriterType == [ordinal : Nat, next : Nat, batch : Seq(RecordType), then : {"scan", "ready"}]
BudgetType == [process : Nat, power : Nat, io : Nat]

(* A file whose window has ended, and one with a manifest. *)
Sealed(f) == f.recs # <<>> /\ f.recs[Len(f.recs)].seals
Published(f) == f.manifest.state # "none"
(* The end of the stream on disk. *)
EndOf(fs) == IF fs = <<>> THEN 0 ELSE next_cursor(fs[Len(fs)])

(* A row of records: each covers the next position, and only the last may
   seal the window, with or without a position of its own. *)
Row(recs, first) ==
  \A j \in 1 .. Len(recs) :
    /\ recs[j].at = first + (j - 1)
    /\ recs[j].end = recs[j].at + 1 \/ (recs[j].end = recs[j].at /\ recs[j].seals)
    /\ recs[j].seals => j = Len(recs)

(* One file: its rows, its barrier, and a manifest that describes it. *)
FileSound(f) ==
  /\ Row(f.recs, f.first) /\ f.synced <= Len(f.recs)
  /\ f.header = "none" => f.recs = <<>> /\ ~f.torn /\ ~Published(f)
  /\ f.torn => ~Sealed(f)
  /\ IF Published(f) THEN /\ Sealed(f)
                          /\ f.manifest.first = f.first /\ f.manifest.end = next_cursor(f)
     ELSE f.manifest = NoManifest

(* The last file f, while the thread works on it. *)
Told(f, w, r) == w.next = next_cursor(f) /\ r = w.next
AtLast(f, w, p, r) ==
  /\ p \in {"header", "header_sync", "directory_sync"} =>
       /\ w.next = f.first /\ f.recs = <<>> /\ ~f.torn
       /\ p # "header" => f.header # "none"
  /\ p \in {"publish", "publish_sync"} =>
       /\ Sealed(f)
       /\ p = "publish" <=> ~Published(f)
       /\ IF w.then = "scan" THEN w.next = f.first ELSE Told(f, w, r)
  /\ p \in {"ready", "writing", "written"} =>
       /\ f.header # "none"
       /\ p = "ready" => Told(f, w, r) /\ ~f.torn
       /\ p = "writing" => ~Sealed(f) /\ w.batch # <<>> /\ Row(w.batch, next_cursor(f))
       /\ p = "written" => ~f.torn /\ f.recs # <<>> /\ ~Published(f)

(* The files follow each other; each but the last is complete. *)
Chained(fs) ==
  /\ \A k \in 1 .. Len(fs) :
       /\ FileSound(fs[k])
       /\ fs[k].first = IF k = 1 THEN 0 ELSE next_cursor(fs[k - 1])
       /\ k < Len(fs) => fs[k].manifest.state = "synced"
       /\ next_cursor(fs[k]) <= EndOf(fs)
  /\ \A k, l \in 1 .. Len(fs) : k < l => next_cursor(fs[k]) <= fs[l].first
  /\ \A c \in 0 .. EndOf(fs) - 1 :
       \E k \in 1 .. Len(fs) : fs[k].first <= c /\ c < next_cursor(fs[k])

(* Where the storage thread, with writer w, about to make the call p, stands
   on the files fs, when r was the last cursor it reported. *)
Standing(fs, w, p, r) ==
  /\ p \in Steps
  /\ p = "refused" => Len(fs) = 1 /\ fs[1].header = "none"
  /\ p \in {"publish_sync", "down", "failed"} \/ \A k \in 1 .. Len(fs) : fs[k].manifest.state # "cached"
  /\ p = "create" =>
       /\ w.ordinal = Len(fs) + 1 /\ w.next = EndOf(fs)
       /\ fs # <<>> => fs[Len(fs)].manifest.state = "synced"
  /\ p = "scan" => w.ordinal \in 1 .. Len(fs) /\ w.next = fs[w.ordinal].first
  /\ p \in {"header", "header_sync", "directory_sync", "publish", "publish_sync", "ready", "writing", "written"} =>
       fs # <<>> /\ w.ordinal = Len(fs) /\ AtLast(fs[Len(fs)], w, p, r)

(* The parts of the invariant of the stream. *)
Chain == Chained(files)
Place == Standing(files, writer, pc, reported)

(* The cursor that the first k records of a file reach. *)
CursorAt(f, k) == IF k = 0 THEN f.first ELSE f.recs[k].end

(* While power may fail, nothing else does, and what it could take is what the
   thread has just written. *)
Held(fs, p, r, b) ==
  /\ r <= EndOf(fs)
  /\ b.power > 0 =>
       /\ b.process = 0 /\ b.io = 0 /\ p # "failed"
       /\ \A k \in 1 .. Len(fs) :
            /\ ~fs[k].linked => k = Len(fs) /\ p \in {"header", "header_sync", "directory_sync"}
            /\ fs[k].header # "synced" => k = Len(fs)
            /\ fs[k].header = "cached" => p = "header_sync"
            /\ fs[k].synced < Len(fs[k].recs) => k = Len(fs) /\ p \in {"writing", "written"}
            /\ fs[k].manifest.state = "cached" => p = "publish_sync"
       /\ fs # <<>> => r <= CursorAt(fs[Len(fs)], fs[Len(fs)].synced)
Barriers == Held(files, pc, reported, budget)

SegmentTypes ==
  /\ files \in Seq(FileType) /\ writer \in WriterType /\ reported \in Nat
  /\ budget \in BudgetType

(* The inductive invariant of a stream. *)
SegmentInv == SegmentTypes /\ Chain /\ Place /\ Barriers

(* One file. *)

LEMMA FileCursor ==
  ASSUME NEW f \in FileType, FileSound(f)
  PROVE  /\ next_cursor(f) \in Nat /\ f.first \in Nat /\ f.first <= next_cursor(f)
         /\ next_cursor(f) = IF f.recs = <<>> THEN f.first ELSE f.recs[Len(f.recs)].end
         /\ ~Sealed(f) => next_cursor(f) = f.first + Len(f.recs)
         /\ Len(f.recs) \in Nat /\ (f.recs = <<>> <=> Len(f.recs) = 0)
<1>1. f.recs \in Seq(RecordType) /\ f.first \in Nat BY DEF FileType
<1>2. Len(f.recs) \in Nat /\ (f.recs = <<>> <=> Len(f.recs) = 0) BY <1>1
<1>3. next_cursor(f) = IF f.recs = <<>> THEN f.first ELSE f.recs[Len(f.recs)].end
  BY DEF next_cursor, Last
<1>4. CASE f.recs = <<>> BY <1>1, <1>2, <1>3, <1>4
<1>5. CASE f.recs # <<>>
  <2>1. Len(f.recs) \in 1 .. Len(f.recs) BY <1>2, <1>5
  <2>2. f.recs[Len(f.recs)] \in RecordType BY <1>1, <2>1
  <2>3. /\ f.recs[Len(f.recs)].at = f.first + (Len(f.recs) - 1)
        /\ \/ f.recs[Len(f.recs)].end = f.recs[Len(f.recs)].at + 1
           \/ f.recs[Len(f.recs)].end = f.recs[Len(f.recs)].at /\ f.recs[Len(f.recs)].seals
    BY <2>1 DEF FileSound, Row
  <2>4. f.recs[Len(f.recs)].end \in Nat BY <2>2 DEF RecordType
  <2>5. QED BY <1>1, <1>2, <1>3, <1>5, <2>1, <2>3, <2>4 DEF Sealed
<1>6. QED BY <1>4, <1>5

LEMMA SealIsLast ==
  ASSUME NEW f \in FileType, FileSound(f)
  PROVE  /\ sealed_windows(f) = IF Sealed(f) THEN {Len(f.recs)} ELSE {}
         /\ Sealed(f) => sealed_manifest(f) = [state |-> "cached", first |-> f.first, end |-> next_cursor(f)]
<1>1. f.recs \in Seq(RecordType) /\ Len(f.recs) \in Nat /\ (f.recs = <<>> <=> Len(f.recs) = 0)
  BY FileCursor DEF FileType
<1>2. \A j \in 1 .. Len(f.recs) : f.recs[j].seals => j = Len(f.recs)
  BY DEF FileSound, Row
<1>3. sealed_windows(f) = IF Sealed(f) THEN {Len(f.recs)} ELSE {}
  BY <1>1, <1>2 DEF sealed_windows, Sealed
<1>4. ASSUME Sealed(f) PROVE Min(sealed_windows(f)) = Len(f.recs)
  <2>1. sealed_windows(f) = {Len(f.recs)} BY <1>3, <1>4
  <2>2. \A y \in {Len(f.recs)} : Len(f.recs) <= y BY <1>1
  <2>3. QED BY <2>1, <2>2 DEF Min
<1>5. ASSUME Sealed(f)
      PROVE  sealed_manifest(f) = [state |-> "cached", first |-> f.first, end |-> next_cursor(f)]
  BY <1>4, <1>5, FileCursor DEF sealed_manifest, Sealed
<1>6. QED BY <1>3, <1>5

LEMMA RowsReplay ==
  ASSUME NEW f \in FileType, FileSound(f)
  PROVE  replays(f)
<1> SUFFICES ASSUME NEW k \in 1 .. Len(f.recs)
             PROVE  f.recs[k].at = IF k = 1 THEN f.first ELSE f.recs[k - 1].end
  BY DEF replays
<1>1. Len(f.recs) \in Nat /\ f.first \in Nat BY FileCursor
<1>2. f.recs[k].at = f.first + (k - 1) BY DEF FileSound, Row
<1>3. CASE k = 1 BY <1>1, <1>2, <1>3
<1>4. CASE k # 1
  <2>1. k - 1 \in 1 .. Len(f.recs) /\ k - 1 # Len(f.recs) BY <1>1, <1>4
  <2>2. f.recs[k - 1].at = f.first + ((k - 1) - 1) /\ f.recs[k - 1].end = f.recs[k - 1].at + 1
    BY <2>1 DEF FileSound, Row
  <2>3. QED BY <1>1, <1>2, <1>4, <2>2
<1>5. QED BY <1>3, <1>4

(* What reading a sound file tells open to do. *)
LEMMA SoundVerdict ==
  ASSUME NEW f \in FileType, FileSound(f), f.first = writer.next,
         ~Sealed(f) => writer.ordinal = Len(files), writer.ordinal \in Nat, Len(files) \in Nat
  PROVE  verdict(f) = IF f.header = "none" THEN "header"
                      ELSE IF f.torn THEN "truncate"
                      ELSE IF ~Sealed(f) THEN "current"
                      ELSE IF Published(f) THEN "next" ELSE "publish"
<1>1. replays(f) BY RowsReplay
<1>2. sealed_windows(f) = IF Sealed(f) THEN {Len(f.recs)} ELSE {} BY SealIsLast
<1>3. ~inconsistent(f)
  <2>1. CASE ~Sealed(f)
    <3>1. sealed_windows(f) = {} /\ f.manifest.state = "none"
      BY <1>2, <2>1 DEF FileSound, Published
    <3>2. QED BY <1>1, <2>1, <3>1 DEF inconsistent
  <2>2. CASE Sealed(f)
    <3>1. sealed_windows(f) = {Len(f.recs)} /\ Cardinality(sealed_windows(f)) = 1
      BY <1>2, <2>2, FS_Singleton
    <3>2. sealed_manifest(f) = [state |-> "cached", first |-> f.first, end |-> next_cursor(f)]
      BY <2>2, SealIsLast
    <3>3. f.manifest.state # "none" => [f.manifest EXCEPT !.state = "cached"] = sealed_manifest(f)
      BY <3>2 DEF FileSound, Published, FileType, ManifestType
    <3>4. sealed_manifest(f).end = next_cursor(f) BY <3>2
    <3>5. ~(Cardinality(sealed_windows(f)) > 1) BY <3>1
    <3>6. sealed_windows(f) # {} BY <3>1
    <3>7. QED BY <1>1, <3>3, <3>4, <3>5, <3>6, Zenon DEF inconsistent
  <2>3. QED BY <2>1, <2>2
<1>4. f.manifest.state = "none" <=> ~Published(f) BY DEF Published
<1>5. QED BY <1>1, <1>2, <1>3, <1>4 DEF verdict

LEMMA LargestOfTwo ==
  ASSUME NEW a \in Nat, NEW b \in Nat, a <= b
  PROVE  Max({a, b}) = b
<1>1. b \in {a, b} /\ \A y \in {a, b} : b >= y OBVIOUS
<1>2. \A x \in {a, b} : (\A y \in {a, b} : x >= y) => x = b OBVIOUS
<1>3. QED BY <1>1, <1>2 DEF Max

(* Chains of files. *)
LEMMA ChainCursors ==
  ASSUME NEW fs \in Seq(FileType), Chained(fs)
  PROVE  /\ Len(fs) \in Nat /\ (fs = <<>> <=> Len(fs) = 0)
         /\ \A k \in 1 .. Len(fs) : /\ fs[k] \in FileType /\ FileSound(fs[k])
                                    /\ fs[k].first \in Nat /\ next_cursor(fs[k]) \in Nat
                                    /\ fs[k].first <= next_cursor(fs[k])
         /\ EndOf(fs) \in Nat
         /\ fs # <<>> => EndOf(fs) = next_cursor(fs[Len(fs)]) /\ Len(fs) \in 1 .. Len(fs)
<1>1. Len(fs) \in Nat /\ (fs = <<>> <=> Len(fs) = 0) OBVIOUS
<1>2. \A k \in 1 .. Len(fs) : fs[k] \in FileType /\ FileSound(fs[k]) BY DEF Chained
<1>3. \A k \in 1 .. Len(fs) : /\ fs[k].first \in Nat /\ next_cursor(fs[k]) \in Nat
                              /\ fs[k].first <= next_cursor(fs[k])
  BY <1>2, FileCursor
<1>4. fs # <<>> => Len(fs) \in 1 .. Len(fs) BY <1>1
<1>5. EndOf(fs) \in Nat /\ (fs # <<>> => EndOf(fs) = next_cursor(fs[Len(fs)]))
  BY <1>3, <1>4 DEF EndOf
<1>6. QED BY <1>1, <1>2, <1>3, <1>4, <1>5

(* Only the last of the first m files may change, in its rows and marks. *)
LEMMA Reshape ==
  ASSUME NEW fs \in Seq(FileType), Chained(fs), NEW gs \in Seq(FileType), Len(gs) <= Len(fs),
         \A k \in 1 .. Len(gs) : gs[k].first = fs[k].first /\ FileSound(gs[k]),
         \A k \in 1 .. Len(gs) - 1 : gs[k].recs = fs[k].recs /\ gs[k].manifest.state = "synced"
  PROVE  Chained(gs)
<1> DEFINE m == Len(gs)
<1> DEFINE e == next_cursor(gs[m])
<1>1. m \in Nat /\ (gs = <<>> <=> m = 0) /\ Len(fs) \in Nat /\ (fs = <<>> <=> Len(fs) = 0)
  OBVIOUS
<1>2. \A k \in 1 .. m : k \in 1 .. Len(fs) BY <1>1
<1>3. \A k \in 1 .. m - 1 : k \in 1 .. m /\ next_cursor(gs[k]) = next_cursor(fs[k])
  BY <1>1 DEF next_cursor
<1>4. \A k \in 1 .. m : /\ gs[k].first \in Nat /\ next_cursor(gs[k]) \in Nat
                        /\ gs[k].first <= next_cursor(gs[k])
  <2> SUFFICES ASSUME NEW k \in 1 .. m
               PROVE  /\ gs[k].first \in Nat /\ next_cursor(gs[k]) \in Nat
                      /\ gs[k].first <= next_cursor(gs[k])
    OBVIOUS
  <2>1. gs[k] \in FileType /\ FileSound(gs[k]) OBVIOUS
  <2>2. QED BY <2>1, FileCursor
<1>5. m > 0 => m \in 1 .. m /\ EndOf(gs) = e /\ e \in Nat BY <1>1, <1>4 DEF EndOf
<1>6. \A k \in 1 .. m : gs[k].first = IF k = 1 THEN 0 ELSE next_cursor(gs[k - 1])
  <2> SUFFICES ASSUME NEW k \in 1 .. m
               PROVE  gs[k].first = IF k = 1 THEN 0 ELSE next_cursor(gs[k - 1])
    OBVIOUS
  <2>1. fs[k].first = IF k = 1 THEN 0 ELSE next_cursor(fs[k - 1]) BY <1>2 DEF Chained
  <2>2. k # 1 => k - 1 \in 1 .. m - 1 BY <1>1
  <2>3. QED BY <1>3, <2>1, <2>2
<1>7. \A k, l \in 1 .. m : k < l => next_cursor(gs[k]) <= gs[l].first
  <2> SUFFICES ASSUME NEW k \in 1 .. m, NEW l \in 1 .. m, k < l
               PROVE  next_cursor(gs[k]) <= gs[l].first
    OBVIOUS
  <2>1. k \in 1 .. m - 1 BY <1>1
  <2>2. next_cursor(fs[k]) <= fs[l].first BY <1>2 DEF Chained
  <2>3. QED BY <1>3, <2>1, <2>2
<1>8. \A k \in 1 .. m : next_cursor(gs[k]) <= EndOf(gs)
  <2> SUFFICES ASSUME NEW k \in 1 .. m
               PROVE  next_cursor(gs[k]) <= EndOf(gs)
    OBVIOUS
  <2>1. m > 0 /\ m \in 1 .. m /\ EndOf(gs) = e BY <1>1, <1>5
  <2>2. CASE k = m BY <1>4, <2>1, <2>2
  <2>3. CASE k < m
    <3>1. next_cursor(gs[k]) <= gs[m].first BY <1>7, <2>1, <2>3
    <3>2. gs[m].first <= e BY <1>4, <2>1
    <3>3. QED BY <1>4, <2>1, <3>1, <3>2
  <2>4. QED BY <1>1, <2>2, <2>3
<1>9. \A c \in 0 .. EndOf(gs) - 1 :
         \E k \in 1 .. m : gs[k].first <= c /\ c < next_cursor(gs[k])
  <2> SUFFICES ASSUME NEW c \in 0 .. EndOf(gs) - 1
               PROVE  \E k \in 1 .. m : gs[k].first <= c /\ c < next_cursor(gs[k])
    OBVIOUS
  <2>1. m > 0 BY <1>1 DEF EndOf
  <2>2. m \in 1 .. m /\ m \in 1 .. Len(fs) /\ EndOf(gs) = e /\ e \in Nat /\ c \in Nat /\ c < e
    BY <1>2, <1>5, <2>1
  <2>3. gs[m].first \in Nat /\ gs[m].first = fs[m].first BY <1>4, <2>2
  <2>4. CASE gs[m].first <= c BY <2>2, <2>4
  <2>5. CASE c < gs[m].first
    <3>1. fs[m].first <= next_cursor(fs[m]) /\ next_cursor(fs[m]) \in Nat /\ EndOf(fs) \in Nat
      BY <2>2, ChainCursors
    <3>2. next_cursor(fs[m]) <= EndOf(fs) BY <2>2 DEF Chained
    <3>3. c \in 0 .. EndOf(fs) - 1 BY <2>2, <2>3, <2>5, <3>1, <3>2
    <3>4. PICK k \in 1 .. Len(fs) : fs[k].first <= c /\ c < next_cursor(fs[k])
      BY <3>3 DEF Chained
    <3>5. fs[k].first \in Nat BY ChainCursors
    <3>6. ~(m < k)
      <4>1. m < k => next_cursor(fs[m]) <= fs[k].first BY <2>2 DEF Chained
      <4>2. QED BY <2>2, <2>3, <2>5, <3>1, <3>4, <3>5, <4>1
    <3>7. k # m BY <2>2, <2>3, <2>5, <3>4
    <3>8. k \in 1 .. m - 1 /\ k \in 1 .. m BY <1>1, <3>6, <3>7
    <3>9. gs[k].first = fs[k].first /\ next_cursor(gs[k]) = next_cursor(fs[k])
      BY <1>3, <3>8
    <3>10. QED BY <3>4, <3>8, <3>9
  <2>6. QED BY <2>2, <2>3, <2>4, <2>5
<1>10. \A k \in 1 .. m : k < m => gs[k].manifest.state = "synced" BY <1>1
<1>11. QED BY <1>6, <1>7, <1>8, <1>9, <1>10 DEF Chained

(* A new file continues a chain of complete files. *)
LEMMA NewFileContinues ==
  ASSUME NEW fs \in Seq(FileType), Chained(fs),
         fs # <<>> => fs[Len(fs)].manifest.state = "synced",
         NEW gs, gs = Append(fs, NewFile(EndOf(fs)))
  PROVE  /\ gs \in Seq(FileType) /\ Len(gs) = Len(fs) + 1 /\ gs # <<>>
         /\ gs[Len(gs)] = NewFile(EndOf(fs)) /\ \A k \in 1 .. Len(fs) : gs[k] = fs[k]
         /\ Chained(gs) /\ EndOf(gs) = EndOf(fs)
<1> DEFINE n == EndOf(fs)
<1> DEFINE g == NewFile(n)
<1>1. n \in Nat /\ Len(fs) \in Nat BY ChainCursors
<1>2. /\ g \in FileType /\ g.first = n /\ g.recs = <<>> /\ ~g.torn /\ g.synced = 0
      /\ g.header = "none" /\ g.manifest = NoManifest /\ g.manifest.state = "none"
  BY <1>1 DEF NewFile, FileType, NoManifest, ManifestType
<1>3. FileSound(g) /\ next_cursor(g) = n
  <2>1. Row(g.recs, g.first) /\ g.synced <= Len(g.recs) BY <1>2 DEF Row
  <2>2. QED BY <1>2, <2>1 DEF FileSound, Published, next_cursor
<1> HIDE DEF g
<1>4. /\ gs \in Seq(FileType) /\ Len(gs) = Len(fs) + 1 /\ gs # <<>>
      /\ gs[Len(gs)] = g /\ \A k \in 1 .. Len(fs) : gs[k] = fs[k]
  <2>1. gs = Append(fs, g) BY DEF g, n
  <2>2. QED BY <1>1, <1>2, <2>1
<1>5. EndOf(gs) = n BY <1>3, <1>4 DEF EndOf
<1> HIDE DEF n
<1>6. \A k \in 1 .. Len(gs) : FileSound(gs[k]) BY <1>1, <1>3, <1>4 DEF Chained
<1>7. \A k \in 1 .. Len(gs) : gs[k].first = IF k = 1 THEN 0 ELSE next_cursor(gs[k - 1])
  <2> SUFFICES ASSUME NEW k \in 1 .. Len(gs)
               PROVE  gs[k].first = IF k = 1 THEN 0 ELSE next_cursor(gs[k - 1])
    OBVIOUS
  <2>1. CASE k \in 1 .. Len(fs)
    <3>1. k # 1 => k - 1 \in 1 .. Len(fs) BY <1>1, <2>1
    <3>2. QED BY <1>4, <2>1, <3>1 DEF Chained
  <2>2. CASE k = Len(fs) + 1
    <3>1. gs[k] = g BY <1>4, <2>2
    <3>2. k # 1 => k - 1 = Len(fs) /\ k - 1 \in 1 .. Len(fs) /\ fs # <<>> BY <1>1, <2>2
    <3>3. k = 1 => fs = <<>> BY <1>1, <2>2
    <3>4. n = IF k = 1 THEN 0 ELSE next_cursor(fs[k - 1]) BY <3>2, <3>3 DEF n, EndOf
    <3>5. QED BY <1>2, <1>4, <3>1, <3>2, <3>4
  <2>3. QED BY <1>1, <1>4, <2>1, <2>2
<1>8. \A k \in 1 .. Len(gs) : /\ k < Len(gs) => gs[k].manifest.state = "synced"
                              /\ next_cursor(gs[k]) <= n
  <2> SUFFICES ASSUME NEW k \in 1 .. Len(gs)
               PROVE  /\ k < Len(gs) => gs[k].manifest.state = "synced"
                      /\ next_cursor(gs[k]) <= n
    OBVIOUS
  <2>1. CASE k \in 1 .. Len(fs)
    <3>1. fs # <<>> BY <2>1
    <3>2. fs[k].manifest.state = "synced" /\ next_cursor(fs[k]) <= n
      BY <1>1, <2>1, <3>1 DEF Chained, n
    <3>3. QED BY <1>4, <2>1, <3>2
  <2>2. CASE k = Len(fs) + 1 BY <1>1, <1>3, <1>4, <2>2
  <2>3. QED BY <1>1, <1>4, <2>1, <2>2
<1>9. \A k, l \in 1 .. Len(gs) : k < l => next_cursor(gs[k]) <= gs[l].first
  <2> SUFFICES ASSUME NEW k \in 1 .. Len(gs), NEW l \in 1 .. Len(gs), k < l
               PROVE  next_cursor(gs[k]) <= gs[l].first
    OBVIOUS
  <2>1. k \in 1 .. Len(fs) /\ gs[k] = fs[k] BY <1>1, <1>4
  <2>2. CASE l \in 1 .. Len(fs) BY <1>4, <2>1, <2>2 DEF Chained
  <2>3. CASE l = Len(fs) + 1 BY <1>2, <1>4, <1>8, <2>3
  <2>4. QED BY <1>1, <1>4, <2>2, <2>3
<1>10. \A c \in 0 .. n - 1 : \E k \in 1 .. Len(gs) : gs[k].first <= c /\ c < next_cursor(gs[k])
  <2> SUFFICES ASSUME NEW c \in 0 .. n - 1
               PROVE  \E k \in 1 .. Len(gs) : gs[k].first <= c /\ c < next_cursor(gs[k])
    OBVIOUS
  <2>1. PICK k \in 1 .. Len(fs) : fs[k].first <= c /\ c < next_cursor(fs[k])
    BY DEF Chained, n
  <2>2. k \in 1 .. Len(gs) /\ gs[k] = fs[k] BY <1>1, <1>4
  <2>3. QED BY <2>1, <2>2
<1>11. Chained(gs) BY <1>5, <1>6, <1>7, <1>8, <1>9, <1>10 DEF Chained
<1>12. QED BY <1>4, <1>5, <1>11 DEF n, g

(* What the barriers do to a file. *)
LEMMA SyncedFields ==
  ASSUME NEW f \in FileType
  PROVE  /\ Synced(f) \in FileType /\ Synced(f).first = f.first /\ Synced(f).recs = f.recs
         /\ Synced(f).header = IF f.header = "cached" THEN "synced" ELSE f.header
         /\ Synced(f).synced = Len(f.recs) /\ Synced(f).torn = f.torn
         /\ Synced(f).linked = f.linked /\ Synced(f).manifest = f.manifest
<1>1. f.recs \in Seq(RecordType) /\ f.header \in {"none", "cached", "synced"}
  BY DEF FileType
<1>2. Len(f.recs) \in Nat BY <1>1
<1>3. QED BY <1>1, <1>2 DEF Synced, FileType

LEMMA LinkedFields ==
  ASSUME NEW f \in FileType
  PROVE  /\ Linked(f) \in FileType /\ Linked(f).first = f.first /\ Linked(f).recs = f.recs
         /\ Linked(f).header = f.header /\ Linked(f).synced = f.synced
         /\ Linked(f).torn = f.torn /\ Linked(f).linked
         /\ Linked(f).manifest.state = IF f.manifest.state = "cached" THEN "synced" ELSE f.manifest.state
         /\ Linked(f).manifest.first = f.manifest.first /\ Linked(f).manifest.end = f.manifest.end
         /\ f.manifest.state # "cached" => Linked(f).manifest = f.manifest
<1> DEFINE m == [f.manifest EXCEPT !.state = IF f.manifest.state = "cached" THEN "synced" ELSE f.manifest.state]
<1>1. f.manifest \in ManifestType BY DEF FileType
<1>2. /\ m \in ManifestType /\ m.first = f.manifest.first /\ m.end = f.manifest.end
      /\ m.state = IF f.manifest.state = "cached" THEN "synced" ELSE f.manifest.state
      /\ f.manifest.state # "cached" => m = f.manifest
  BY <1>1 DEF ManifestType
<1>3. Linked(f) = [f EXCEPT !.linked = TRUE, !.manifest = m] BY DEF Linked, FileType
<1> HIDE DEF m
<1>4. QED BY <1>2, <1>3 DEF FileType

LEMMA SyncedIsSound ==
  ASSUME NEW f \in FileType, FileSound(f)
  PROVE  /\ FileSound(Synced(f)) /\ next_cursor(Synced(f)) = next_cursor(f)
         /\ (Sealed(Synced(f)) <=> Sealed(f)) /\ (Published(Synced(f)) <=> Published(f))
<1> DEFINE g == Synced(f)
<1>1. /\ g.first = f.first /\ g.recs = f.recs /\ g.torn = f.torn /\ g.manifest = f.manifest
      /\ g.header = IF f.header = "cached" THEN "synced" ELSE f.header
      /\ g.synced = Len(f.recs)
  BY SyncedFields
<1>2. Len(f.recs) \in Nat BY FileCursor
<1> HIDE DEF g
<1>3. FileSound(g) /\ next_cursor(g) = next_cursor(f) /\ (Sealed(g) <=> Sealed(f)) /\ (Published(g) <=> Published(f))
  BY <1>1, <1>2 DEF FileSound, next_cursor, Sealed, Published
<1>4. QED BY <1>3 DEF g

LEMMA LinkedIsSound ==
  ASSUME NEW f \in FileType, FileSound(f)
  PROVE  /\ FileSound(Linked(f)) /\ next_cursor(Linked(f)) = next_cursor(f)
         /\ (Sealed(Linked(f)) <=> Sealed(f)) /\ (Published(Linked(f)) <=> Published(f))
<1> DEFINE g == Linked(f)
<1>1. /\ g.first = f.first /\ g.recs = f.recs /\ g.torn = f.torn /\ g.header = f.header
      /\ g.synced = f.synced
      /\ g.manifest.state = IF f.manifest.state = "cached" THEN "synced" ELSE f.manifest.state
      /\ g.manifest.first = f.manifest.first /\ g.manifest.end = f.manifest.end
      /\ f.manifest.state # "cached" => g.manifest = f.manifest
  BY LinkedFields
<1> HIDE DEF g
<1>2. /\ next_cursor(g) = next_cursor(f) /\ (Sealed(g) <=> Sealed(f))
      /\ (Published(g) <=> Published(f)) /\ (~Published(f) => g.manifest = f.manifest)
  BY <1>1 DEF next_cursor, Sealed, Published
<1>3. FileSound(g) BY <1>1, <1>2 DEF FileSound
<1>4. QED BY <1>2, <1>3 DEF g

(* Published files.
   What PublishedIsFrozen says of a step. *)
FrozenStep ==
  \A i \in DOMAIN files :
     files[i].manifest.state # "none" =>
        /\ i \in DOMAIN files'
        /\ files'[i].recs = files[i].recs
        /\ ~files'[i].torn
        /\ \/ [files'[i].manifest EXCEPT !.state = "cached"] = sealed_manifest(files[i])
           \/ files[i].manifest.state = "cached" /\ files'[i].manifest = NoManifest

LEMMA StillFrozen ==
  ASSUME NEW f \in FileType, FileSound(f), Published(f),
         NEW g \in FileType, FileSound(g), Published(g), g.first = f.first, g.recs = f.recs
  PROVE  /\ ~g.torn
         /\ [g.manifest EXCEPT !.state = "cached"] = sealed_manifest(f)
<1>1. Sealed(f) /\ Sealed(g) BY DEF FileSound
<1>2. sealed_manifest(f) = [state |-> "cached", first |-> f.first, end |-> next_cursor(f)]
  BY <1>1, SealIsLast
<1>3. g.manifest \in ManifestType /\ g.manifest.first = f.first /\ g.manifest.end = next_cursor(f)
  BY DEF FileSound, FileType, next_cursor
<1>4. [g.manifest EXCEPT !.state = "cached"] = [state |-> "cached", first |-> f.first, end |-> next_cursor(f)]
  BY <1>3 DEF ManifestType
<1>5. ~g.torn BY <1>1 DEF FileSound
<1>6. QED BY <1>2, <1>4, <1>5

LEMMA FilesKept ==
  ASSUME SegmentTypes, Chain, files' \in Seq(FileType), Chained(files'),
         \A i \in 1 .. Len(files) : Published(files[i]) =>
            /\ i <= Len(files') /\ files'[i].first = files[i].first
            /\ files'[i].recs = files[i].recs /\ Published(files'[i])
  PROVE  FrozenStep
<1> SUFFICES ASSUME NEW i \in DOMAIN files, files[i].manifest.state # "none"
             PROVE  /\ i \in DOMAIN files'
                    /\ files'[i].recs = files[i].recs
                    /\ ~files'[i].torn
                    /\ [files'[i].manifest EXCEPT !.state = "cached"] = sealed_manifest(files[i])
  BY DEF FrozenStep
<1>1. i \in 1 .. Len(files) /\ Published(files[i]) /\ files \in Seq(FileType)
  BY DEF SegmentTypes, Published
<1>2. Len(files') \in Nat /\ i \in 1 .. Len(files') /\ i \in DOMAIN files' BY <1>1
<1>3. files[i] \in FileType /\ FileSound(files[i]) BY <1>1, ChainCursors DEF Chain
<1>4. files'[i] \in FileType /\ FileSound(files'[i]) BY <1>2, ChainCursors
<1>5. QED BY <1>1, <1>2, <1>3, <1>4, StillFrozen

LEMMA UnchangedFrozen ==
  ASSUME SegmentTypes, Chain, UNCHANGED files
  PROVE  FrozenStep
<1>1. files' \in Seq(FileType) /\ Chained(files') /\ Len(files) \in Nat
  BY DEF SegmentTypes, Chain
<1>2. QED BY <1>1, FilesKept

(* The last file is the only one an action writes to. *)
LEMMA ReplaceLast ==
  ASSUME NEW fs \in Seq(FileType), fs # <<>>, NEW g \in FileType,
         NEW gs, gs = [fs EXCEPT ![Len(fs)] = g]
  PROVE  /\ gs \in Seq(FileType) /\ Len(gs) = Len(fs) /\ gs # <<>> /\ gs[Len(fs)] = g
         /\ \A k \in 1 .. Len(fs) : k # Len(fs) => gs[k] = fs[k]
OBVIOUS

LEMMA LastWritten ==
  ASSUME SegmentTypes, Chain, files # <<>>, NEW f, f = files[Len(files)],
         NEW g \in FileType, g.first = f.first, FileSound(g),
         Published(f) => g.recs = f.recs /\ Published(g),
         files' \in Seq(FileType), Len(files') = Len(files), files'[Len(files)] = g,
         \A k \in 1 .. Len(files) : k # Len(files) => files'[k] = files[k]
  PROVE  Chained(files') /\ EndOf(files') = next_cursor(g) /\ FrozenStep
<1> DEFINE n == Len(files)
<1>1. files \in Seq(FileType) /\ n \in Nat /\ n \in 1 .. n BY DEF SegmentTypes
<1>2. /\ files' \in Seq(FileType) /\ Len(files') = n /\ files' # <<>>
      /\ files'[n] = g /\ \A k \in 1 .. n : k # n => files'[k] = files[k]
  BY <1>1
<1> HIDE DEF n
<1>3. \A k \in 1 .. n : files'[k].first = files[k].first /\ FileSound(files'[k])
  <2> SUFFICES ASSUME NEW k \in 1 .. n PROVE files'[k].first = files[k].first /\ FileSound(files'[k])
    OBVIOUS
  <2>1. CASE k = n BY <1>2, <2>1
  <2>2. CASE k # n BY <1>2, <2>2 DEF Chain, Chained
  <2>3. QED BY <2>1, <2>2
<1>4. \A k \in 1 .. n - 1 : files'[k].recs = files[k].recs /\ files'[k].manifest.state = "synced"
  <2> SUFFICES ASSUME NEW k \in 1 .. n - 1
               PROVE  files'[k].recs = files[k].recs /\ files'[k].manifest.state = "synced"
    OBVIOUS
  <2>1. k \in 1 .. n /\ k # n /\ k < n BY <1>1
  <2>2. QED BY <1>2, <2>1 DEF Chain, Chained
<1>5. Chained(files')
  <2>1. files \in Seq(FileType) /\ Chained(files) /\ files' \in Seq(FileType) /\ Len(files') <= Len(files)
    BY <1>1, <1>2 DEF Chain, n
  <2>2. \A k \in 1 .. Len(files') : files'[k].first = files[k].first /\ FileSound(files'[k])
    BY <1>2, <1>3
  <2>3. \A k \in 1 .. Len(files') - 1 : files'[k].recs = files[k].recs /\ files'[k].manifest.state = "synced"
    BY <1>2, <1>4
  <2>4. QED BY <2>1, <2>2, <2>3, Reshape
<1>6. EndOf(files') = next_cursor(g) BY <1>2 DEF EndOf
<1>7. \A i \in 1 .. n : Published(files[i]) =>
         /\ i <= Len(files') /\ files'[i].first = files[i].first
         /\ files'[i].recs = files[i].recs /\ Published(files'[i])
  <2> SUFFICES ASSUME NEW i \in 1 .. n, Published(files[i])
               PROVE  /\ i <= Len(files') /\ files'[i].first = files[i].first
                      /\ files'[i].recs = files[i].recs /\ Published(files'[i])
    OBVIOUS
  <2>1. CASE i = n
    <3>1. files[i] = f /\ files'[i] = g /\ i <= Len(files') BY <1>1, <1>2, <2>1
    <3>2. QED BY <3>1
  <2>2. CASE i # n
    <3>1. files'[i] = files[i] /\ i <= Len(files') BY <1>1, <1>2, <2>2
    <3>2. QED BY <3>1
  <2>3. QED BY <2>1, <2>2
<1>8. FrozenStep BY <1>2, <1>5, <1>7, FilesKept DEF n
<1>9. QED BY <1>5, <1>6, <1>8

(* The barriers after a step that leaves all files but the last alone. *)
LEMMA LastHeld ==
  ASSUME SegmentTypes, Chain, Barriers, files # <<>>, UNCHANGED budget,
         NEW g, Len(files') = Len(files), files'[Len(files)] = g,
         \A k \in 1 .. Len(files) : k # Len(files) => files'[k] = files[k],
         reported' <= EndOf(files'),
         budget.power > 0 =>
           /\ pc' # "failed"
           /\ ~g.linked => pc' \in {"header", "header_sync", "directory_sync"}
           /\ g.header = "cached" => pc' = "header_sync"
           /\ g.synced < Len(g.recs) => pc' \in {"writing", "written"}
           /\ g.manifest.state = "cached" => pc' = "publish_sync"
           /\ reported' <= CursorAt(g, g.synced)
  PROVE  Barriers'
<1> DEFINE n == Len(files)
<1>1. n \in Nat /\ n \in 1 .. n BY DEF SegmentTypes
<1>2. ASSUME budget.power > 0, NEW k \in 1 .. n
      PROVE  /\ ~files'[k].linked => k = n /\ pc' \in {"header", "header_sync", "directory_sync"}
             /\ files'[k].header # "synced" => k = n
             /\ files'[k].header = "cached" => pc' = "header_sync"
             /\ files'[k].synced < Len(files'[k].recs) => k = n /\ pc' \in {"writing", "written"}
             /\ files'[k].manifest.state = "cached" => pc' = "publish_sync"
  <2>1. CASE k = n BY <1>2, <2>1
  <2>2. CASE k # n
    <3>1. files'[k] = files[k] /\ k < n BY <1>1, <2>2
    <3>2. files[k].manifest.state = "synced" BY <3>1 DEF Chain, Chained
    <3>3. /\ files[k].linked /\ files[k].header = "synced"
          /\ ~(files[k].synced < Len(files[k].recs))
      BY <1>2, <2>2 DEF Barriers, Held
    <3>4. QED BY <3>1, <3>2, <3>3
  <2>3. QED BY <2>1, <2>2
<1>3. budget.power > 0 => budget.process = 0 /\ budget.io = 0 BY DEF Barriers, Held
<1>4. budget'.power = budget.power /\ budget'.process = budget.process /\ budget'.io = budget.io
  OBVIOUS
<1>5. QED BY <1>1, <1>2, <1>3, <1>4 DEF Barriers, Held

(* Steps by what they do to the files. *)
LEMMA WholeCursor ==
  ASSUME NEW f \in FileType, FileSound(f)
  PROVE  /\ f.synced \in Nat /\ f.synced <= Len(f.recs)
         /\ CursorAt(f, Len(f.recs)) = next_cursor(f)
<1>1. f.synced \in Nat /\ f.synced <= Len(f.recs) BY DEF FileType, FileSound
<1>2. QED BY <1>1, FileCursor DEF CursorAt

(* All files are in order when the thread reads or waits for work. *)
LEMMA QuietFiles ==
  ASSUME SegmentInv, pc \in {"scan", "ready"}, budget.power > 0, NEW k \in 1 .. Len(files)
  PROVE  /\ files[k].linked /\ files[k].header # "cached" /\ files[k].manifest.state # "cached"
         /\ files[k].synced = Len(files[k].recs)
<1>1. files[k] \in FileType /\ FileSound(files[k])
  BY ChainCursors DEF SegmentInv, SegmentTypes, Chain
<1>2. files[k].synced \in Nat /\ files[k].synced <= Len(files[k].recs) /\ Len(files[k].recs) \in Nat
  BY <1>1, WholeCursor, FileCursor
<1>3. /\ files[k].linked /\ files[k].header # "cached" /\ files[k].manifest.state # "cached"
      /\ ~(files[k].synced < Len(files[k].recs))
  BY DEF SegmentInv, Barriers, Held
<1>4. QED BY <1>2, <1>3

LEMMA FilesUntouched ==
  ASSUME SegmentInv, UNCHANGED <<files, budget>>, pc \in {"scan", "ready"}, pc' # "failed",
         writer' \in WriterType, reported' \in Nat, reported' <= EndOf(files), Place'
  PROVE  SegmentInv' /\ FrozenStep
<1>1. SegmentTypes' /\ Chain' BY DEF SegmentInv, SegmentTypes, Chain
<1>2. FrozenStep BY UnchangedFrozen DEF SegmentInv
<1>3. Barriers'
  <2>1. files' = files /\ budget' = budget OBVIOUS
  <2>2. reported' <= EndOf(files') BY <2>1
  <2>3. ASSUME budget.power > 0
        PROVE  Barriers'
    <3>1. \A k \in 1 .. Len(files) :
             /\ files[k].linked /\ files[k].header # "cached" /\ files[k].manifest.state # "cached"
             /\ files[k].synced = Len(files[k].recs)
      BY <2>3, QuietFiles
    <3>2. \A k \in 1 .. Len(files) : files[k].header # "synced" => k = Len(files)
      BY <2>3 DEF SegmentInv, Barriers, Held
    <3>3. budget.process = 0 /\ budget.io = 0 BY <2>3 DEF SegmentInv, Barriers, Held
    <3>4. ASSUME files # <<>>
          PROVE  reported' <= CursorAt(files[Len(files)], files[Len(files)].synced)
      <4>1. /\ Len(files) \in 1 .. Len(files) /\ files[Len(files)] \in FileType
            /\ FileSound(files[Len(files)]) /\ EndOf(files) = next_cursor(files[Len(files)])
        BY <3>4, ChainCursors DEF SegmentInv, SegmentTypes, Chain
      <4>2. CursorAt(files[Len(files)], files[Len(files)].synced) = EndOf(files)
        BY <3>1, <4>1, WholeCursor
      <4>3. QED BY <4>2
    <3>5. \A k \in 1 .. Len(files) :
             /\ ~files[k].linked => k = Len(files) /\ pc' \in {"header", "header_sync", "directory_sync"}
             /\ files[k].header # "synced" => k = Len(files)
             /\ files[k].header = "cached" => pc' = "header_sync"
             /\ files[k].synced < Len(files[k].recs) => k = Len(files) /\ pc' \in {"writing", "written"}
             /\ files[k].manifest.state = "cached" => pc' = "publish_sync"
      <4> SUFFICES ASSUME NEW k \in 1 .. Len(files)
                   PROVE  ~(files[k].synced < Len(files[k].recs))
        BY <3>1, <3>2
      <4>1. Len(files[k].recs) \in Nat
        BY ChainCursors, FileCursor DEF SegmentInv, SegmentTypes, Chain
      <4>2. QED BY <3>1, <4>1
    <3>6. Held(files, pc', reported', budget) BY <2>1, <2>2, <3>3, <3>4, <3>5 DEF Held
    <3>7. QED BY <2>1, <3>6 DEF Barriers
  <2>4. ASSUME ~(budget.power > 0)
        PROVE  Barriers'
    BY <2>1, <2>2, <2>4 DEF Barriers, Held
  <2>5. QED BY <2>3, <2>4
<1>4. QED BY <1>1, <1>2, <1>3 DEF SegmentInv

LEMMA AllLinked ==
  ASSUME SegmentTypes, Chain, NEW gs, gs = LinkedFiles
  PROVE  /\ gs \in Seq(FileType) /\ Len(gs) = Len(files) /\ Chained(gs) /\ EndOf(gs) = EndOf(files)
         /\ (gs = <<>> <=> files = <<>>)
         /\ \A k \in 1 .. Len(files) : gs[k] = Linked(files[k]) /\ gs[k].manifest.state # "cached"
<1>1. files \in Seq(FileType) /\ Len(files) \in Nat BY DEF SegmentTypes
<1>2. \A k \in 1 .. Len(files) : files[k] \in FileType /\ FileSound(files[k])
  BY <1>1, ChainCursors DEF Chain
<1>3. \A k \in 1 .. Len(files) : /\ Linked(files[k]) \in FileType /\ FileSound(Linked(files[k]))
                                 /\ Linked(files[k]).first = files[k].first
                                 /\ Linked(files[k]).recs = files[k].recs
                                 /\ next_cursor(Linked(files[k])) = next_cursor(files[k])
                                 /\ Linked(files[k]).manifest.state =
                                      IF files[k].manifest.state = "cached" THEN "synced" ELSE files[k].manifest.state
  BY <1>2, LinkedFields, LinkedIsSound
<1>4. gs = [k \in 1 .. Len(files) |-> Linked(files[k])] BY <1>1 DEF LinkedFiles
<1>5. gs \in Seq(FileType) /\ Len(gs) = Len(files) /\ (gs = <<>> <=> files = <<>>)
  <2>1. gs \in [1 .. Len(files) -> FileType] BY <1>3, <1>4
  <2>2. gs \in Seq(FileType) /\ Len(gs) = Len(files) BY <1>1, <2>1
  <2>3. QED BY <1>1, <2>2
<1>6. \A k \in 1 .. Len(files) : gs[k] = Linked(files[k]) BY <1>4
<1>7. \A k \in 1 .. Len(files) - 1 : gs[k].recs = files[k].recs /\ gs[k].manifest.state = "synced"
  <2> SUFFICES ASSUME NEW k \in 1 .. Len(files) - 1
               PROVE  gs[k].recs = files[k].recs /\ gs[k].manifest.state = "synced"
    OBVIOUS
  <2>1. k \in 1 .. Len(files) /\ k < Len(files) BY <1>1
  <2>2. files[k].manifest.state = "synced" BY <2>1 DEF Chain, Chained
  <2>3. QED BY <1>3, <1>6, <2>1, <2>2
<1>8. Chained(gs)
  <2>1. Chained(files) /\ Len(gs) <= Len(files) BY <1>1, <1>5 DEF Chain
  <2>2. \A k \in 1 .. Len(gs) : gs[k].first = files[k].first /\ FileSound(gs[k])
    BY <1>3, <1>5, <1>6
  <2>3. \A k \in 1 .. Len(gs) - 1 : gs[k].recs = files[k].recs /\ gs[k].manifest.state = "synced"
    BY <1>5, <1>7
  <2>4. QED BY <1>1, <1>5, <2>1, <2>2, <2>3, Reshape
<1>9. EndOf(gs) = EndOf(files)
  <2>1. files # <<>> => Len(files) \in 1 .. Len(files) BY <1>1
  <2>2. QED BY <1>3, <1>5, <1>6, <2>1 DEF EndOf
<1>10. \A k \in 1 .. Len(files) : gs[k].manifest.state # "cached" BY <1>3, <1>6
<1>11. QED BY <1>5, <1>6, <1>8, <1>9, <1>10

LEMMA LinkStep ==
  ASSUME SegmentInv, files' = LinkedFiles, UNCHANGED <<reported, budget>>,
         pc \in {"down", "failed", "refused", "directory_sync", "publish_sync"}, pc' # "failed",
         writer' \in WriterType, Place'
  PROVE  SegmentInv' /\ FrozenStep
<1>1. /\ files' \in Seq(FileType) /\ Len(files') = Len(files) /\ Chained(files')
      /\ EndOf(files') = EndOf(files) /\ (files' = <<>> <=> files = <<>>)
      /\ \A k \in 1 .. Len(files) : files'[k] = Linked(files[k]) /\ files'[k].manifest.state # "cached"
  BY AllLinked DEF SegmentInv
<1>2. SegmentTypes' /\ Chain' BY <1>1 DEF SegmentInv, SegmentTypes, Chain
<1>3. Len(files) \in Nat /\ \A k \in 1 .. Len(files) : files[k] \in FileType /\ FileSound(files[k])
  BY ChainCursors DEF SegmentInv, SegmentTypes, Chain
<1>4. \A k \in 1 .. Len(files) :
         /\ files'[k].first = files[k].first /\ files'[k].recs = files[k].recs
         /\ (Published(files'[k]) <=> Published(files[k])) /\ files'[k].linked
         /\ files'[k].header = files[k].header /\ files'[k].synced = files[k].synced
  BY <1>1, <1>3, LinkedFields, LinkedIsSound
<1>5. FrozenStep BY <1>1, <1>3, <1>4, FilesKept DEF SegmentInv
<1>6. Barriers'
  <2>1. reported' <= EndOf(files') BY <1>1 DEF SegmentInv, Barriers, Held
  <2>2. ASSUME budget.power > 0
        PROVE  /\ budget.process = 0 /\ budget.io = 0
               /\ \A k \in 1 .. Len(files) :
                    /\ files'[k].linked /\ files'[k].header # "cached"
                    /\ files'[k].header # "synced" => k = Len(files)
                    /\ ~(files'[k].synced < Len(files'[k].recs))
                    /\ files'[k].manifest.state # "cached"
               /\ files' # <<>> => reported <= CursorAt(files'[Len(files)], files'[Len(files)].synced)
    <3>1. budget.process = 0 /\ budget.io = 0 BY <2>2 DEF SegmentInv, Barriers, Held
    <3>2. \A k \in 1 .. Len(files) :
             /\ files[k].header # "cached" /\ ~(files[k].synced < Len(files[k].recs))
             /\ files[k].header # "synced" => k = Len(files)
      BY <2>2 DEF SegmentInv, Barriers, Held
    <3>3. ASSUME files' # <<>>
          PROVE  reported <= CursorAt(files'[Len(files)], files'[Len(files)].synced)
      <4>1. files # <<>> /\ Len(files) \in 1 .. Len(files) BY <1>1, <1>3, <3>3
      <4>2. reported <= CursorAt(files[Len(files)], files[Len(files)].synced)
        BY <2>2, <4>1 DEF SegmentInv, Barriers, Held
      <4>3. QED BY <1>4, <4>1, <4>2 DEF CursorAt
    <3>4. QED BY <1>1, <1>4, <3>1, <3>2, <3>3
  <2>3. Held(files', pc', reported, budget) BY <1>1, <2>1, <2>2 DEF Held
  <2>4. QED BY <2>3 DEF Barriers
<1>7. QED BY <1>2, <1>5, <1>6 DEF SegmentInv

(* A step that writes to the last file. *)
LEMMA LastStep ==
  ASSUME SegmentInv, files # <<>>, writer.ordinal = Len(files),
         NEW f, f = files[Len(files)], NEW g \in FileType, FileSound(g), g.first = f.first,
         files' \in Seq(FileType), Len(files') = Len(files), files'[Len(files)] = g,
         \A k \in 1 .. Len(files) : k # Len(files) => files'[k] = files[k],
         UNCHANGED budget,
         Published(f) => g.recs = f.recs /\ Published(g),
         writer' \in WriterType, writer'.ordinal = writer.ordinal,
         reported' \in Nat, reported' <= next_cursor(g),
         pc' \in {"header", "header_sync", "directory_sync", "scan", "publish", "publish_sync",
                  "ready", "writing", "written"},
         AtLast(g, writer', pc', reported'), pc' = "scan" => writer'.next = g.first,
         g.manifest.state = "cached" => pc' = "publish_sync",
         budget.power > 0 =>
           /\ ~g.linked => pc' \in {"header", "header_sync", "directory_sync"}
           /\ g.header = "cached" => pc' = "header_sync"
           /\ g.synced < Len(g.recs) => pc' \in {"writing", "written"}
           /\ reported' <= CursorAt(g, g.synced)
  PROVE  SegmentInv' /\ FrozenStep
<1>1. files \in Seq(FileType) /\ Len(files) \in Nat /\ Len(files) \in 1 .. Len(files)
  BY DEF SegmentInv, SegmentTypes
<1>2. /\ files' \in Seq(FileType) /\ Len(files') = Len(files) /\ files' # <<>> /\ files'[Len(files)] = g
      /\ \A k \in 1 .. Len(files) : k # Len(files) => files'[k] = files[k]
  BY <1>1
<1>3. Chained(files') /\ EndOf(files') = next_cursor(g) /\ FrozenStep
  BY <1>2, LastWritten DEF SegmentInv
<1>4. SegmentTypes' /\ Chain' BY <1>2, <1>3 DEF SegmentInv, SegmentTypes, Chain
<1>5. Barriers' BY <1>2, <1>3, LastHeld DEF SegmentInv
<1>6. \A k \in 1 .. Len(files') : files'[k].manifest.state = "cached" => pc' = "publish_sync"
  <2> SUFFICES ASSUME NEW k \in 1 .. Len(files')
               PROVE  files'[k].manifest.state = "cached" => pc' = "publish_sync"
    OBVIOUS
  <2>1. CASE k = Len(files') BY <1>2, <2>1
  <2>2. CASE k < Len(files') BY <1>3, <2>2 DEF Chained
  <2>3. QED BY <1>1, <1>2, <2>1, <2>2
<1>7. Place'
  <2>1. pc' \in Steps \ {"refused"} BY DEF Steps
  <2>2. writer'.ordinal = Len(files') /\ writer'.ordinal \in 1 .. Len(files') /\ files'[writer'.ordinal] = g
    BY <1>1, <1>2
  <2>3. QED BY <1>2, <1>6, <2>1, <2>2 DEF Place, Standing
<1>8. QED BY <1>3, <1>4, <1>5, <1>7 DEF SegmentInv

(* The thread at the last file, and at a file it reads. *)
Working == {"header", "header_sync", "directory_sync", "publish", "publish_sync", "ready", "writing", "written"}

LEMMA AtWork ==
  ASSUME SegmentInv, pc \in Working
  PROVE  /\ files # <<>> /\ writer.ordinal = Len(files)
         /\ AtLast(Current, writer, pc, reported)
BY DEF SegmentInv, Place, Standing, Working, Current

LEMMA AtEnd ==
  ASSUME SegmentInv, files # <<>>, writer.ordinal = Len(files)
  PROVE  /\ files \in Seq(FileType) /\ Len(files) \in Nat /\ Len(files) \in 1 .. Len(files)
         /\ Current = files[Len(files)] /\ Current \in FileType /\ FileSound(Current)
         /\ EndOf(files) = next_cursor(Current) /\ next_cursor(Current) \in Nat
         /\ Current.first \in Nat /\ writer \in WriterType /\ reported \in Nat
         /\ reported <= next_cursor(Current)
         /\ budget.power > 0 =>
              /\ ~Current.linked => pc \in {"header", "header_sync", "directory_sync"}
              /\ Current.header = "cached" => pc = "header_sync"
              /\ Current.synced < Len(Current.recs) => pc \in {"writing", "written"}
              /\ Current.manifest.state = "cached" => pc = "publish_sync"
              /\ reported <= CursorAt(Current, Current.synced)
<1>1. files \in Seq(FileType) /\ Len(files) \in Nat /\ Len(files) \in 1 .. Len(files)
  BY DEF SegmentInv, SegmentTypes
<1>2. Current = files[Len(files)] BY DEF Current
<1>3. /\ Current \in FileType /\ FileSound(Current) /\ EndOf(files) = next_cursor(Current)
      /\ next_cursor(Current) \in Nat /\ Current.first \in Nat
  BY <1>1, <1>2, ChainCursors DEF SegmentInv, Chain
<1>4. writer \in WriterType /\ reported \in Nat BY DEF SegmentInv, SegmentTypes
<1>5. reported <= next_cursor(Current) BY <1>3 DEF SegmentInv, Barriers, Held
<1>6. budget.power > 0 =>
              /\ ~Current.linked => pc \in {"header", "header_sync", "directory_sync"}
              /\ Current.header = "cached" => pc = "header_sync"
              /\ Current.synced < Len(Current.recs) => pc \in {"writing", "written"}
              /\ Current.manifest.state = "cached" => pc = "publish_sync"
              /\ reported <= CursorAt(Current, Current.synced)
  BY <1>1, <1>2 DEF SegmentInv, Barriers, Held
<1>7. QED BY <1>1, <1>2, <1>3, <1>4, <1>5, <1>6

LEMMA Reading ==
  ASSUME SegmentInv, pc = "scan"
  PROVE  /\ writer.ordinal \in 1 .. Len(files) /\ files # <<>> /\ Len(files) \in Nat
         /\ writer.ordinal \in Nat /\ files \in Seq(FileType) /\ writer \in WriterType
         /\ Current \in FileType /\ FileSound(Current) /\ Current.first = writer.next
         /\ ~Sealed(Current) => writer.ordinal = Len(files)
         /\ verdict(Current) = IF Current.header = "none" THEN "header"
                               ELSE IF Current.torn THEN "truncate"
                               ELSE IF ~Sealed(Current) THEN "current"
                               ELSE IF Published(Current) THEN "next" ELSE "publish"
<1>1. /\ writer.ordinal \in 1 .. Len(files) /\ Current.first = writer.next
      /\ files \in Seq(FileType) /\ writer \in WriterType
  BY DEF SegmentInv, SegmentTypes, Place, Standing, Current
<1>2. Len(files) \in Nat /\ writer.ordinal \in Nat /\ files # <<>> BY <1>1
<1>3. Current \in FileType /\ FileSound(Current)
  BY <1>1, ChainCursors DEF SegmentInv, Chain, Current
<1>4. ASSUME writer.ordinal # Len(files) PROVE Sealed(Current)
  <2>1. writer.ordinal < Len(files) BY <1>1, <1>2, <1>4
  <2>2. Current.manifest.state = "synced"
    BY <1>1, <2>1 DEF SegmentInv, Chain, Chained, Current
  <2>3. QED BY <1>3, <2>2 DEF FileSound, Published
<1>5. verdict(Current) = IF Current.header = "none" THEN "header"
                         ELSE IF Current.torn THEN "truncate"
                         ELSE IF ~Sealed(Current) THEN "current"
                         ELSE IF Published(Current) THEN "next" ELSE "publish"
  BY <1>1, <1>2, <1>3, <1>4, SoundVerdict
<1>6. QED BY <1>1, <1>2, <1>3, <1>4, <1>5

LEMMA Replaced ==
  ASSUME SegmentInv, files # <<>>, writer.ordinal = Len(files),
         NEW g \in FileType, files' = [files EXCEPT ![writer.ordinal] = g]
  PROVE  /\ files' \in Seq(FileType) /\ Len(files') = Len(files) /\ files'[Len(files)] = g
         /\ \A k \in 1 .. Len(files) : k # Len(files) => files'[k] = files[k]
BY ReplaceLast DEF SegmentInv, SegmentTypes

(* Opening. *)
LEMMA OpenKeeps ==
  ASSUME SegmentInv, Open
  PROVE  SegmentInv' /\ FrozenStep
<1>1. /\ files' = LinkedFiles /\ UNCHANGED <<reported, budget>>
      /\ pc \in {"down", "failed", "refused"}
      /\ writer' = [NoBatch EXCEPT !.ordinal = 1]
      /\ pc' = IF files = <<>> THEN "create" ELSE "scan"
  BY DEF Open
<1>2. writer' \in WriterType /\ writer'.ordinal = 1 /\ writer'.next = 0
  <2>1. writer' = [ordinal |-> 1, next |-> 0, batch |-> <<>>, then |-> "scan"]
    BY <1>1 DEF NoBatch
  <2>2. <<>> \in Seq(RecordType) OBVIOUS
  <2>3. QED BY <2>1, <2>2 DEF WriterType
<1>3. /\ files' \in Seq(FileType) /\ Len(files') = Len(files) /\ Chained(files')
      /\ (files' = <<>> <=> files = <<>>)
      /\ \A k \in 1 .. Len(files) : files'[k].manifest.state # "cached"
  BY <1>1, AllLinked DEF SegmentInv
<1>4. Place'
  <2>1. files = <<>> => Len(files') = 0 /\ EndOf(files') = 0 BY <1>3 DEF EndOf
  <2>2. files # <<>> => 1 \in 1 .. Len(files') /\ files'[1].first = 0
    <3>1. files # <<>> => 1 \in 1 .. Len(files') BY <1>3
    <3>2. QED BY <1>3, <3>1 DEF Chained
  <2>3. QED BY <1>1, <1>2, <1>3, <2>1, <2>2 DEF Place, Standing, Steps
<1>5. QED BY <1>1, <1>2, <1>4, LinkStep

(* A first file without its header is the only one, and holds nothing. *)
LEMMA HeaderlessIsEmpty ==
  ASSUME SegmentInv, origin_unreadable
  PROVE  /\ Len(files) = 1 /\ files[1].recs = <<>> /\ ~Published(files[1])
         /\ EndOf(files) = 0
<1>1. /\ files \in Seq(FileType) /\ files # <<>> /\ Len(files) \in Nat /\ 1 \in 1 .. Len(files)
      /\ files[1].header = "none"
  BY DEF SegmentInv, SegmentTypes, origin_unreadable
<1>2. /\ files[1] \in FileType /\ FileSound(files[1]) /\ files[1].first = 0
      /\ 1 < Len(files) => files[1].manifest.state = "synced"
  BY <1>1 DEF SegmentInv, Chain, Chained
<1>3. files[1].recs = <<>> /\ ~Published(files[1]) BY <1>1, <1>2 DEF FileSound
<1>4. Len(files) = 1
  <2>1. Len(files) \in Nat /\ Len(files) # 0 BY <1>1
  <2>2. ~(1 < Len(files)) BY <1>2, <1>3 DEF Published
  <2>3. \A n \in Nat : n # 0 /\ ~(1 < n) => n = 1 OBVIOUS
  <2>4. QED BY <2>1, <2>2, <2>3
<1>5. QED BY <1>1, <1>2, <1>3, <1>4 DEF EndOf, next_cursor

(* The refused start leaves everything as it found it. *)
LEMMA RefuseOriginKeeps ==
  ASSUME SegmentInv, RefuseOrigin
  PROVE  SegmentInv' /\ FrozenStep
<1>1. /\ UNCHANGED <<files, writer, reported, budget>> /\ pc \in {"down", "failed", "refused"}
      /\ pc' = "refused" /\ origin_unreadable
  BY DEF RefuseOrigin
<1>2. Len(files) = 1 /\ ~Published(files[1]) /\ files[1].header = "none"
  BY <1>1, HeaderlessIsEmpty DEF origin_unreadable
<1>3. SegmentTypes' /\ Chain' BY <1>1 DEF SegmentInv, SegmentTypes, Chain
<1>4. Place'
  <2>1. \A k \in 1 .. Len(files) : files[k].manifest.state # "cached"
    BY <1>2 DEF Published
  <2>2. QED BY <1>1, <1>2, <2>1 DEF Place, Standing, Steps
<1>5. Barriers' BY <1>1 DEF SegmentInv, Barriers, Held
<1>6. FrozenStep BY <1>1, UnchangedFrozen DEF SegmentInv
<1>7. QED BY <1>3, <1>4, <1>5, <1>6 DEF SegmentInv

(* A refused start found a file in which nothing was ever recorded. *)
LEMMA RefusedIsEmpty ==
  ASSUME SegmentInv
  PROVE  RefusalLosesNothing
<1> SUFFICES ASSUME pc = "refused"
             PROVE  /\ Len(files) = 1 /\ files[1].header = "none"
                    /\ files[1].recs = <<>> /\ reported = 0
  BY DEF RefusalLosesNothing
<1>1. Len(files) = 1 /\ files[1].header = "none" /\ files # <<>>
  <2>1. Standing(files, writer, pc, reported) BY DEF SegmentInv, Place
  <2>2. Len(files) = 1 /\ files[1].header = "none" BY SMTT(30), <2>1 DEF Standing
  <2>3. QED BY <2>2
<1>2. files[1].recs = <<>> /\ EndOf(files) = 0
  BY <1>1, HeaderlessIsEmpty DEF origin_unreadable
<1>3. reported \in Nat /\ reported <= EndOf(files)
  BY DEF SegmentInv, SegmentTypes, Barriers, Held
<1>4. QED BY <1>1, <1>2, <1>3

LEMMA TruncateTailKeeps ==
  ASSUME SegmentInv, TruncateTail
  PROVE  SegmentInv' /\ FrozenStep
<1> DEFINE f == Current
<1> DEFINE c == [f EXCEPT !.torn = FALSE]
<1> DEFINE g == Synced(c)
<1>1. /\ pc = "scan" /\ verdict(f) = "truncate" /\ files' = [files EXCEPT ![writer.ordinal] = g]
      /\ UNCHANGED <<writer, pc, reported, budget>>
  BY DEF TruncateTail, Current
<1>2. /\ f \in FileType /\ FileSound(f) /\ f.first = writer.next /\ files # <<>>
      /\ ~Sealed(f) => writer.ordinal = Len(files)
      /\ writer \in WriterType
  BY <1>1, Reading
<1>3. f.header # "none" /\ f.torn BY <1>1, Reading
<1>4. ~Sealed(f) /\ ~Published(f) BY <1>2, <1>3 DEF FileSound
<1>5. writer.ordinal = Len(files) BY <1>2, <1>4
<1>6. /\ c \in FileType /\ FileSound(c) /\ c.first = f.first /\ c.recs = f.recs /\ c.header = f.header
      /\ c.linked = f.linked /\ c.manifest = f.manifest /\ ~c.torn
  <2>1. /\ c \in FileType /\ c.first = f.first /\ c.recs = f.recs /\ c.header = f.header
        /\ c.linked = f.linked /\ c.manifest = f.manifest /\ ~c.torn /\ c.synced = f.synced
    BY <1>2 DEF FileType
  <2> HIDE DEF c
  <2>2. FileSound(c) BY <1>2, <1>4, <2>1 DEF FileSound, Published, Sealed
  <2>3. QED BY <2>1, <2>2
<1> HIDE DEF c
<1>7. /\ g \in FileType /\ FileSound(g) /\ g.first = f.first /\ g.recs = f.recs /\ g.header # "cached"
      /\ g.synced = Len(g.recs) /\ g.linked = f.linked /\ g.manifest = f.manifest
  BY <1>6, SyncedFields, SyncedIsSound DEF FileType
<1> HIDE DEF g
<1>8. /\ f = files[Len(files)] /\ reported \in Nat /\ reported <= next_cursor(f)
      /\ budget.power > 0 => f.linked
  BY <1>1, <1>2, <1>5, AtEnd
<1>9. next_cursor(g) = next_cursor(f) /\ CursorAt(g, g.synced) = next_cursor(f)
  BY <1>7, WholeCursor DEF next_cursor
<1>10. g.manifest.state = "none" BY <1>4, <1>7 DEF Published
<1>11. /\ files' \in Seq(FileType) /\ Len(files') = Len(files) /\ files'[Len(files)] = g
       /\ \A k \in 1 .. Len(files) : k # Len(files) => files'[k] = files[k]
  BY <1>1, <1>2, <1>5, <1>7, Replaced
<1>12. Len(g.recs) \in Nat BY <1>7, FileCursor
<1> HIDE DEF f
<1>13. AtLast(g, writer', pc', reported') BY <1>1 DEF AtLast
<1>14. QED
  BY <1>1, <1>2, <1>4, <1>5, <1>7, <1>8, <1>9, <1>10, <1>11, <1>12, <1>13, LastStep

LEMMA OpenReturnsKeeps ==
  ASSUME SegmentInv, OpenReturns
  PROVE  SegmentInv' /\ FrozenStep
<1>1. pc = "scan" /\ verdict(Current) \in {"current", "refuse"} /\ UNCHANGED <<files, budget>>
  BY DEF OpenReturns
<1>2. Current.header # "none" /\ ~Current.torn /\ ~Sealed(Current) /\ verdict(Current) = "current"
  BY <1>1, Reading
<1>3. writer.ordinal = Len(files) /\ files # <<>> /\ writer \in WriterType
  BY <1>1, <1>2, Reading
<1>4. /\ writer' = [writer EXCEPT !.next = next_cursor(Current)]
      /\ reported' = Max({reported, next_cursor(Current)}) /\ pc' = "ready"
  BY <1>2 DEF OpenReturns
<1>5. /\ EndOf(files) = next_cursor(Current) /\ next_cursor(Current) \in Nat /\ reported \in Nat
      /\ reported <= next_cursor(Current)
  BY <1>3, AtEnd
<1>6. reported' = next_cursor(Current) BY <1>4, <1>5, LargestOfTwo
<1>7. /\ writer' \in WriterType /\ writer'.ordinal = Len(files) /\ writer'.next = next_cursor(Current)
  BY <1>3, <1>4, <1>5 DEF WriterType
<1>8. Place'
  <2>1. Current = files[Len(files)] BY <1>3 DEF Current
  <2>2. AtLast(files[Len(files)], writer', pc', reported')
    BY <1>2, <1>4, <1>6, <1>7, <2>1 DEF AtLast, Told
  <2>3. \A k \in 1 .. Len(files) : files[k].manifest.state # "cached"
    BY <1>1 DEF SegmentInv, Place, Standing
  <2>4. QED BY <1>1, <1>3, <1>4, <1>7, <2>2, <2>3 DEF Place, Standing, Steps
<1>9. QED BY <1>1, <1>4, <1>5, <1>6, <1>7, <1>8, FilesUntouched

LEMMA NextSegmentKeeps ==
  ASSUME SegmentInv, NextSegment
  PROVE  SegmentInv' /\ FrozenStep
<1>1. /\ pc = "scan" /\ verdict(Current) = "next" /\ UNCHANGED <<files, reported, budget>>
      /\ writer' = [writer EXCEPT !.ordinal = @ + 1, !.next = Current.manifest.end]
      /\ pc' = IF writer.ordinal = Len(files) THEN "create" ELSE "scan"
  BY DEF NextSegment
<1>2. /\ writer.ordinal \in 1 .. Len(files) /\ Len(files) \in Nat /\ files # <<>>
      /\ writer \in WriterType /\ files \in Seq(FileType)
      /\ Current \in FileType /\ FileSound(Current) /\ Published(Current)
  BY <1>1, Reading
<1>3. Current.manifest.end = next_cursor(Current) /\ next_cursor(Current) \in Nat
  BY <1>2, FileCursor DEF FileSound
<1>4. /\ writer' \in WriterType /\ writer'.ordinal = writer.ordinal + 1
      /\ writer'.next = next_cursor(files[writer.ordinal])
  <2>1. writer' = [writer EXCEPT !.ordinal = writer.ordinal + 1, !.next = next_cursor(Current)]
    BY <1>1, <1>3
  <2>2. writer.ordinal + 1 \in Nat /\ writer \in WriterType BY <1>2
  <2>3. QED BY <1>3, <2>1, <2>2 DEF WriterType, Current
<1>5. \A k \in 1 .. Len(files) : files[k].manifest.state # "cached"
  BY <1>1 DEF SegmentInv, Place, Standing
<1>6. Place'
  <2>1. CASE writer.ordinal = Len(files)
    <3>1. writer'.next = EndOf(files) BY <1>2, <1>4, <2>1 DEF EndOf
    <3>2. files[Len(files)].manifest.state = "synced"
      <4>1. files[Len(files)].manifest.state \in {"none", "cached", "synced"}
        BY <1>2, <2>1 DEF FileType, ManifestType, Current
      <4>2. files[Len(files)].manifest.state # "none"
        BY <1>2, <2>1 DEF Current, Published
      <4>3. QED BY <1>2, <1>5, <2>1, <4>1, <4>2
    <3>3. QED BY <1>1, <1>2, <1>4, <1>5, <2>1, <3>1, <3>2 DEF Place, Standing, Steps
  <2>2. CASE writer.ordinal # Len(files)
    <3>1. writer.ordinal + 1 \in 1 .. Len(files) BY <1>2, <2>2
    <3>2. files[writer.ordinal + 1].first = next_cursor(files[writer.ordinal])
      <4>1. files[writer.ordinal + 1].first =
              IF writer.ordinal + 1 = 1 THEN 0 ELSE next_cursor(files[(writer.ordinal + 1) - 1])
        BY <3>1 DEF SegmentInv, Chain, Chained
      <4>2. writer.ordinal + 1 # 1 /\ (writer.ordinal + 1) - 1 = writer.ordinal BY <1>2
      <4>3. QED BY <4>1, <4>2
    <3>3. QED BY <1>1, <1>4, <1>5, <2>2, <3>1, <3>2 DEF Place, Standing, Steps
  <2>3. QED BY <2>1, <2>2
<1>7. reported' \in Nat /\ reported' <= EndOf(files) /\ pc' # "failed"
  BY <1>1 DEF SegmentInv, SegmentTypes, Barriers, Held
<1>8. QED BY <1>1, <1>4, <1>6, <1>7, FilesUntouched

LEMMA MissingHeaderKeeps ==
  ASSUME SegmentInv, MissingHeader
  PROVE  SegmentInv' /\ FrozenStep
<1>1. /\ pc = "scan" /\ verdict(Current) = "header" /\ UNCHANGED <<writer, reported, budget>>
      /\ files' = [files EXCEPT ![writer.ordinal].first = writer.next] /\ pc' = "header"
  BY DEF MissingHeader
<1>2. /\ writer.ordinal \in 1 .. Len(files) /\ files \in Seq(FileType) /\ files # <<>>
      /\ Current \in FileType /\ FileSound(Current) /\ Current.first = writer.next
      /\ ~Sealed(Current) => writer.ordinal = Len(files)
      /\ Current.header = "none"
  BY <1>1, Reading
<1>3. Current.recs = <<>> /\ ~Current.torn /\ ~Sealed(Current) /\ ~Published(Current)
  BY <1>2 DEF FileSound, Sealed
<1>4. writer.ordinal = Len(files) BY <1>2, <1>3
<1>5. [files[writer.ordinal] EXCEPT !.first = writer.next] = files[writer.ordinal]
  BY <1>2 DEF FileType, Current
<1>6. UNCHANGED <<files, budget>> BY <1>1, <1>2, <1>5
<1>7. /\ Current = files[Len(files)] /\ reported' \in Nat /\ reported' <= EndOf(files)
      /\ writer' \in WriterType /\ writer'.ordinal = writer.ordinal /\ writer'.next = writer.next
  BY <1>1, <1>2, <1>4, AtEnd
<1>8. AtLast(files[Len(files)], writer', pc', reported')
  BY <1>1, <1>2, <1>3, <1>7 DEF AtLast
<1>9. \A k \in 1 .. Len(files) : files[k].manifest.state # "cached"
  BY <1>1 DEF SegmentInv, Place, Standing
<1>10. Place'
  <2>1. files' = files /\ pc' = "header" BY <1>1, <1>6
  <2>2. QED BY <1>2, <1>4, <1>7, <1>8, <1>9, <2>1 DEF Place, Standing, Steps
<1>11. QED BY <1>1, <1>6, <1>7, <1>10, FilesUntouched

LEMMA MissingManifestKeeps ==
  ASSUME SegmentInv, MissingManifest
  PROVE  SegmentInv' /\ FrozenStep
<1>1. /\ pc = "scan" /\ verdict(Current) = "publish" /\ UNCHANGED <<files, reported, budget>>
      /\ writer' = [writer EXCEPT !.then = "scan"] /\ pc' = "publish"
  BY DEF MissingManifest
<1>2. /\ writer.ordinal \in 1 .. Len(files) /\ files \in Seq(FileType) /\ files # <<>> /\ Len(files) \in Nat
      /\ writer \in WriterType
      /\ Current \in FileType /\ FileSound(Current) /\ Current.first = writer.next
      /\ Sealed(Current) /\ ~Published(Current)
  BY <1>1, Reading
<1>3. writer.ordinal = Len(files)
  <2> SUFFICES ASSUME writer.ordinal # Len(files) PROVE FALSE OBVIOUS
  <2>1. writer.ordinal < Len(files) BY <1>2
  <2>2. QED BY <1>2, <2>1 DEF SegmentInv, Chain, Chained, Current, Published
<1>4. /\ writer' \in WriterType /\ writer'.ordinal = writer.ordinal /\ writer'.next = writer.next
      /\ writer'.then = "scan"
  BY <1>1, <1>2 DEF WriterType
<1>5. Current = files[Len(files)] /\ reported' \in Nat /\ reported' <= EndOf(files)
  BY <1>1, <1>2, <1>3, AtEnd
<1>6. AtLast(files[Len(files)], writer', pc', reported')
  BY <1>1, <1>2, <1>4, <1>5 DEF AtLast
<1>7. \A k \in 1 .. Len(files) : files[k].manifest.state # "cached"
  BY <1>1 DEF SegmentInv, Place, Standing
<1>8. Place' BY <1>1, <1>2, <1>3, <1>4, <1>6, <1>7 DEF Place, Standing, Steps
<1>9. QED BY <1>1, <1>4, <1>5, <1>8, FilesUntouched

(* A new file. *)
LEMMA CreateFileKeeps ==
  ASSUME SegmentInv, CreateFile
  PROVE  SegmentInv' /\ FrozenStep
<1> DEFINE g == NewFile(EndOf(files))
<1>1. /\ pc = "create" /\ files' = Append(files, NewFile(writer.next)) /\ pc' = "header"
      /\ UNCHANGED <<writer, reported, budget>>
  BY DEF CreateFile
<1>2. /\ writer.ordinal = Len(files) + 1 /\ writer.next = EndOf(files)
      /\ files # <<>> => files[Len(files)].manifest.state = "synced"
  BY <1>1 DEF SegmentInv, Place, Standing
<1>3. /\ files \in Seq(FileType) /\ Len(files) \in Nat /\ EndOf(files) \in Nat
      /\ \A k \in 1 .. Len(files) : files[k] \in FileType
      /\ writer \in WriterType /\ reported \in Nat
  BY ChainCursors DEF SegmentInv, SegmentTypes, Chain
<1>4. /\ files' \in Seq(FileType) /\ Len(files') = Len(files) + 1 /\ files' # <<>>
      /\ files'[Len(files')] = g /\ \A k \in 1 .. Len(files) : files'[k] = files[k]
      /\ Chained(files') /\ EndOf(files') = EndOf(files)
  <2>1. files' = Append(files, NewFile(EndOf(files))) BY <1>1, <1>2
  <2>2. files \in Seq(FileType) /\ Chained(files) BY <1>3 DEF SegmentInv, Chain
  <2>3. QED BY <1>2, <2>1, <2>2, NewFileContinues
<1>5. /\ g.first = EndOf(files) /\ g.recs = <<>> /\ ~g.torn /\ g.synced = 0 /\ ~g.linked
      /\ g.header = "none" /\ g.manifest.state = "none"
  BY DEF NewFile, NoManifest
<1> HIDE DEF g
<1>6. SegmentTypes' /\ Chain' BY <1>1, <1>3, <1>4 DEF SegmentInv, SegmentTypes, Chain
<1>7. FrozenStep
  <2>1. \A i \in 1 .. Len(files) : Published(files[i]) =>
            /\ i <= Len(files') /\ files'[i].first = files[i].first
            /\ files'[i].recs = files[i].recs /\ Published(files'[i])
    BY <1>3, <1>4
  <2>2. QED BY <1>4, <2>1, FilesKept DEF SegmentInv
<1>8. Place'
  <2>1. AtLast(files'[Len(files')], writer', pc', reported')
    BY <1>1, <1>2, <1>4, <1>5 DEF AtLast
  <2>2. \A k \in 1 .. Len(files') : files'[k].manifest.state # "cached"
    <3> SUFFICES ASSUME NEW k \in 1 .. Len(files')
                 PROVE  files'[k].manifest.state # "cached"
      OBVIOUS
    <3>1. CASE k \in 1 .. Len(files) BY <1>1, <1>4, <3>1 DEF SegmentInv, Place, Standing
    <3>2. CASE k = Len(files) + 1 BY <1>4, <1>5, <3>2
    <3>3. QED BY <1>3, <1>4, <3>1, <3>2
  <2>3. QED BY <1>1, <1>2, <1>4, <2>1, <2>2 DEF Place, Standing, Steps
<1>9. Barriers'
  <2>1. reported <= EndOf(files') BY <1>4 DEF SegmentInv, Barriers, Held
  <2>2. ASSUME budget.power > 0
        PROVE  /\ budget.process = 0 /\ budget.io = 0
               /\ \A k \in 1 .. Len(files') :
                    /\ ~files'[k].linked => k = Len(files')
                    /\ files'[k].header # "synced" => k = Len(files')
                    /\ files'[k].header # "cached"
                    /\ ~(files'[k].synced < Len(files'[k].recs))
                    /\ files'[k].manifest.state # "cached"
    <3>1. budget.process = 0 /\ budget.io = 0 BY <2>2 DEF SegmentInv, Barriers, Held
    <3>2. ASSUME NEW k \in 1 .. Len(files')
          PROVE  /\ ~files'[k].linked => k = Len(files')
                 /\ files'[k].header # "synced" => k = Len(files')
                 /\ files'[k].header # "cached"
                 /\ ~(files'[k].synced < Len(files'[k].recs))
                 /\ files'[k].manifest.state # "cached"
      <4>1. CASE k \in 1 .. Len(files)
        <5>1. files'[k] = files[k] /\ files # <<>> BY <1>4, <4>1
        <5>2. /\ files[k].linked /\ files[k].header # "cached"
              /\ ~(files[k].synced < Len(files[k].recs)) /\ files[k].manifest.state # "cached"
              /\ files[k].header # "synced" => k = Len(files)
          BY <1>1, <2>2, <4>1 DEF SegmentInv, Barriers, Held
        <5>3. Published(files[k])
          BY <1>2, <1>3, <4>1, <5>1 DEF SegmentInv, Chain, Chained, Published
        <5>4. FileSound(files[k]) BY <4>1 DEF SegmentInv, Chain, Chained
        <5>5. files[k].header = "synced"
          BY <1>3, <4>1, <5>2, <5>3, <5>4 DEF FileSound, FileType
        <5>6. QED BY <5>1, <5>2, <5>5
      <4>2. CASE k = Len(files) + 1 BY <1>4, <1>5, <4>2
      <4>3. QED BY <1>3, <1>4, <3>2, <4>1, <4>2
    <3>3. QED BY <3>1, <3>2
  <2>3. CursorAt(files'[Len(files')], files'[Len(files')].synced) = EndOf(files')
    BY <1>4, <1>5 DEF CursorAt
  <2>4. Held(files', pc', reported', budget') BY <1>1, <2>1, <2>2, <2>3 DEF Held
  <2>5. QED BY <2>4 DEF Barriers
<1>10. QED BY <1>6, <1>7, <1>8, <1>9 DEF SegmentInv

LEMMA WriteHeaderKeeps ==
  ASSUME SegmentInv, WriteHeader
  PROVE  SegmentInv' /\ FrozenStep
<1> DEFINE f == Current
<1> DEFINE g == [f EXCEPT !.header = "cached"]
<1>1. /\ pc = "header" /\ files' = [files EXCEPT ![writer.ordinal] = g] /\ pc' = "header_sync"
      /\ UNCHANGED <<writer, reported, budget>>
  BY DEF WriteHeader, Current
<1>2. /\ files # <<>> /\ writer.ordinal = Len(files) /\ AtLast(f, writer, pc, reported)
  BY <1>1, AtWork DEF Working
<1>3. /\ f = files[Len(files)] /\ f \in FileType /\ FileSound(f) /\ writer \in WriterType
      /\ reported \in Nat /\ reported <= next_cursor(f)
      /\ budget.power > 0 => ~(f.synced < Len(f.recs)) /\ reported <= CursorAt(f, f.synced)
  BY <1>1, <1>2, AtEnd
<1> HIDE DEF f
<1>4. writer.next = f.first /\ f.recs = <<>> /\ ~f.torn /\ Len(f.recs) = 0
  BY <1>1, <1>2 DEF AtLast
<1>5. ~Published(f) /\ ~Sealed(f) BY <1>3, <1>4 DEF FileSound, Sealed
<1>6. /\ g \in FileType /\ g.first = f.first /\ g.recs = f.recs /\ g.header = "cached" /\ g.synced = f.synced
      /\ g.torn = f.torn /\ g.linked = f.linked /\ g.manifest = f.manifest
  BY <1>3 DEF FileType
<1>7. /\ files' \in Seq(FileType) /\ Len(files') = Len(files) /\ files'[Len(files)] = g
      /\ \A k \in 1 .. Len(files) : k # Len(files) => files'[k] = files[k]
  BY <1>1, <1>2, <1>6, Replaced
<1> HIDE DEF g
<1>8. FileSound(g) /\ next_cursor(g) = next_cursor(f) /\ CursorAt(g, g.synced) = CursorAt(f, f.synced)
  <2>1. ~Sealed(g) /\ ~Published(g) BY <1>5, <1>6 DEF Sealed, Published
  <2>2. FileSound(g) BY <1>3, <1>5, <1>6, <2>1 DEF FileSound
  <2>3. QED BY <1>6, <2>2 DEF next_cursor, CursorAt
<1>9. AtLast(g, writer', pc', reported') /\ g.manifest.state # "cached"
  BY <1>1, <1>4, <1>5, <1>6 DEF AtLast, Published
<1>10. QED BY <1>1, <1>2, <1>3, <1>5, <1>6, <1>7, <1>8, <1>9, LastStep

LEMMA SyncHeaderKeeps ==
  ASSUME SegmentInv, SyncHeader
  PROVE  SegmentInv' /\ FrozenStep
<1> DEFINE f == Current
<1> DEFINE g == Synced(f)
<1>1. /\ pc = "header_sync" /\ files' = [files EXCEPT ![writer.ordinal] = g] /\ pc' = "directory_sync"
      /\ UNCHANGED <<writer, reported, budget>>
  BY DEF SyncHeader, Current
<1>2. /\ files # <<>> /\ writer.ordinal = Len(files) /\ AtLast(f, writer, pc, reported)
  BY <1>1, AtWork DEF Working
<1>3. /\ f = files[Len(files)] /\ f \in FileType /\ FileSound(f) /\ writer \in WriterType
      /\ reported \in Nat /\ reported <= next_cursor(f)
  BY <1>1, <1>2, AtEnd
<1> HIDE DEF f
<1>4. writer.next = f.first /\ f.recs = <<>> /\ ~f.torn /\ Len(f.recs) = 0 /\ f.header # "none"
  BY <1>1, <1>2 DEF AtLast
<1>5. ~Published(f) /\ f.manifest.state = "none"
  BY <1>3, <1>4 DEF FileSound, Sealed, Published
<1>6. /\ g \in FileType /\ g.first = f.first /\ g.recs = f.recs /\ g.synced = Len(f.recs)
      /\ g.torn = f.torn /\ g.linked = f.linked /\ g.manifest = f.manifest
      /\ g.header = IF f.header = "cached" THEN "synced" ELSE f.header
      /\ FileSound(g) /\ next_cursor(g) = next_cursor(f)
  BY <1>3, SyncedFields, SyncedIsSound
<1>7. /\ files' \in Seq(FileType) /\ Len(files') = Len(files) /\ files'[Len(files)] = g
      /\ \A k \in 1 .. Len(files) : k # Len(files) => files'[k] = files[k]
  BY <1>1, <1>2, <1>6, Replaced
<1> HIDE DEF g
<1>8. CursorAt(g, g.synced) = next_cursor(f) BY <1>6, WholeCursor
<1>9. AtLast(g, writer', pc', reported') /\ g.manifest.state # "cached" /\ g.header # "cached"
      /\ ~(g.synced < Len(g.recs))
  BY <1>1, <1>4, <1>5, <1>6 DEF AtLast
<1>10. QED BY <1>1, <1>2, <1>3, <1>5, <1>6, <1>7, <1>8, <1>9, LastStep

LEMMA SyncNewFileKeeps ==
  ASSUME SegmentInv, SyncNewFile
  PROVE  SegmentInv' /\ FrozenStep
<1>1. /\ pc = "directory_sync" /\ files' = LinkedFiles /\ pc' = "scan"
      /\ UNCHANGED <<writer, reported, budget>>
  BY DEF SyncNewFile
<1>2. /\ files # <<>> /\ writer.ordinal = Len(files) /\ AtLast(Current, writer, pc, reported)
  BY <1>1, AtWork DEF Working
<1>3. /\ Current = files[Len(files)] /\ writer \in WriterType /\ Len(files) \in 1 .. Len(files)
      /\ Current \in FileType /\ writer.next = Current.first
  BY <1>1, <1>2, AtEnd DEF AtLast
<1>4. /\ Len(files') = Len(files) /\ \A k \in 1 .. Len(files) : files'[k].manifest.state # "cached"
      /\ files'[Len(files)] = Linked(Current)
  BY <1>1, <1>3, AllLinked DEF SegmentInv
<1>5. files'[Len(files)].first = Current.first BY <1>3, <1>4, LinkedFields
<1>6. Place' BY <1>1, <1>2, <1>3, <1>4, <1>5 DEF Place, Standing, Steps
<1>7. QED BY <1>1, <1>3, <1>6, LinkStep

(* Publication. *)
LEMMA PublishManifestKeeps ==
  ASSUME SegmentInv, PublishManifest
  PROVE  SegmentInv' /\ FrozenStep
<1> DEFINE f == Current
<1> DEFINE m == [state |-> "cached", first |-> f.first, end |-> next_cursor(f)]
<1> DEFINE g == [f EXCEPT !.manifest = m]
<1>1. /\ pc = "publish" /\ pc' = "publish_sync" /\ UNCHANGED <<writer, reported, budget>>
      /\ files' = [files EXCEPT ![writer.ordinal] = [f EXCEPT !.manifest = sealed_manifest(f)]]
  BY DEF PublishManifest, Current
<1>2. /\ files # <<>> /\ writer.ordinal = Len(files) /\ AtLast(f, writer, pc, reported)
  BY <1>1, AtWork DEF Working
<1>3. /\ f = files[Len(files)] /\ f \in FileType /\ FileSound(f) /\ writer \in WriterType
      /\ reported \in Nat /\ reported <= next_cursor(f) /\ next_cursor(f) \in Nat /\ f.first \in Nat
      /\ budget.power > 0 => /\ f.linked /\ f.header # "cached" /\ ~(f.synced < Len(f.recs))
                             /\ reported <= CursorAt(f, f.synced)
  BY <1>1, <1>2, AtEnd
<1>4. Sealed(f) /\ ~Published(f) BY <1>1, <1>2 DEF AtLast
<1>5. files' = [files EXCEPT ![writer.ordinal] = g] BY <1>1, <1>3, <1>4, SealIsLast
<1>6. m \in ManifestType /\ m.state = "cached" /\ m.first = f.first /\ m.end = next_cursor(f)
  BY <1>3 DEF ManifestType
<1> HIDE DEF m
<1>7. /\ g \in FileType /\ g.first = f.first /\ g.recs = f.recs /\ g.header = f.header /\ g.synced = f.synced
      /\ g.torn = f.torn /\ g.linked = f.linked /\ g.manifest = m
  BY <1>3, <1>6 DEF FileType
<1>8. /\ files' \in Seq(FileType) /\ Len(files') = Len(files) /\ files'[Len(files)] = g
      /\ \A k \in 1 .. Len(files) : k # Len(files) => files'[k] = files[k]
  BY <1>2, <1>5, <1>7, Replaced
<1> HIDE DEF g, f
<1>9. /\ next_cursor(g) = next_cursor(f) /\ CursorAt(g, g.synced) = CursorAt(f, f.synced)
      /\ Sealed(g) /\ Published(g)
  BY <1>4, <1>6, <1>7 DEF Sealed, Published, next_cursor, CursorAt
<1>10. FileSound(g)
  <2>1. Row(g.recs, g.first) /\ g.synced <= Len(g.recs) BY <1>3, <1>7 DEF FileSound
  <2>2. g.header # "none" /\ ~g.torn BY <1>3, <1>4, <1>7 DEF FileSound, Sealed
  <2>3. QED BY <1>6, <1>7, <1>9, <2>1, <2>2 DEF FileSound
<1>11. AtLast(g, writer', pc', reported')
  <2>1. /\ writer.next = IF writer.then = "scan" THEN f.first ELSE next_cursor(f)
        /\ writer.then # "scan" => reported = writer.next
    BY <1>1, <1>2 DEF AtLast, Told
  <2>2. QED BY <1>1, <1>7, <1>9, <2>1 DEF AtLast, Told
<1>12. QED BY <1>1, <1>2, <1>3, <1>4, <1>7, <1>8, <1>9, <1>10, <1>11, LastStep

LEMMA SyncManifestKeeps ==
  ASSUME SegmentInv, SyncManifest
  PROVE  SegmentInv' /\ FrozenStep
<1> DEFINE f == Current
<1>1. /\ pc = "publish_sync" /\ files' = LinkedFiles /\ pc' = writer.then
      /\ UNCHANGED <<writer, reported, budget>>
  BY DEF SyncManifest
<1>2. /\ files # <<>> /\ writer.ordinal = Len(files) /\ AtLast(f, writer, pc, reported)
  BY <1>1, AtWork DEF Working
<1>3. /\ f = files[Len(files)] /\ writer \in WriterType /\ Len(files) \in 1 .. Len(files)
      /\ f \in FileType /\ FileSound(f)
  BY <1>1, <1>2, AtEnd
<1> HIDE DEF f
<1>4. /\ Sealed(f) /\ Published(f) /\ writer.then \in {"scan", "ready"}
      /\ IF writer.then = "scan" THEN writer.next = f.first ELSE Told(f, writer, reported)
  BY <1>1, <1>2, <1>3 DEF AtLast, WriterType
<1>5. f.header # "none" /\ ~f.torn BY <1>3, <1>4 DEF FileSound
<1>6. /\ Len(files') = Len(files) /\ files' # <<>>
      /\ \A k \in 1 .. Len(files) : files'[k].manifest.state # "cached"
      /\ files'[Len(files)] = Linked(f)
  BY <1>1, <1>2, <1>3, AllLinked DEF SegmentInv
<1>7. /\ files'[Len(files)].first = f.first /\ files'[Len(files)].header = f.header
      /\ files'[Len(files)].torn = f.torn
      /\ next_cursor(files'[Len(files)]) = next_cursor(f)
  BY <1>3, <1>6, LinkedFields, LinkedIsSound
<1>8. AtLast(files'[Len(files)], writer', pc', reported')
  BY <1>1, <1>4, <1>5, <1>7 DEF AtLast, Told
<1>9. Place' BY <1>1, <1>2, <1>3, <1>4, <1>6, <1>7, <1>8 DEF Place, Standing, Steps
<1>10. QED BY <1>1, <1>3, <1>4, <1>9, LinkStep

(* Writing. *)
LEMMA RotateKeeps ==
  ASSUME SegmentInv, Rotate
  PROVE  SegmentInv' /\ FrozenStep
<1>1. /\ pc = "ready" /\ writer' = [writer EXCEPT !.next = Current.first] /\ pc' = "scan"
      /\ UNCHANGED <<files, reported, budget>>
  BY DEF Rotate
<1>2. /\ files # <<>> /\ writer.ordinal = Len(files) BY <1>1, AtWork DEF Working
<1>3. /\ Current = files[Len(files)] /\ writer \in WriterType /\ Len(files) \in 1 .. Len(files)
      /\ Current.first \in Nat /\ reported \in Nat /\ reported <= EndOf(files)
  BY <1>1, <1>2, AtEnd
<1>4. /\ writer' \in WriterType /\ writer'.ordinal = Len(files) /\ writer'.next = Current.first
  BY <1>1, <1>2, <1>3 DEF WriterType
<1>5. \A k \in 1 .. Len(files) : files[k].manifest.state # "cached"
  BY <1>1 DEF SegmentInv, Place, Standing
<1>6. Place' BY <1>1, <1>3, <1>4, <1>5 DEF Place, Standing, Steps
<1>7. QED BY <1>1, <1>3, <1>4, <1>6, FilesUntouched

(* A group or the seal that finish_window stages continues the last file. *)
LEMMA StagedKeeps ==
  ASSUME SegmentInv, pc = "ready", sealed_windows(Current) = {}, pc' = "writing",
         UNCHANGED <<files, reported, budget>>,
         NEW b \in Seq(RecordType), b # <<>>, Row(b, writer.next),
         writer' = [writer EXCEPT !.batch = b]
  PROVE  SegmentInv' /\ FrozenStep
<1>1. /\ files # <<>> /\ writer.ordinal = Len(files) /\ AtLast(Current, writer, pc, reported)
  BY AtWork DEF Working
<1>2. /\ Current = files[Len(files)] /\ writer \in WriterType /\ Len(files) \in 1 .. Len(files)
      /\ Current \in FileType /\ FileSound(Current)
      /\ reported \in Nat /\ reported <= EndOf(files)
  BY <1>1, AtEnd
<1>3. /\ writer' \in WriterType /\ writer'.ordinal = Len(files) /\ writer'.batch = b
  BY <1>1, <1>2 DEF WriterType
<1>4. ~Sealed(Current)
  <2>1. sealed_windows(Current) = IF Sealed(Current) THEN {Len(Current.recs)} ELSE {}
    BY <1>2, SealIsLast
  <2>2. QED BY <2>1
<1>5. writer.next = next_cursor(Current) /\ Current.header # "none"
  BY <1>1 DEF AtLast, Told
<1>6. AtLast(files[Len(files)], writer', pc', reported')
  BY <1>2, <1>3, <1>4, <1>5 DEF AtLast
<1>7. \A k \in 1 .. Len(files) : files[k].manifest.state # "cached"
  BY DEF SegmentInv, Place, Standing
<1>8. Place' BY <1>1, <1>2, <1>3, <1>6, <1>7 DEF Place, Standing, Steps
<1>9. QED BY <1>2, <1>3, <1>8, FilesUntouched

LEMMA RecordFields ==
  ASSUME NEW a \in Nat, NEW e \in BOOLEAN
  PROVE  /\ Record(a, e) \in RecordType /\ Record(a, e).at = a
         /\ Record(a, e).end = Record(a, e).at + 1 /\ Record(a, e).seals = e
BY DEF Record, RecordType

LEMMA StageKeeps ==
  ASSUME SegmentInv, Stage
  PROVE  SegmentInv' /\ FrozenStep
<1>1. /\ pc = "ready" /\ sealed_windows(Current) = {} /\ pc' = "writing"
      /\ UNCHANGED <<files, reported, budget>>
  BY DEF Stage
<1>2. PICK n \in 1 .. MaxBatch, ends \in BOOLEAN :
        writer' = [writer EXCEPT !.batch = [i \in 1 .. n |-> Record(writer.next + i - 1, ends /\ i = n)]]
  BY DEF Stage
<1> DEFINE b == [i \in 1 .. n |-> Record(writer.next + i - 1, ends /\ i = n)]
<1>3. writer.next \in Nat /\ n \in Nat \ {0}
  BY BoundsAssumption DEF SegmentInv, SegmentTypes, WriterType
<1>4. \A i \in 1 .. n : /\ b[i] \in RecordType /\ b[i].at = writer.next + (i - 1)
                        /\ b[i].end = b[i].at + 1 /\ (b[i].seals => i = n)
  <2> SUFFICES ASSUME NEW i \in 1 .. n
               PROVE  /\ b[i] \in RecordType /\ b[i].at = writer.next + (i - 1)
                      /\ b[i].end = b[i].at + 1 /\ (b[i].seals => i = n)
    OBVIOUS
  <2>1. /\ writer.next + i - 1 \in Nat /\ writer.next + i - 1 + 1 \in Nat
        /\ writer.next + i - 1 = writer.next + (i - 1)
    BY <1>3
  <2>2. (ends /\ i = n) \in BOOLEAN OBVIOUS
  <2>3. b[i] = Record(writer.next + i - 1, ends /\ i = n) OBVIOUS
  <2> HIDE DEF b
  <2>4. /\ b[i] \in RecordType /\ b[i].at = writer.next + i - 1 /\ b[i].end = b[i].at + 1
        /\ b[i].seals <=> (ends /\ i = n)
    BY ZenonT(30), <2>1, <2>2, <2>3, RecordFields
  <2>5. QED BY <2>1, <2>4
<1>5. b \in Seq(RecordType) /\ Len(b) = n /\ b # <<>>
  <2>1. b \in [1 .. n -> RecordType] BY <1>4
  <2>2. b \in Seq(RecordType) /\ Len(b) = n BY <1>3, <2>1
  <2>3. QED BY <1>3, <2>2
<1>6. Row(b, writer.next) BY <1>4, <1>5 DEF Row
<1>7. writer' = [writer EXCEPT !.batch = b] BY <1>2
<1> HIDE DEF b
<1>8. QED BY <1>1, <1>5, <1>6, <1>7, StagedKeeps

LEMMA FinishWindowKeeps ==
  ASSUME SegmentInv, FinishWindow
  PROVE  SegmentInv' /\ FrozenStep
<1> DEFINE b == <<WindowSeal(writer.next)>>
<1>1. /\ pc = "ready" /\ sealed_windows(Current) = {} /\ pc' = "writing"
      /\ writer' = [writer EXCEPT !.batch = b] /\ UNCHANGED <<files, reported, budget>>
  BY DEF FinishWindow
<1>2. writer.next \in Nat BY DEF SegmentInv, SegmentTypes, WriterType
<1>3. b \in Seq(RecordType) /\ b # <<>> /\ Len(b) = 1 /\ b[1] = WindowSeal(writer.next)
  BY <1>2 DEF WindowSeal, RecordType
<1> HIDE DEF b
<1>4. Row(b, writer.next) BY <1>2, <1>3 DEF Row, WindowSeal
<1>5. QED BY <1>1, <1>3, <1>4, StagedKeeps

LEMMA AppendPartKeeps ==
  ASSUME SegmentInv, AppendPart
  PROVE  SegmentInv' /\ FrozenStep
<1> DEFINE f == Current
<1> DEFINE g == [f EXCEPT !.torn = TRUE]
<1>1. /\ pc = "writing" /\ files' = [files EXCEPT ![writer.ordinal] = g]
      /\ UNCHANGED <<writer, pc, reported, budget>>
  BY DEF AppendPart, Current
<1>2. /\ files # <<>> /\ writer.ordinal = Len(files) /\ AtLast(f, writer, pc, reported)
  BY <1>1, AtWork DEF Working
<1>3. /\ f = files[Len(files)] /\ f \in FileType /\ FileSound(f) /\ writer \in WriterType
      /\ reported \in Nat /\ reported <= next_cursor(f)
      /\ budget.power > 0 => f.linked /\ f.header # "cached" /\ reported <= CursorAt(f, f.synced)
  BY <1>1, <1>2, AtEnd
<1> HIDE DEF f
<1>4. /\ ~Sealed(f) /\ writer.batch # <<>> /\ Row(writer.batch, next_cursor(f)) /\ f.header # "none"
  BY <1>1, <1>2 DEF AtLast
<1>5. ~Published(f) BY <1>3, <1>4 DEF FileSound
<1>6. /\ g \in FileType /\ g.first = f.first /\ g.recs = f.recs /\ g.header = f.header /\ g.synced = f.synced
      /\ g.linked = f.linked /\ g.manifest = f.manifest
  BY <1>3 DEF FileType
<1>7. /\ files' \in Seq(FileType) /\ Len(files') = Len(files) /\ files'[Len(files)] = g
      /\ \A k \in 1 .. Len(files) : k # Len(files) => files'[k] = files[k]
  BY <1>1, <1>2, <1>6, Replaced
<1> HIDE DEF g
<1>8. ~Sealed(g) /\ ~Published(g) /\ g.header # "none"
  BY <1>4, <1>5, <1>6 DEF Sealed, Published
<1>9. FileSound(g) /\ next_cursor(g) = next_cursor(f) /\ CursorAt(g, g.synced) = CursorAt(f, f.synced)
  <2>1. FileSound(g) BY <1>3, <1>5, <1>6, <1>8 DEF FileSound
  <2>2. QED BY <1>6, <2>1 DEF next_cursor, CursorAt
<1>10. AtLast(g, writer', pc', reported') /\ g.manifest.state # "cached"
  BY <1>1, <1>4, <1>8, <1>9 DEF AtLast, Published
<1>11. QED BY <1>1, <1>2, <1>3, <1>5, <1>6, <1>7, <1>8, <1>9, <1>10, LastStep

LEMMA AppendRecordKeeps ==
  ASSUME SegmentInv, AppendRecord
  PROVE  SegmentInv' /\ FrozenStep
<1> DEFINE f == Current
<1> DEFINE b == writer.batch
<1> DEFINE rows == Append(f.recs, Head(b))
<1> DEFINE g == [f EXCEPT !.recs = rows, !.torn = FALSE]
<1>1. /\ pc = "writing" /\ files' = [files EXCEPT ![writer.ordinal].recs = Append(@, Head(b)),
                                                  ![writer.ordinal].torn = FALSE]
      /\ writer' = [writer EXCEPT !.batch = Tail(@)]
      /\ pc' = IF Len(b) = 1 THEN "written" ELSE "writing"
      /\ UNCHANGED <<reported, budget>>
  BY DEF AppendRecord
<1>2. /\ files # <<>> /\ writer.ordinal = Len(files) /\ AtLast(f, writer, pc, reported)
  BY <1>1, AtWork DEF Working
<1>3. /\ f = files[Len(files)] /\ f \in FileType /\ FileSound(f) /\ writer \in WriterType
      /\ files \in Seq(FileType) /\ Len(files) \in 1 .. Len(files)
      /\ reported \in Nat /\ reported <= next_cursor(f) /\ next_cursor(f) \in Nat /\ f.first \in Nat
      /\ budget.power > 0 => f.linked /\ f.header # "cached" /\ reported <= CursorAt(f, f.synced)
  BY <1>1, <1>2, AtEnd
<1>4. files' = [files EXCEPT ![writer.ordinal] = g]
  <2>1. files[writer.ordinal] = f BY <1>2, <1>3
  <2>2. QED BY <1>1, <1>2, <1>3, <2>1 DEF FileType
<1>5. /\ ~Sealed(f) /\ b # <<>> /\ Row(b, next_cursor(f)) /\ f.header # "none"
  BY <1>1, <1>2 DEF AtLast
<1> HIDE DEF f
<1>6. ~Published(f) /\ f.manifest = NoManifest BY <1>3, <1>5 DEF FileSound
<1>7. /\ b \in Seq(RecordType) /\ f.recs \in Seq(RecordType) /\ Len(b) \in Nat \ {0}
      /\ Len(f.recs) \in Nat /\ f.synced \in Nat /\ f.synced <= Len(f.recs)
  BY <1>3, <1>5, WholeCursor DEF WriterType, FileType
<1> HIDE DEF b
<1>8. Head(b) = b[1] /\ b[1] \in RecordType BY <1>7
<1>9. /\ rows \in Seq(RecordType) /\ Len(rows) = Len(f.recs) + 1 /\ rows[Len(rows)] = b[1]
      /\ \A j \in 1 .. Len(f.recs) : rows[j] = f.recs[j]
  BY <1>7, <1>8
<1> HIDE DEF rows
<1>10. next_cursor(f) = f.first + Len(f.recs) BY <1>3, <1>5, FileCursor
<1>11. /\ b[1].at = f.first + Len(f.recs)
       /\ b[1].end = b[1].at + 1 \/ (b[1].end = b[1].at /\ b[1].seals)
       /\ b[1].seals => Len(b) = 1
  <2>1. 1 \in 1 .. Len(b) BY <1>7
  <2>2. /\ b[1].at = next_cursor(f) + (1 - 1)
        /\ b[1].end = b[1].at + 1 \/ (b[1].end = b[1].at /\ b[1].seals)
        /\ b[1].seals => 1 = Len(b)
    BY <1>5, <2>1 DEF Row
  <2>3. QED BY <1>3, <1>10, <2>2
<1>12. /\ b[1].at \in Nat /\ b[1].end \in Nat /\ b[1].seals \in BOOLEAN
  BY <1>8 DEF RecordType
<1>13. /\ g \in FileType /\ g.first = f.first /\ g.recs = rows /\ g.header = f.header /\ g.synced = f.synced
       /\ g.linked = f.linked /\ g.manifest = f.manifest /\ ~g.torn
  BY <1>3, <1>9 DEF FileType
<1>14. /\ files' \in Seq(FileType) /\ Len(files') = Len(files) /\ files'[Len(files)] = g
       /\ \A k \in 1 .. Len(files) : k # Len(files) => files'[k] = files[k]
  BY <1>2, <1>4, <1>13, Replaced
<1> HIDE DEF g
<1>15. Row(g.recs, g.first)
  <2> SUFFICES ASSUME NEW j \in 1 .. Len(rows)
               PROVE  /\ rows[j].at = f.first + (j - 1)
                      /\ rows[j].end = rows[j].at + 1 \/ (rows[j].end = rows[j].at /\ rows[j].seals)
                      /\ rows[j].seals => j = Len(rows)
    BY <1>13 DEF Row
  <2>1. CASE j = Len(rows) BY <1>7, <1>9, <1>11, <2>1
  <2>2. CASE j # Len(rows)
    <3>1. j \in 1 .. Len(f.recs) BY <1>7, <1>9, <2>2
    <3>2. /\ f.recs[j].at = f.first + (j - 1)
          /\ f.recs[j].end = f.recs[j].at + 1 \/ (f.recs[j].end = f.recs[j].at /\ f.recs[j].seals)
          /\ f.recs[j].seals => j = Len(f.recs)
      BY <1>3, <3>1 DEF FileSound, Row
    <3>3. ~f.recs[j].seals
      <4>1. f.recs[j].seals => f.recs # <<>> /\ f.recs[Len(f.recs)].seals
        BY <1>7, <3>1, <3>2
      <4>2. QED BY <1>5, <4>1 DEF Sealed
    <3>4. QED BY <1>9, <3>1, <3>2, <3>3
  <2>3. QED BY <2>1, <2>2
<1>16. Sealed(g) <=> b[1].seals
  <2>1. rows # <<>> BY <1>7, <1>9
  <2>2. QED BY <1>9, <1>13, <2>1 DEF Sealed
<1>17. FileSound(g) /\ ~Published(g)
  <2>1. g.synced <= Len(g.recs) BY <1>7, <1>9, <1>13
  <2>2. ~Published(g) BY <1>6, <1>13 DEF Published
  <2>3. QED BY <1>5, <1>6, <1>13, <1>15, <2>1, <2>2 DEF FileSound
<1>18. next_cursor(g) = b[1].end /\ reported <= next_cursor(g) /\ next_cursor(f) <= b[1].end
  <2>1. rows # <<>> /\ Len(g.recs) = Len(rows) BY <1>7, <1>9, <1>13
  <2>2. next_cursor(g) = b[1].end BY <1>9, <1>13, <1>17, <2>1, FileCursor
  <2>3. QED BY <1>3, <1>10, <1>11, <1>12, <2>2
<1>19. CursorAt(g, g.synced) = CursorAt(f, f.synced)
  <2>1. f.synced # 0 => f.synced \in 1 .. Len(f.recs) BY <1>7
  <2>2. QED BY <1>9, <1>13, <2>1 DEF CursorAt
<1> DEFINE t == Tail(b)
<1>20. /\ t \in Seq(RecordType) /\ Len(t) = Len(b) - 1
       /\ \A j \in 1 .. Len(b) - 1 : t[j] = b[j + 1]
  BY <1>7
<1> HIDE DEF t
<1>21. /\ writer' \in WriterType /\ writer'.ordinal = writer.ordinal /\ writer'.batch = t
  <2>1. writer' = [writer EXCEPT !.batch = t] BY <1>1 DEF b, t
  <2>2. QED BY <1>3, <1>20, <2>1 DEF WriterType
<1>22. AtLast(g, writer', pc', reported')
  <2>1. CASE Len(b) = 1
    <3>1. g.recs # <<>> BY <1>7, <1>9, <1>13
    <3>2. pc' = "written" BY <1>1, <2>1
    <3>3. QED BY <1>5, <1>13, <1>17, <3>1, <3>2 DEF AtLast
  <2>2. CASE Len(b) # 1
    <3>1. pc' = "writing" /\ ~b[1].seals /\ b[1].end = b[1].at + 1 BY <1>1, <1>11, <2>2
    <3>2. t # <<>> BY <1>7, <1>20, <2>2
    <3>3. Row(t, next_cursor(g))
      <4> SUFFICES ASSUME NEW j \in 1 .. Len(t)
                   PROVE  /\ t[j].at = next_cursor(g) + (j - 1)
                          /\ \/ t[j].end = t[j].at + 1
                             \/ t[j].end = t[j].at /\ t[j].seals
                          /\ t[j].seals => j = Len(t)
        BY DEF Row
      <4>1. j \in 1 .. Len(b) - 1 /\ j + 1 \in 1 .. Len(b) BY <1>7, <1>20
      <4>2. /\ b[j + 1].at = next_cursor(f) + ((j + 1) - 1)
            /\ b[j + 1].end = b[j + 1].at + 1 \/ (b[j + 1].end = b[j + 1].at /\ b[j + 1].seals)
            /\ b[j + 1].seals => j + 1 = Len(b)
        BY <1>5, <4>1 DEF Row
      <4>3. next_cursor(g) = next_cursor(f) + 1 BY <1>10, <1>11, <1>18, <3>1
      <4>4. next_cursor(f) + ((j + 1) - 1) = next_cursor(g) + (j - 1)
        BY <1>3, <4>1, <4>3
      <4>5. t[j] = b[j + 1] /\ (j + 1 = Len(b) => j = Len(t)) BY <1>7, <1>20, <4>1
      <4>6. QED BY <4>2, <4>4, <4>5
    <3>4. ~Sealed(g) /\ g.header # "none" BY <1>5, <1>13, <1>16, <3>1
    <3>5. QED BY <1>21, <3>1, <3>2, <3>3, <3>4 DEF AtLast
  <2>3. QED BY <2>1, <2>2
<1>23. g.manifest.state # "cached" BY <1>17 DEF Published
<1>24. reported' = reported /\ reported' \in Nat /\ reported' <= next_cursor(g) /\ UNCHANGED budget
       /\ pc' \in {"written", "writing"}
  BY <1>1, <1>3, <1>18
<1>25. QED
  BY <1>2, <1>3, <1>6, <1>13, <1>14, <1>17, <1>19, <1>21, <1>22, <1>23, <1>24, LastStep

LEMMA SyncKeeps ==
  ASSUME SegmentInv, Sync
  PROVE  SegmentInv' /\ FrozenStep
<1> DEFINE f == Current
<1> DEFINE g == Synced(f)
<1>1. /\ pc = "written" /\ files' = [files EXCEPT ![writer.ordinal] = g] /\ UNCHANGED budget
      /\ writer' = [writer EXCEPT !.next = next_cursor(f), !.then = "ready"]
      /\ reported' = Max({reported, next_cursor(f)})
      /\ pc' = IF Last(f.recs) = WindowSeal(next_cursor(f)) THEN "publish" ELSE "ready"
  BY DEF Sync, Current
<1>2. /\ files # <<>> /\ writer.ordinal = Len(files) /\ AtLast(f, writer, pc, reported)
  BY <1>1, AtWork DEF Working
<1>3. /\ f = files[Len(files)] /\ f \in FileType /\ FileSound(f) /\ writer \in WriterType
      /\ reported \in Nat /\ reported <= next_cursor(f) /\ next_cursor(f) \in Nat
      /\ budget.power > 0 => f.linked
  BY <1>1, <1>2, AtEnd
<1> HIDE DEF f
<1>4. f.header # "none" /\ ~f.torn /\ f.recs # <<>> /\ ~Published(f)
  BY <1>1, <1>2 DEF AtLast
<1>5. /\ g \in FileType /\ g.first = f.first /\ g.recs = f.recs /\ g.synced = Len(f.recs)
      /\ g.torn = f.torn /\ g.linked = f.linked /\ g.manifest = f.manifest
      /\ g.header = IF f.header = "cached" THEN "synced" ELSE f.header
      /\ FileSound(g) /\ next_cursor(g) = next_cursor(f) /\ (Sealed(g) <=> Sealed(f))
      /\ (Published(g) <=> Published(f))
  BY <1>3, SyncedFields, SyncedIsSound
<1>6. /\ files' \in Seq(FileType) /\ Len(files') = Len(files) /\ files'[Len(files)] = g
      /\ \A k \in 1 .. Len(files) : k # Len(files) => files'[k] = files[k]
  BY <1>1, <1>2, <1>5, Replaced
<1> HIDE DEF g
<1>7. reported' = next_cursor(f) BY <1>1, <1>3, LargestOfTwo
<1>8. CursorAt(g, g.synced) = next_cursor(f) /\ ~(g.synced < Len(g.recs))
  BY <1>3, <1>5, WholeCursor, FileCursor
<1>9. /\ writer' \in WriterType /\ writer'.ordinal = writer.ordinal /\ writer'.next = next_cursor(f)
      /\ writer'.then = "ready"
  BY <1>1, <1>3 DEF WriterType
<1>10. pc' = "publish" => Sealed(g)
  <2>1. ASSUME Last(f.recs) = WindowSeal(next_cursor(f)) PROVE f.recs[Len(f.recs)].seals
    BY <2>1 DEF WindowSeal, Last
  <2>2. QED BY <1>1, <1>4, <1>5, <2>1 DEF Sealed
<1>11. pc' \in {"publish", "ready"} BY <1>1
<1>12. AtLast(g, writer', pc', reported')
  BY <1>4, <1>5, <1>7, <1>9, <1>10, <1>11 DEF AtLast, Told
<1>13. g.manifest.state # "cached" /\ g.header # "cached" BY <1>4, <1>5 DEF Published
<1>14. reported' \in Nat /\ reported' <= next_cursor(g) /\ UNCHANGED budget /\ (budget.power > 0 => g.linked)
  BY <1>1, <1>3, <1>5, <1>7
<1>15. reported' <= CursorAt(g, g.synced) BY <1>3, <1>7, <1>8
<1>16. QED
  BY <1>2, <1>3, <1>4, <1>5, <1>6, <1>8, <1>9, <1>11, <1>12, <1>13, <1>14, <1>15, LastStep

(* Failures. *)
LEMMA Spent ==
  ASSUME budget \in BudgetType, NEW kind \in {"process", "power", "io"}, Spend(kind)
  PROVE  /\ budget' \in BudgetType /\ budget[kind] > 0
         /\ kind # "process" => budget'.process = budget.process
         /\ kind # "power" => budget'.power = budget.power
         /\ kind # "io" => budget'.io = budget.io
<1>1. CASE kind = "process" BY <1>1 DEF Spend, BudgetType
<1>2. CASE kind = "power" BY <1>2 DEF Spend, BudgetType
<1>3. CASE kind = "io" BY <1>3 DEF Spend, BudgetType
<1>4. QED BY <1>1, <1>2, <1>3

LEMMA StopKeeps ==
  ASSUME SegmentInv, IoFails \/ CrashProcess
  PROVE  SegmentInv' /\ FrozenStep
<1>1. /\ UNCHANGED <<files, writer, reported>> /\ pc' \in {"down", "failed"}
      /\ Spend("io") \/ Spend("process")
  BY DEF IoFails, CrashProcess
<1>2. budget \in BudgetType BY DEF SegmentInv, SegmentTypes
<1>3. budget' \in BudgetType /\ budget'.power = budget.power /\ (budget.io > 0 \/ budget.process > 0)
  <2>1. CASE Spend("io") BY <1>2, <2>1, Spent
  <2>2. CASE Spend("process") BY <1>2, <2>2, Spent
  <2>3. QED BY <1>1, <2>1, <2>2
<1>4. ~(budget'.power > 0) BY <1>2, <1>3 DEF SegmentInv, Barriers, Held, BudgetType
<1>5. SegmentTypes' /\ Chain' BY <1>1, <1>3 DEF SegmentInv, SegmentTypes, Chain
<1>6. Place' BY <1>1 DEF SegmentInv, Place, Standing, Steps
<1>7. Barriers' BY <1>1, <1>4 DEF SegmentInv, Barriers, Held
<1>8. FrozenStep BY <1>1, UnchangedFrozen DEF SegmentInv
<1>9. QED BY <1>5, <1>6, <1>7, <1>8 DEF SegmentInv

(* What a loss of power leaves of one file. *)
LEMMA Survivor ==
  ASSUME NEW f \in FileType, FileSound(f), NEW g \in Survivors(f),
         Published(f) => f.synced = Len(f.recs), f.header = "cached" => f.recs = <<>>
  PROVE  /\ g \in FileType /\ FileSound(g) /\ g.first = f.first /\ g.linked
         /\ g.synced = Len(g.recs) /\ f.synced <= g.synced /\ g.synced <= Len(f.recs)
         /\ \A j \in 1 .. g.synced : g.recs[j] = f.recs[j]
         /\ g.header # "cached" /\ (f.header = "synced" => g.header = "synced")
         /\ g.manifest.state # "cached"
         /\ f.manifest.state = "synced" => g.manifest.state = "synced"
         /\ f.synced = Len(f.recs) => g.recs = f.recs
         /\ Published(f) => /\ g.recs = f.recs /\ ~g.torn
                            /\ Published(g) \/ (f.manifest.state = "cached" /\ g.manifest = NoManifest)
<1>1. /\ f.recs \in Seq(RecordType) /\ Len(f.recs) \in Nat /\ f.synced \in Nat /\ f.synced <= Len(f.recs)
      /\ f.manifest \in ManifestType /\ f.torn \in BOOLEAN /\ (f.recs = <<>> <=> Len(f.recs) = 0)
  BY WholeCursor, FileCursor DEF FileType
<1> DEFINE H == IF f.header = "cached" THEN {"none", "synced"} ELSE {f.header}
<1> DEFINE S == IF f.manifest.state = "cached" THEN {"none", "synced"} ELSE {f.manifest.state}
<1>0. g \in {x \in {Left(f, h, k, t, s) : h \in H, k \in f.synced .. Len(f.recs), t \in BOOLEAN, s \in S} :
               /\ x.torn => x.synced < Len(f.recs) \/ f.torn
               /\ x.header = "none" => x.recs = <<>> /\ ~x.torn}
  BY DEF Survivors
<1>3. /\ g.torn => g.synced < Len(f.recs) \/ f.torn
      /\ g.header = "none" => g.recs = <<>> /\ ~g.torn
  <2> HIDE DEF H, S
  <2> QED BY <1>0
<1>2. PICK h \in H, k \in f.synced .. Len(f.recs), t \in BOOLEAN, s \in S : g = Left(f, h, k, t, s)
  <2> HIDE DEF H, S
  <2> QED BY <1>0
<1> DEFINE m == IF s = "none" THEN NoManifest ELSE [f.manifest EXCEPT !.state = s]
<1> DEFINE rows == SubSeq(f.recs, 1, k)
<1>4. /\ m \in ManifestType /\ m.state = s /\ s \in {"none", "synced"}
      /\ s = "none" => m = NoManifest
      /\ s = "synced" => m.first = f.manifest.first /\ m.end = f.manifest.end
  BY <1>1 DEF ManifestType, NoManifest
<1>5. /\ rows \in Seq(RecordType) /\ Len(rows) = k /\ k \in Nat /\ k <= Len(f.recs) /\ f.synced <= k
      /\ \A j \in 1 .. k : rows[j] = f.recs[j]
      /\ k = Len(f.recs) => rows = f.recs
  BY <1>1
<1>6. g = [f EXCEPT !.header = h, !.recs = rows, !.synced = k, !.torn = t, !.linked = TRUE, !.manifest = m]
  BY <1>2 DEF Left
<1> HIDE DEF m, rows
<1>7. /\ h \in {"none", "synced"} /\ (f.header = "synced" => h = "synced") /\ (f.header = "none" => h = "none")
  BY DEF FileType
<1>8. /\ g \in FileType /\ g.first = f.first /\ g.header = h /\ g.recs = rows /\ g.synced = k /\ g.torn = t
      /\ g.linked /\ g.manifest = m
  BY <1>4, <1>5, <1>6, <1>7 DEF FileType
<1>9. Row(g.recs, g.first)
  <2> SUFFICES ASSUME NEW j \in 1 .. k
               PROVE  /\ rows[j].at = f.first + (j - 1)
                      /\ rows[j].end = rows[j].at + 1 \/ (rows[j].end = rows[j].at /\ rows[j].seals)
                      /\ rows[j].seals => j = k
    BY <1>5, <1>8 DEF Row
  <2>1. j \in 1 .. Len(f.recs) /\ rows[j] = f.recs[j] BY <1>1, <1>5
  <2>2. /\ f.recs[j].at = f.first + (j - 1)
        /\ f.recs[j].end = f.recs[j].at + 1 \/ (f.recs[j].end = f.recs[j].at /\ f.recs[j].seals)
        /\ f.recs[j].seals => j = Len(f.recs)
    BY <2>1 DEF FileSound, Row
  <2>3. QED BY <1>1, <1>5, <2>1, <2>2
<1>10. Sealed(g) => k = Len(f.recs) /\ g.recs = f.recs /\ Sealed(f)
  <2> SUFFICES ASSUME Sealed(g) PROVE k = Len(f.recs) BY <1>5, <1>8 DEF Sealed
  <2>1. k # 0 /\ rows[k].seals BY <1>5, <1>8 DEF Sealed
  <2>2. k \in 1 .. Len(f.recs) /\ rows[k] = f.recs[k] BY <1>1, <1>5, <2>1
  <2>3. QED BY <2>1, <2>2 DEF FileSound, Row
<1>11. Published(f) => /\ k = Len(f.recs) /\ g.recs = f.recs /\ Sealed(g) /\ ~g.torn /\ g.header # "none"
  <2> SUFFICES ASSUME Published(f)
               PROVE  /\ k = Len(f.recs) /\ g.recs = f.recs /\ Sealed(g) /\ ~g.torn /\ g.header # "none"
    OBVIOUS
  <2>1. k = Len(f.recs) /\ g.recs = f.recs BY <1>1, <1>5, <1>8
  <2>2. Sealed(f) /\ ~f.torn BY DEF FileSound
  <2>3. Sealed(g) /\ g.recs # <<>> BY <2>1, <2>2 DEF Sealed
  <2>4. ~g.torn BY <1>1, <1>3, <1>8, <2>1, <2>2
  <2>5. QED BY <1>3, <2>1, <2>3, <2>4
<1>12. Published(g) => s = "synced" /\ Published(f) BY <1>4, <1>8 DEF Published
<1>13. g.torn => ~Sealed(g)
  <2> SUFFICES ASSUME g.torn, Sealed(g) PROVE FALSE OBVIOUS
  <2>1. f.torn BY <1>1, <1>3, <1>8, <1>10
  <2>2. QED BY <1>10, <2>1 DEF FileSound
<1>14. IF Published(g) THEN /\ Sealed(g)
                           /\ g.manifest.first = g.first /\ g.manifest.end = next_cursor(g)
       ELSE g.manifest = NoManifest
  <2>1. CASE Published(g)
    <3>1. f.manifest.first = f.first /\ f.manifest.end = next_cursor(f)
      BY <1>12, <2>1 DEF FileSound
    <3>2. next_cursor(g) = next_cursor(f) BY <1>8, <1>11, <1>12, <2>1 DEF next_cursor
    <3>3. QED BY <1>4, <1>8, <1>11, <1>12, <2>1, <3>1, <3>2
  <2>2. CASE ~Published(g) BY <1>4, <1>8, <2>2 DEF Published
  <2>3. QED BY <2>1, <2>2
<1>15. FileSound(g)
  <2>1. g.synced <= Len(g.recs) BY <1>5, <1>8
  <2>2. g.header = "none" => g.recs = <<>> /\ ~g.torn /\ ~Published(g)
    BY <1>3, <1>11, <1>12
  <2>3. QED BY <1>9, <1>13, <1>14, <2>1, <2>2 DEF FileSound
<1>16. f.manifest.state = "synced" => g.manifest.state = "synced" BY <1>4, <1>8
<1>17. Published(f) => Published(g) \/ (f.manifest.state = "cached" /\ g.manifest = NoManifest)
  BY <1>4, <1>8 DEF Published
<1>18. f.synced = Len(f.recs) => g.recs = f.recs BY <1>1, <1>5, <1>8
<1>19. QED BY <1>4, <1>5, <1>7, <1>8, <1>11, <1>15, <1>16, <1>17, <1>18

LEMMA CursorsGrow ==
  ASSUME NEW f \in FileType, FileSound(f), NEW g \in FileType, FileSound(g), g.first = f.first,
         f.synced <= Len(g.recs), Len(g.recs) <= Len(f.recs),
         \A j \in 1 .. Len(g.recs) : g.recs[j] = f.recs[j]
  PROVE  /\ CursorAt(f, f.synced) \in Nat /\ CursorAt(f, f.synced) <= next_cursor(g)
<1> DEFINE k == f.synced
<1> DEFINE l == Len(g.recs)
<1>1. k \in Nat /\ l \in Nat /\ f.first \in Nat /\ Len(f.recs) \in Nat
  BY WholeCursor, FileCursor
<1>2. next_cursor(g) \in Nat /\ g.first <= next_cursor(g) BY FileCursor
<1>3. CASE k = 0 BY <1>1, <1>2, <1>3 DEF CursorAt
<1>4. CASE k # 0
  <2>1. k \in 1 .. l /\ l \in 1 .. l /\ k \in 1 .. Len(f.recs) /\ l \in 1 .. Len(f.recs)
    BY <1>1, <1>4
  <2>2. CursorAt(f, k) = f.recs[k].end BY <1>4 DEF CursorAt
  <2>3. next_cursor(g) = f.recs[l].end
    <3>1. next_cursor(g) = IF g.recs = <<>> THEN g.first ELSE g.recs[Len(g.recs)].end
      BY FileCursor
    <3>2. g.recs # <<>> BY <2>1
    <3>3. QED BY <2>1, <3>1, <3>2
  <2>4. /\ f.recs[k].at = f.first + (k - 1) /\ f.recs[l].at = f.first + (l - 1)
        /\ f.recs[k].end = f.recs[k].at + 1 \/ (f.recs[k].end = f.recs[k].at /\ f.recs[k].seals)
        /\ f.recs[l].end = f.recs[l].at + 1 \/ (f.recs[l].end = f.recs[l].at /\ f.recs[l].seals)
        /\ f.recs[k].seals => k = Len(f.recs)
    BY <2>1 DEF FileSound, Row
  <2>5. CASE k = l
    <3>1. CursorAt(f, k) = next_cursor(g) BY <2>2, <2>3, <2>5
    <3>2. QED BY <1>2, <3>1
  <2>6. CASE k < l
    <3> HIDE DEF k, l
    <3>1. ~f.recs[k].seals BY <1>1, <2>1, <2>4, <2>6
    <3>0. /\ f.recs[k].at \in Nat /\ f.recs[k].end \in Nat
          /\ f.recs[l].at \in Nat /\ f.recs[l].end \in Nat
      <4>1. f.recs \in Seq(RecordType) BY DEF FileType
      <4>2. f.recs[k] \in RecordType /\ f.recs[l] \in RecordType BY <2>1, <4>1
      <4>3. QED BY <4>2 DEF RecordType
    <3>2. f.recs[k].end = f.first + k BY SMTT(30), <1>1, <2>1, <2>4, <3>0, <3>1
    <3>3. f.recs[l].end = f.first + l \/ f.recs[l].end = f.first + (l - 1)
      BY <1>1, <2>1, <2>4, <3>0
    <3>4. CursorAt(f, k) = f.first + k BY <2>2, <3>2
    <3>5. f.first + k <= next_cursor(g) BY <1>1, <2>3, <2>6, <3>3
    <3>6. QED BY <1>1, <3>4, <3>5 DEF k
  <2>7. QED BY <1>1, <2>1, <2>5, <2>6
<1>5. QED BY <1>3, <1>4

(* What a loss of power can take of the files, while no other fault comes. *)
LEMMA AtRisk ==
  ASSUME SegmentInv, budget.power > 0, NEW k \in 1 .. Len(files)
  PROVE  /\ files[k] \in FileType /\ FileSound(files[k])
         /\ Published(files[k]) => files[k].synced = Len(files[k].recs) /\ files[k].linked
         /\ files[k].header = "cached" => files[k].recs = <<>>
         /\ ~files[k].linked => k = Len(files) /\ files[k].recs = <<>>
         /\ k # Len(files) => /\ files[k].header = "synced" /\ files[k].manifest.state = "synced"
                              /\ files[k].synced = Len(files[k].recs)
<1>1. files[k] \in FileType /\ FileSound(files[k]) /\ Len(files) \in Nat
  BY ChainCursors DEF SegmentInv, SegmentTypes, Chain
<1>2. files[k].synced \in Nat /\ files[k].synced <= Len(files[k].recs) /\ Len(files[k].recs) \in Nat
  BY <1>1, WholeCursor, FileCursor
<1>3. /\ ~files[k].linked => k = Len(files) /\ pc \in {"header", "header_sync", "directory_sync"}
      /\ files[k].header # "synced" => k = Len(files)
      /\ files[k].header = "cached" => pc = "header_sync"
      /\ files[k].synced < Len(files[k].recs) => k = Len(files) /\ pc \in {"writing", "written"}
  BY DEF SegmentInv, Barriers, Held
<1>4. pc \in Working => /\ Current = files[Len(files)] /\ AtLast(Current, writer, pc, reported)
  BY AtWork DEF Current
<1>5. k = Len(files) /\ pc \in {"header", "header_sync", "directory_sync"} => files[k].recs = <<>>
  BY <1>4 DEF Working, AtLast
<1>6. k = Len(files) /\ pc \in {"writing", "written"} => ~Published(files[k])
  <2>1. k = Len(files) /\ pc = "writing" => ~Sealed(files[k])
    BY <1>4 DEF Working, AtLast
  <2>2. k = Len(files) /\ pc = "written" => ~Published(files[k])
    BY <1>4 DEF Working, AtLast
  <2>3. QED BY <1>1, <2>1, <2>2 DEF FileSound
<1>7. Published(files[k]) => files[k].recs # <<>> BY <1>1 DEF FileSound, Sealed
<1>8. files[k].header = "cached" => files[k].recs = <<>>
  <2>1. files[k].header = "cached" => k = Len(files) BY <1>3
  <2>2. QED BY <1>3, <1>5, <2>1
<1>9. ~files[k].linked => k = Len(files) /\ files[k].recs = <<>> BY <1>3, <1>5
<1>10. Published(files[k]) => files[k].synced = Len(files[k].recs) /\ files[k].linked
  BY <1>2, <1>3, <1>6, <1>7, <1>9
<1>11. k # Len(files) => /\ files[k].header = "synced" /\ files[k].manifest.state = "synced"
                         /\ files[k].synced = Len(files[k].recs)
  <2>1. k # Len(files) => files[k].manifest.state = "synced"
    BY <1>1 DEF SegmentInv, Chain, Chained
  <2>2. QED BY <1>2, <1>3, <2>1
<1>12. QED BY <1>1, <1>8, <1>9, <1>10, <1>11

LEMMA PowerLossKeeps ==
  ASSUME SegmentInv, SegmentPowerLoss
  PROVE  SegmentInv' /\ FrozenStep
<1>1. Spend("power") /\ pc' = "down" /\ UNCHANGED <<writer, reported>>
  BY DEF SegmentPowerLoss
<1>2. PICK n \in 0 .. Len(files) :
        /\ \A i \in n + 1 .. Len(files) : ~files[i].linked
        /\ files' \in {g \in [1 .. n -> UNION {Survivors(files[i]) : i \in 1 .. n}] :
                         \A i \in 1 .. n : g[i] \in Survivors(files[i])}
  BY DEF SegmentPowerLoss
<1>3. /\ budget' \in BudgetType /\ budget.power > 0 /\ budget'.process = budget.process
      /\ budget'.io = budget.io
  BY <1>1, Spent DEF SegmentInv, SegmentTypes
<1>4. /\ budget.process = 0 /\ budget.io = 0
      /\ reported \in Nat /\ Len(files) \in Nat
      /\ files \in Seq(FileType) /\ Chained(files)
      /\ files # <<>> => reported <= CursorAt(files[Len(files)], files[Len(files)].synced)
      /\ files = <<>> => reported <= 0
  BY <1>3 DEF SegmentInv, SegmentTypes, Chain, Barriers, Held, EndOf
<1>5. /\ DOMAIN files' = 1 .. n /\ n \in Nat /\ \A i \in 1 .. n : files'[i] \in Survivors(files[i])
      /\ files' \in [1 .. n -> UNION {Survivors(files[i]) : i \in 1 .. n}]
  BY <1>2, <1>4
<1>6. \A i \in 1 .. n :
         /\ i \in 1 .. Len(files)
         /\ files'[i] \in FileType /\ FileSound(files'[i]) /\ files'[i].first = files[i].first
         /\ files'[i].linked /\ files'[i].synced = Len(files'[i].recs)
         /\ files[i].synced <= files'[i].synced /\ files'[i].synced <= Len(files[i].recs)
         /\ \A j \in 1 .. files'[i].synced : files'[i].recs[j] = files[i].recs[j]
         /\ files'[i].header # "cached" /\ (files[i].header = "synced" => files'[i].header = "synced")
         /\ files'[i].manifest.state # "cached"
         /\ files[i].manifest.state = "synced" => files'[i].manifest.state = "synced"
         /\ files[i].synced = Len(files[i].recs) => files'[i].recs = files[i].recs
         /\ Published(files[i]) =>
              /\ files'[i].recs = files[i].recs /\ ~files'[i].torn
              /\ \/ Published(files'[i])
                 \/ files[i].manifest.state = "cached" /\ files'[i].manifest = NoManifest
  <2> SUFFICES ASSUME NEW i \in 1 .. n
               PROVE
         /\ i \in 1 .. Len(files)
         /\ files'[i] \in FileType /\ FileSound(files'[i]) /\ files'[i].first = files[i].first
         /\ files'[i].linked /\ files'[i].synced = Len(files'[i].recs)
         /\ files[i].synced <= files'[i].synced /\ files'[i].synced <= Len(files[i].recs)
         /\ \A j \in 1 .. files'[i].synced : files'[i].recs[j] = files[i].recs[j]
         /\ files'[i].header # "cached" /\ (files[i].header = "synced" => files'[i].header = "synced")
         /\ files'[i].manifest.state # "cached"
         /\ files[i].manifest.state = "synced" => files'[i].manifest.state = "synced"
         /\ files[i].synced = Len(files[i].recs) => files'[i].recs = files[i].recs
         /\ Published(files[i]) =>
              /\ files'[i].recs = files[i].recs /\ ~files'[i].torn
              /\ \/ Published(files'[i])
                 \/ files[i].manifest.state = "cached" /\ files'[i].manifest = NoManifest
    OBVIOUS
  <2>1. i \in 1 .. Len(files) BY <1>2, <1>4
  <2>2. /\ files[i] \in FileType /\ FileSound(files[i])
        /\ Published(files[i]) => files[i].synced = Len(files[i].recs)
        /\ files[i].header = "cached" => files[i].recs = <<>>
    BY <1>3, <2>1, AtRisk
  <2>3. files'[i] \in Survivors(files[i]) BY <1>5
  <2>4. QED BY <2>1, <2>2, <2>3, Survivor
<1>7. files' \in Seq(FileType) /\ Len(files') = n /\ (files' = <<>> <=> n = 0) /\ n <= Len(files)
  <2>1. files' \in [1 .. n -> FileType] BY <1>5, <1>6
  <2>2. files' \in Seq(FileType) /\ Len(files') = n BY <1>5, <2>1
  <2>3. QED BY <1>2, <1>4, <1>5, <2>2
<1>8. n = Len(files) \/ (n = Len(files) - 1 /\ ~files[Len(files)].linked /\ files[Len(files)].recs = <<>>)
  <2> SUFFICES ASSUME n # Len(files)
               PROVE  n = Len(files) - 1 /\ ~files[Len(files)].linked /\ files[Len(files)].recs = <<>>
    OBVIOUS
  <2>1. n + 1 \in 1 .. Len(files) /\ n + 1 \in n + 1 .. Len(files) BY <1>2, <1>4
  <2>2. ~files[n + 1].linked BY <1>2, <2>1
  <2>3. n + 1 = Len(files) /\ files[n + 1].recs = <<>> BY <1>3, <2>1, <2>2, AtRisk
  <2>4. QED BY <1>4, <1>5, <2>2, <2>3
<1>9. Chained(files')
  <2>1. \A k \in 1 .. Len(files') : files'[k].first = files[k].first /\ FileSound(files'[k])
    BY <1>6, <1>7
  <2>2. \A k \in 1 .. Len(files') - 1 : files'[k].recs = files[k].recs /\ files'[k].manifest.state = "synced"
    <3> SUFFICES ASSUME NEW k \in 1 .. n - 1
                 PROVE  files'[k].recs = files[k].recs /\ files'[k].manifest.state = "synced"
      BY <1>7
    <3>1. k \in 1 .. n /\ k \in 1 .. Len(files) /\ k # Len(files) BY <1>4, <1>5, <1>7
    <3>2. files[k].manifest.state = "synced" /\ files[k].synced = Len(files[k].recs)
      BY <1>3, <3>1, AtRisk
    <3>3. QED BY <1>6, <3>1, <3>2
  <2>3. QED BY <1>4, <1>7, <2>1, <2>2, Reshape
<1>10. SegmentTypes' /\ Chain'
  <2>1. reported' \in Nat /\ writer' \in WriterType BY <1>1 DEF SegmentInv, SegmentTypes
  <2>2. QED BY <1>3, <1>7, <1>9, <2>1 DEF SegmentTypes, Chain
<1>11. Place' BY <1>1 DEF Place, Standing, Steps
<1>12. FrozenStep
  <2> SUFFICES ASSUME NEW i \in DOMAIN files, files[i].manifest.state # "none"
               PROVE  /\ i \in DOMAIN files'
                      /\ files'[i].recs = files[i].recs
                      /\ ~files'[i].torn
                      /\ \/ [files'[i].manifest EXCEPT !.state = "cached"] = sealed_manifest(files[i])
                         \/ files[i].manifest.state = "cached" /\ files'[i].manifest = NoManifest
    BY DEF FrozenStep
  <2>1. i \in 1 .. Len(files) /\ Published(files[i]) BY <1>4 DEF Published
  <2>2. files[i].linked /\ files[i] \in FileType /\ FileSound(files[i])
    BY <1>3, <2>1, AtRisk
  <2>3. i \in 1 .. n
    <3>1. n # Len(files) => i # Len(files) /\ n = Len(files) - 1 BY <1>8, <2>2
    <3>2. QED BY <1>4, <1>5, <2>1, <3>1
  <2>4. i \in DOMAIN files' /\ files'[i].recs = files[i].recs /\ ~files'[i].torn
    BY <1>5, <1>6, <2>1, <2>3
  <2>5. CASE Published(files'[i])
    <3>1. /\ files'[i] \in FileType /\ FileSound(files'[i]) /\ files'[i].first = files[i].first
          /\ files'[i].recs = files[i].recs
      BY <1>6, <2>3, <2>4
    <3>2. [files'[i].manifest EXCEPT !.state = "cached"] = sealed_manifest(files[i])
      BY <2>1, <2>2, <2>5, <3>1, StillFrozen
    <3>3. QED BY <2>4, <3>2
  <2>6. CASE files[i].manifest.state = "cached" /\ files'[i].manifest = NoManifest
    BY <2>4, <2>6
  <2>7. QED BY <1>6, <2>1, <2>3, <2>5, <2>6
<1>13. reported <= EndOf(files') /\ (files' # <<>> => reported <= CursorAt(files'[n], files'[n].synced))
  <2>1. CASE n = Len(files) /\ n # 0
    <3>1. n \in 1 .. n /\ n \in 1 .. Len(files) /\ files # <<>> /\ files' # <<>>
      BY <1>4, <1>7, <2>1
    <3>2. files[n] \in FileType /\ FileSound(files[n]) BY <1>3, <3>1, AtRisk
    <3>3. /\ files'[n] \in FileType /\ FileSound(files'[n]) /\ files'[n].first = files[n].first
          /\ files[n].synced <= Len(files'[n].recs) /\ Len(files'[n].recs) <= Len(files[n].recs)
          /\ \A j \in 1 .. Len(files'[n].recs) : files'[n].recs[j] = files[n].recs[j]
          /\ files'[n].synced = Len(files'[n].recs)
      BY <1>6, <3>1
    <3>4. CursorAt(files[n], files[n].synced) \in Nat /\ CursorAt(files[n], files[n].synced) <= next_cursor(files'[n])
      BY <3>2, <3>3, CursorsGrow
    <3>5. reported <= CursorAt(files[n], files[n].synced) BY <1>4, <2>1, <3>1
    <3>6. EndOf(files') = next_cursor(files'[n]) /\ next_cursor(files'[n]) \in Nat
      BY <1>7, <3>1, <3>3, FileCursor DEF EndOf
    <3>7. CursorAt(files'[n], files'[n].synced) = next_cursor(files'[n])
      BY <3>3, WholeCursor
    <3>8. QED BY <1>4, <3>4, <3>5, <3>6, <3>7
  <2>2. CASE n # Len(files)
    <3> DEFINE l == Len(files)
    <3>1. n = l - 1 /\ files[l].recs = <<>> /\ l \in 1 .. Len(files) /\ files # <<>>
      BY <1>2, <1>4, <1>8, <2>2
    <3>2. /\ files[l] \in FileType /\ FileSound(files[l]) /\ Len(files[l].recs) = 0
      BY <1>3, <3>1, AtRisk
    <3>3. files[l].synced = 0 BY <3>2, WholeCursor
    <3>4. reported <= files[l].first BY <1>4, <3>1, <3>3 DEF CursorAt
    <3>5. files[l].first = IF l = 1 THEN 0 ELSE next_cursor(files[l - 1])
      BY <1>4, <3>1 DEF Chained
    <3>6. CASE n = 0
      <4>1. files' = <<>> /\ EndOf(files') = 0 BY <1>7, <3>6 DEF EndOf
      <4>2. reported <= 0 BY <3>1, <3>4, <3>5, <3>6
      <4>3. QED BY <4>1, <4>2
    <3>7. CASE n # 0
      <4>1. n \in 1 .. n /\ n \in 1 .. Len(files) /\ n # Len(files) /\ l # 1 /\ files' # <<>>
        BY <1>4, <1>5, <1>7, <3>1, <3>7
      <4>2. files[n].synced = Len(files[n].recs) BY <1>3, <4>1, AtRisk
      <4>3. /\ files'[n] \in FileType /\ FileSound(files'[n]) /\ files'[n].first = files[n].first
            /\ files'[n].recs = files[n].recs /\ files'[n].synced = Len(files'[n].recs)
        BY <1>6, <4>1, <4>2
      <4>4. next_cursor(files'[n]) = next_cursor(files[n]) BY <4>3 DEF next_cursor
      <4>5. EndOf(files') = next_cursor(files'[n]) BY <1>7, <4>1 DEF EndOf
      <4>6. CursorAt(files'[n], files'[n].synced) = next_cursor(files'[n])
        BY <4>3, WholeCursor
      <4>7. reported <= next_cursor(files[n]) BY <3>1, <3>4, <3>5, <4>1
      <4>8. QED BY <4>4, <4>5, <4>6, <4>7
    <3>8. QED BY <3>6, <3>7
  <2>3. CASE n = Len(files) /\ n = 0
    <3>1. files = <<>> /\ files' = <<>> BY <1>4, <1>7, <2>3, ChainCursors
    <3>2. EndOf(files') = 0 BY <3>1 DEF EndOf
    <3>3. QED BY <1>4, <3>1, <3>2
  <2>4. QED BY <2>1, <2>2, <2>3
<1>14. Barriers'
  <2>1. \A k \in 1 .. n :
            /\ files'[k].linked /\ files'[k].header # "cached" /\ files'[k].manifest.state # "cached"
            /\ ~(files'[k].synced < Len(files'[k].recs))
            /\ files'[k].header # "synced" => k = n
    <3> SUFFICES ASSUME NEW k \in 1 .. n
                 PROVE  /\ files'[k].linked /\ files'[k].header # "cached" /\ files'[k].manifest.state # "cached"
                        /\ ~(files'[k].synced < Len(files'[k].recs))
                        /\ files'[k].header # "synced" => k = n
      OBVIOUS
    <3>1. Len(files'[k].recs) \in Nat BY <1>6, FileCursor
    <3>2. k # n => k \in 1 .. Len(files) /\ k # Len(files) BY <1>4, <1>5, <1>7
    <3>3. k # n => files[k].header = "synced" BY <1>3, <3>2, AtRisk
    <3>4. QED BY <1>6, <3>1, <3>3
  <2>2. pc' = "down" /\ reported' = reported BY <1>1
  <2>3. Held(files', "down", reported, budget')
    BY <1>3, <1>4, <1>7, <1>13, <2>1 DEF Held
  <2>4. QED BY <2>2, <2>3 DEF Barriers
<1>15. QED BY <1>10, <1>11, <1>12, <1>14 DEF SegmentInv

(* The invariant of a stream, and what it says of the captured positions. *)
LEMMA SegmentBegins ==
  ASSUME SegmentInit, \A b \in FaultBudgets : b.power = 0 \/ (b.process = 0 /\ b.io = 0)
  PROVE  SegmentInv
<1>1. /\ files = <<>> /\ writer = NoBatch /\ pc = "down" /\ reported = 0 /\ budget \in FaultBudgets
  BY DEF SegmentInit
<1>2. files \in Seq(FileType) /\ Len(files) = 0 /\ EndOf(files) = 0 BY <1>1 DEF EndOf
<1>3. NoBatch \in WriterType
  <2>1. <<>> \in Seq(RecordType) OBVIOUS
  <2>2. QED BY <2>1 DEF NoBatch, WriterType
<1>4. budget \in BudgetType BY <1>1, BoundsAssumption DEF BudgetType
<1>5. SegmentTypes BY <1>1, <1>2, <1>3, <1>4 DEF SegmentTypes
<1>6. Chain BY <1>2 DEF Chain, Chained
<1>7. Place BY <1>1 DEF Place, Standing, Steps
<1>8. Barriers
  <2>1. budget.power = 0 \/ (budget.process = 0 /\ budget.io = 0) BY <1>1
  <2>2. budget.power > 0 => budget.process = 0 /\ budget.io = 0
    BY <1>4, <2>1 DEF BudgetType
  <2>3. QED BY <1>1, <1>2, <2>2 DEF Barriers, Held
<1>9. QED BY <1>5, <1>6, <1>7, <1>8 DEF SegmentInv

LEMMA SegmentStepKeeps ==
  ASSUME SegmentInv, [SegmentNext]_segmentVars
  PROVE  SegmentInv' /\ FrozenStep
<1>1. CASE UNCHANGED segmentVars
  <2>1. UNCHANGED <<files, writer, pc, reported, budget>> BY <1>1 DEF segmentVars
  <2>2. SegmentInv' BY <2>1 DEF SegmentInv, SegmentTypes, Chain, Place, Barriers
  <2>3. FrozenStep BY <2>1, UnchangedFrozen DEF SegmentInv
  <2>4. QED BY <2>2, <2>3
<1>2. CASE SegmentNext
  BY <1>2, RefuseOriginKeeps, OpenKeeps, TruncateTailKeeps, OpenReturnsKeeps, NextSegmentKeeps, MissingHeaderKeeps,
     MissingManifestKeeps, CreateFileKeeps, WriteHeaderKeeps, SyncHeaderKeeps, SyncNewFileKeeps,
     PublishManifestKeeps, SyncManifestKeeps, RotateKeeps, StageKeeps, FinishWindowKeeps,
     AppendPartKeeps, AppendRecordKeeps, SyncKeeps, StopKeeps, PowerLossKeeps
     DEF SegmentNext
<1>3. QED BY <1>1, <1>2

(* The only record that can cover position c is in the file whose range
   holds c, in the place that c has in it. *)
LEMMA CoveringRecord ==
  ASSUME NEW f \in FileType, FileSound(f), NEW c \in Nat
  PROVE  /\ \A j \in 1 .. Len(f.recs) :
              covers(f.recs[j], c) => j = c - f.first + 1 /\ f.first <= c /\ c < next_cursor(f)
         /\ f.first <= c /\ c < next_cursor(f) =>
              c - f.first + 1 \in 1 .. Len(f.recs) /\ covers(f.recs[c - f.first + 1], c)
<1>1. /\ f.first \in Nat /\ Len(f.recs) \in Nat /\ next_cursor(f) \in Nat /\ f.first <= next_cursor(f)
      /\ next_cursor(f) = IF f.recs = <<>> THEN f.first ELSE f.recs[Len(f.recs)].end
      /\ (f.recs = <<>> <=> Len(f.recs) = 0)
  BY FileCursor
<1>2. f.recs \in Seq(RecordType) BY DEF FileType
<1>3. \A j \in 1 .. Len(f.recs) :
        /\ f.recs[j].at \in Nat /\ f.recs[j].end \in Nat
        /\ f.recs[j].at = f.first + (j - 1)
        /\ f.recs[j].end = f.recs[j].at + 1 \/ (f.recs[j].end = f.recs[j].at /\ f.recs[j].seals)
        /\ f.recs[j].seals => j = Len(f.recs)
  <2>1. \A j \in 1 .. Len(f.recs) : f.recs[j] \in RecordType BY <1>2
  <2>2. QED BY <2>1 DEF FileSound, Row, RecordType
<1>4. f.recs # <<>> => /\ Len(f.recs) \in 1 .. Len(f.recs)
                       /\ \/ next_cursor(f) = f.first + Len(f.recs)
                          \/ /\ next_cursor(f) = f.first + (Len(f.recs) - 1)
                             /\ f.recs[Len(f.recs)].end = f.recs[Len(f.recs)].at
  <2> SUFFICES ASSUME f.recs # <<>>
               PROVE  /\ Len(f.recs) \in 1 .. Len(f.recs)
                      /\ \/ next_cursor(f) = f.first + Len(f.recs)
                         \/ /\ next_cursor(f) = f.first + (Len(f.recs) - 1)
                            /\ f.recs[Len(f.recs)].end = f.recs[Len(f.recs)].at
    OBVIOUS
  <2>1. Len(f.recs) \in 1 .. Len(f.recs) BY <1>1
  <2>2. next_cursor(f) = f.recs[Len(f.recs)].end BY <1>1
  <2>3. /\ f.recs[Len(f.recs)].at = f.first + (Len(f.recs) - 1)
        /\ \/ f.recs[Len(f.recs)].end = f.recs[Len(f.recs)].at + 1
           \/ f.recs[Len(f.recs)].end = f.recs[Len(f.recs)].at
    BY <1>3, <2>1
  <2>4. CASE f.recs[Len(f.recs)].end = f.recs[Len(f.recs)].at + 1
    BY <1>1, <2>1, <2>2, <2>3, <2>4
  <2>5. CASE f.recs[Len(f.recs)].end = f.recs[Len(f.recs)].at
    BY <1>1, <2>1, <2>2, <2>3, <2>5
  <2>6. QED BY <2>3, <2>4, <2>5
<1>5. ASSUME NEW j \in 1 .. Len(f.recs), covers(f.recs[j], c)
      PROVE  j = c - f.first + 1 /\ f.first <= c /\ c < next_cursor(f)
  <2>1. f.recs[j].at = c /\ f.recs[j].end = c + 1 BY <1>5 DEF covers
  <2>2. c = f.first + (j - 1) BY <1>3, <2>1
  <2>3. f.recs # <<>> BY <1>1
  <2>4. c < next_cursor(f)
    <3>1. CASE j = Len(f.recs) BY <1>1, <2>1, <2>3, <3>1
    <3>2. CASE j < Len(f.recs) BY <1>1, <1>4, <2>2, <2>3, <3>2
    <3>3. QED BY <1>1, <3>1, <3>2
  <2>5. QED BY <1>1, <2>2, <2>4
<1>6. ASSUME f.first <= c, c < next_cursor(f)
      PROVE  c - f.first + 1 \in 1 .. Len(f.recs) /\ covers(f.recs[c - f.first + 1], c)
  <2> DEFINE j == c - f.first + 1
  <2>1. f.recs # <<>> BY <1>1, <1>6
  <2>2. j \in 1 .. Len(f.recs) /\ c = f.first + (j - 1) BY <1>1, <1>4, <1>6, <2>1
  <2>3. f.recs[j].at = c BY <1>3, <2>2
  <2>4. f.recs[j].end # f.recs[j].at
    <3> SUFFICES ASSUME f.recs[j].end = f.recs[j].at PROVE FALSE OBVIOUS
    <3>1. f.recs[j].seals /\ j = Len(f.recs) BY <1>3, <2>2
    <3>2. next_cursor(f) = c BY <1>1, <2>1, <2>3, <3>1
    <3>3. QED BY <1>1, <1>6, <3>2
  <2>5. f.recs[j].end = c + 1 BY <1>3, <2>2, <2>3, <2>4
  <2>6. QED BY <2>2, <2>3, <2>5 DEF covers
<1>7. QED BY <1>5, <1>6

LEMMA CaptureIsIntact ==
  ASSUME SegmentInv
  PROVE  CaptureIntact
<1> SUFFICES ASSUME pc = "ready"
             PROVE  /\ writer.next = reported
                    /\ \A c \in 0 .. MaxCursor :
                         Cardinality({p \in UNION {{i} \X (1 .. Len(files[i].recs)) : i \in DOMAIN files} :
                                        covers(files[p[1]].recs[p[2]], c)})
                           = IF c < writer.next THEN 1 ELSE 0
  BY DEF CaptureIntact
<1>1. files # <<>> /\ writer.ordinal = Len(files) /\ AtLast(Current, writer, pc, reported)
  BY AtWork DEF Working
<1>2. writer.next = next_cursor(Current) /\ reported = writer.next
  BY <1>1 DEF AtLast, Told
<1>3. writer.next = EndOf(files) /\ EndOf(files) \in Nat BY <1>1, <1>2, AtEnd
<1>4. files \in Seq(FileType) /\ Len(files) \in Nat /\ DOMAIN files = 1 .. Len(files)
  BY DEF SegmentInv, SegmentTypes
<1>5. \A k \in 1 .. Len(files) : files[k] \in FileType /\ FileSound(files[k])
                                 /\ files[k].first \in Nat /\ next_cursor(files[k]) \in Nat
                                 /\ next_cursor(files[k]) <= EndOf(files)
  BY <1>4, ChainCursors DEF SegmentInv, Chain, Chained
<1> SUFFICES ASSUME NEW c \in 0 .. MaxCursor
             PROVE  Cardinality({p \in UNION {{i} \X (1 .. Len(files[i].recs)) : i \in DOMAIN files} :
                                        covers(files[p[1]].recs[p[2]], c)})
                      = IF c < EndOf(files) THEN 1 ELSE 0
  BY <1>2, <1>3
<1> DEFINE P == UNION {{i} \X (1 .. Len(files[i].recs)) : i \in DOMAIN files}
<1> DEFINE A == {p \in P : covers(files[p[1]].recs[p[2]], c)}
<1>6. c \in Nat BY BoundsAssumption
<1>7. \A p : p \in P <=> \E i \in 1 .. Len(files) : \E j \in 1 .. Len(files[i].recs) : p = <<i, j>>
  BY <1>4
<1> HIDE DEF P
<1>8. \A p : p \in A <=> \E i \in 1 .. Len(files) : \E j \in 1 .. Len(files[i].recs) :
                           p = <<i, j>> /\ covers(files[i].recs[j], c)
  BY <1>7
<1> HIDE DEF A
<1>9. ASSUME NEW i \in 1 .. Len(files), NEW j \in 1 .. Len(files[i].recs), covers(files[i].recs[j], c)
      PROVE  j = c - files[i].first + 1 /\ files[i].first <= c /\ c < next_cursor(files[i])
  BY <1>5, <1>6, <1>9, CoveringRecord
<1>10. CASE c < EndOf(files)
  <2>1. c \in 0 .. EndOf(files) - 1 BY <1>3, <1>6, <1>10
  <2>2. PICK k \in 1 .. Len(files) : files[k].first <= c /\ c < next_cursor(files[k])
    BY <2>1 DEF SegmentInv, Chain, Chained
  <2> DEFINE l == c - files[k].first + 1
  <2>3. l \in 1 .. Len(files[k].recs) /\ covers(files[k].recs[l], c)
    BY <1>5, <1>6, <2>2, CoveringRecord
  <2>4. ASSUME NEW i \in 1 .. Len(files), files[i].first <= c, c < next_cursor(files[i])
        PROVE  i = k
    <3>1. i < k => next_cursor(files[i]) <= files[k].first
      BY DEF SegmentInv, Chain, Chained
    <3>2. k < i => next_cursor(files[k]) <= files[i].first
      BY DEF SegmentInv, Chain, Chained
    <3>3. ~(i < k) /\ ~(k < i) BY <1>5, <1>6, <2>2, <2>4, <3>1, <3>2
    <3>4. QED BY <1>4, <3>3
  <2>5. <<k, l>> \in A BY <1>8, <2>3
  <2>6. ASSUME NEW p \in A PROVE p = <<k, l>>
    <3>0. PICK i \in 1 .. Len(files) : \E j \in 1 .. Len(files[i].recs) :
             p = <<i, j>> /\ covers(files[i].recs[j], c)
      BY <1>8
    <3>1. PICK j \in 1 .. Len(files[i].recs) : p = <<i, j>> /\ covers(files[i].recs[j], c)
      BY <3>0
    <3>2. j = c - files[i].first + 1 /\ i = k BY <1>9, <2>4, <3>1
    <3>3. QED BY <3>1, <3>2
  <2>7. A = {<<k, l>>} BY <2>5, <2>6
  <2>8. Cardinality(A) = 1 BY <2>7, FS_Singleton
  <2>9. QED BY <1>10, <2>8 DEF A, P
<1>11. CASE ~(c < EndOf(files))
  <2>1. ASSUME NEW p \in A PROVE FALSE
    <3>0. PICK i \in 1 .. Len(files) : \E j \in 1 .. Len(files[i].recs) :
             p = <<i, j>> /\ covers(files[i].recs[j], c)
      BY <1>8
    <3>1. PICK j \in 1 .. Len(files[i].recs) : p = <<i, j>> /\ covers(files[i].recs[j], c)
      BY <3>0
    <3>2. c < next_cursor(files[i]) BY <1>9, <3>1
    <3>3. QED BY <1>3, <1>5, <1>6, <1>11, <3>2
  <2>2. A = {} BY <2>1
  <2>3. Cardinality(A) = 0 BY <2>2, FS_EmptySet
  <2>4. QED BY <1>11, <2>3 DEF A, P
<1>12. QED BY <1>10, <1>11

(* Whatever the process was doing when it stopped, in a write, a rotation, a
   publication or a recovery: the next open accepts what it left, or else found
   a first file that never got its header and of which nothing was reported;
   the stream that is open holds every position below its durable cursor once
   and none above it, and a published segment never changes
   (inspect_capture_stream_origin, CaptureSegmentStream, CaptureWalSink).  The hypothesis leaves out a crash of the process or a
   failing call that is followed by a loss of power: open does not synchronise
   what it finds complete, which is the disagreement ReceiptAfterBarrier shows. *)
THEOREM CapturesAreKept ==
  ASSUME \A b \in FaultBudgets : b.power = 0 \/ (b.process = 0 /\ b.io = 0)
  PROVE  SegmentSpec => CaptureKept
<1>1. SegmentInit => SegmentInv BY SegmentBegins
<1>2. SegmentInv /\ [SegmentNext]_segmentVars => SegmentInv' BY SegmentStepKeeps
<1>3. SegmentInv => RefusalLosesNothing /\ CaptureIntact
  BY CaptureIsIntact, RefusedIsEmpty
<1>4. SegmentInv /\ [SegmentNext]_segmentVars => [FrozenStep]_segmentVars
  BY SegmentStepKeeps
<1>5. SegmentSpec => []SegmentInv BY <1>1, <1>2, PTL DEF SegmentSpec
<1>6. SegmentSpec => [](RefusalLosesNothing /\ CaptureIntact) BY <1>3, <1>5, PTL
<1>7. SegmentSpec => [][FrozenStep]_segmentVars BY <1>4, <1>5, PTL DEF SegmentSpec
<1>8. QED BY <1>6, <1>7, PTL DEF CaptureKept, PublishedIsFrozen, FrozenStep
=============================================================================
