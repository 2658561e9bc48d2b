------------------------- MODULE ChannelRuntimeProofs -------------------------
(* The storage thread of a channel loses no record, confirms none that is
   not on disk and never runs out of room, for every number of streams,
   every capacity, group size and window, and however many failures.  The
   start of a channel is refused for what an earlier crash left only where
   nothing was recorded, and is complete when it ends, for every list of
   nodes, number of boots and journal: the second part of the module. *)
EXTENDS GroupedPersistence, ChannelStartup, FiniteSetTheorems, SequenceTheorems, WellFoundedInduction, TLAPS

(* What a place may hold. *)
Items == Writes \cup {Manage} \cup Completions

(* The states of the storage thread. *)
WorkerType == [pc : {"recv", "gather", "persist", "forward", "release", "await", "stopped"},
               pending : Seq(Writes), failed : Seq(Writes), done : Seq(Completions),
               faulted : BOOLEAN, deferred : BOOLEAN]
CallerType == [waits : {"no", "manage", "replace"}, failure : BOOLEAN,
               closed : BOOLEAN, refused : {"no", "drained", "busy"}]

(* The live records of stream s in a row are those from lo to hi - 1, each
   once, the oldest first. *)
InOrder(row, s, lo, hi) ==
    /\ lo <= hi
    /\ {row[i].start : i \in At(row, s)} = lo .. hi - 1
    /\ \A i, j \in At(row, s) : i < j => row[i].start < row[j].start

(* The places follow each other without a hole: the successes on their way
   end where the repository stands, and what is retried begins there. *)
InPlaces(s, sent, done, failed, pending, waiting, first, next, last) ==
    \E a, b, c \in 0 .. MaxRecord :
        /\ InOrder(sent, s, first, a)
        /\ InOrder(done, s, a, next)
        /\ InOrder(failed, s, next, b)
        /\ InOrder(pending, s, b, c)
        /\ InOrder(waiting, s, c, last)

PlacesInOrder ==
    \A s \in Streams :
        InPlaces(s, out, worker.done, worker.failed, worker.pending, queue,
                 confirmed[s], durable[s], handed[s])

(* A failed group is one run of its stream from the repository's cursor,
   and a prefix of it is all that may be on disk beyond that cursor. *)
FailedIsRun ==
    IF worker.faulted
    THEN LET s == worker.failed[1].stream IN
         /\ worker.failed # <<>>
         /\ \A i \in DOMAIN worker.failed : worker.failed[i] = Write(s, durable[s] + i - 1)
         /\ disk[s] \in durable[s] .. durable[s] + Len(worker.failed)
         /\ \A t \in Streams \ {s} : disk[t] = durable[t]
    ELSE worker.failed = <<>> /\ disk = durable

(* What the storage thread holds in each phase of its loop. *)
PhasesExact ==
    /\ worker.pc \in {"recv", "gather", "persist"} => worker.done = <<>> /\ ~worker.faulted
    /\ worker.pc = "recv" => worker.pending = <<>>
    /\ worker.pc \in {"gather", "persist"} => worker.pending # <<>>
    /\ worker.pc = "await" => worker.faulted /\ worker.done = <<>>
    /\ worker.pc = "stopped" =>
         /\ caller.closed /\ worker.done = <<>>
         /\ worker.faulted \/ (worker.pending = <<>> /\ queue = <<>>)

(* A management operation has the channel to itself. *)
ManagedAlone ==
    /\ ~worker.deferred
    /\ caller.waits = "manage" => queue = <<Manage>> /\ in_flight = 0
    /\ caller.waits # "manage" => queue \in Seq(Writes)

Records(row) == {i \in DOMAIN row : Live(row[i])}
Count(row) == Cardinality(Records(row))

(* The permits taken, place by place. *)
Releasing(pc) == IF pc = "release" THEN 1 ELSE 0
PermitsHeld ==
    in_flight = Count(worker.done) + Len(worker.failed) + Len(worker.pending) + Count(queue)
                  + Releasing(worker.pc)

(* The inductive invariant. *)
GroupInv ==
    /\ PersistenceTypeOK
    /\ PlacesInOrder
    /\ FailedIsRun
    /\ PhasesExact
    /\ ManagedAlone
    /\ PermitsHeld

------------------------
(* Items. *)

(* A write stands for its record, a completion only when it is a success,
   a management operation never. *)
LEMMA ItemFacts ==
  /\ \A c \in Writes : /\ Live(c) /\ c.kind = "write" /\ c.stream \in Streams
                       /\ c.start \in 0 .. MaxRecord - 1
                       /\ c = Write(c.stream, c.start)
  /\ \A c \in Completions : /\ (Live(c) <=> c.ok) /\ c.ok \in BOOLEAN /\ c.stream \in Streams
                            /\ c.start \in 0 .. MaxRecord - 1
  /\ ~Live(Manage) /\ Manage.kind = "manage" /\ Manage \notin Writes
  /\ \A c \in Writes, b \in BOOLEAN : /\ Completion(c, b) \in Completions
                                      /\ Completion(c, b).stream = c.stream
                                      /\ Completion(c, b).start = c.start
                                      /\ Completion(c, b).ok = b
<1>1. ASSUME NEW c \in Writes
      PROVE  /\ Live(c) /\ c.kind = "write" /\ c.stream \in Streams
             /\ c.start \in 0 .. MaxRecord - 1
             /\ c = Write(c.stream, c.start)
  BY DEF Writes, Write, Live
<1>2. ASSUME NEW c \in Writes, NEW b \in BOOLEAN
      PROVE  /\ Completion(c, b) \in Completions
             /\ Completion(c, b).stream = c.stream
             /\ Completion(c, b).start = c.start
             /\ Completion(c, b).ok = b
             /\ Live(Completion(c, b)) <=> b
  BY DEF Completions, Completion, Live
<1>3. ASSUME NEW c \in Completions
      PROVE  /\ (Live(c) <=> c.ok) /\ c.ok \in BOOLEAN /\ c.stream \in Streams
             /\ c.start \in 0 .. MaxRecord - 1
  <2>1. PICK d \in Writes, b \in BOOLEAN : c = Completion(d, b) BY DEF Completions
  <2> QED BY <1>1, <1>2, <2>1
<1>4. ~Live(Manage) /\ Manage.kind = "manage" /\ Manage \notin Writes
  <2>1. ~Live(Manage) /\ Manage.kind = "manage" BY DEF Manage, Live
  <2> QED BY <1>1, <2>1
<1> QED BY <1>1, <1>2, <1>3, <1>4

(* Every live item names a stream and a record. *)
LEMMA LiveItem ==
  ASSUME NEW c \in Items, Live(c)
  PROVE  c.stream \in Streams /\ c.start \in 0 .. MaxRecord - 1
  BY ItemFacts DEF Items

------------------------
(* Rows in order. *)

(* The live items of a joined row are those of its parts. *)
LEMMA AtConcat ==
  ASSUME NEW A \in Seq(Items), NEW B \in Seq(Items), NEW s
  PROVE  /\ A \o B \in Seq(Items)
         /\ \A i \in At(A, s) : i \in At(A \o B, s) /\ (A \o B)[i] = A[i] /\ i \in 1 .. Len(A)
         /\ \A i \in At(B, s) : /\ Len(A) + i \in At(A \o B, s) /\ (A \o B)[Len(A) + i] = B[i]
                                /\ i \in 1 .. Len(B)
         /\ \A i \in At(A \o B, s) :
              \/ i \in At(A, s) /\ (A \o B)[i] = A[i]
              \/ /\ i - Len(A) \in At(B, s) /\ (A \o B)[i] = B[i - Len(A)]
                 /\ i > Len(A)
         /\ Len(A) \in Nat
<1>1. /\ A \o B \in Seq(Items)
      /\ Len(A) \in Nat /\ Len(B) \in Nat
      /\ DOMAIN A = 1 .. Len(A) /\ DOMAIN B = 1 .. Len(B)
      /\ DOMAIN (A \o B) = 1 .. Len(A) + Len(B)
      /\ \A i \in 1 .. Len(A) : (A \o B)[i] = A[i]
      /\ \A i \in 1 .. Len(B) : (A \o B)[Len(A) + i] = B[i]
      /\ \A i \in 1 .. Len(A) + Len(B) : i > Len(A) => (A \o B)[i] = B[i - Len(A)]
  BY ConcatProperties, LenProperties
<1> QED BY <1>1 DEF At

(* Two rows in order, one after the other, are in order. *)
LEMMA JoinInOrder ==
  ASSUME NEW A \in Seq(Items), NEW B \in Seq(Items), NEW s,
         NEW lo \in Nat, NEW mid \in Nat, NEW hi \in Nat,
         InOrder(A, s, lo, mid), InOrder(B, s, mid, hi)
  PROVE  InOrder(A \o B, s, lo, hi)
<1> DEFINE R == A \o B
           SA == {A[i].start : i \in At(A, s)}
           SB == {B[i].start : i \in At(B, s)}
           SR == {R[i].start : i \in At(R, s)}
<1>1. /\ lo <= mid /\ SA = lo .. mid - 1
      /\ \A i, j \in At(A, s) : i < j => A[i].start < A[j].start
      /\ mid <= hi /\ SB = mid .. hi - 1
      /\ \A i, j \in At(B, s) : i < j => B[i].start < B[j].start
  BY DEF InOrder
<1>2. /\ \A i \in At(A, s) : i \in At(R, s) /\ R[i] = A[i] /\ i \in 1 .. Len(A)
      /\ \A i \in At(B, s) : Len(A) + i \in At(R, s) /\ R[Len(A) + i] = B[i]
      /\ \A i \in At(R, s) :
           \/ i \in At(A, s) /\ R[i] = A[i]
           \/ i - Len(A) \in At(B, s) /\ R[i] = B[i - Len(A)] /\ i > Len(A)
      /\ Len(A) \in Nat
      /\ At(R, s) \subseteq Int
  <2>1. DOMAIN R \subseteq Int BY ConcatProperties, LenProperties
  <2> QED BY <2>1, AtConcat DEF At
<1>3. SR = SA \cup SB
  <2>1. ASSUME NEW x \in SA PROVE x \in SR
    <3>1. PICK i \in At(A, s) : x = A[i].start OBVIOUS
    <3>2. i \in At(R, s) /\ x = R[i].start BY <1>2, <3>1
    <3> QED BY <3>2
  <2>2. ASSUME NEW x \in SB PROVE x \in SR
    <3>1. PICK i \in At(B, s) : x = B[i].start OBVIOUS
    <3>2. Len(A) + i \in At(R, s) /\ x = R[Len(A) + i].start BY <1>2, <3>1
    <3> QED BY <3>2
  <2>3. ASSUME NEW x \in SR PROVE x \in SA \cup SB
    <3>1. PICK i \in At(R, s) : x = R[i].start OBVIOUS
    <3>2. CASE i \in At(A, s) /\ R[i] = A[i] BY <3>1, <3>2
    <3>3. CASE i - Len(A) \in At(B, s) /\ R[i] = B[i - Len(A)] BY <3>1, <3>3
    <3> QED BY <1>2, <3>2, <3>3
  <2> QED BY <2>1, <2>2, <2>3
<1>4. SR = lo .. hi - 1
  <2> HIDE DEF SA, SB, SR
  <2> QED BY <1>1, <1>3
<1>5. ASSUME NEW i \in At(R, s), NEW j \in At(R, s), i < j
      PROVE  R[i].start < R[j].start
  <2>1. CASE i \in At(A, s) /\ R[i] = A[i] /\ j \in At(A, s) /\ R[j] = A[j]
    BY <1>1, <1>5, <2>1
  <2>2. CASE /\ i - Len(A) \in At(B, s) /\ R[i] = B[i - Len(A)]
             /\ j - Len(A) \in At(B, s) /\ R[j] = B[j - Len(A)]
    BY <1>1, <1>2, <1>5, <2>2
  <2>3. CASE /\ i \in At(A, s) /\ R[i] = A[i]
             /\ j - Len(A) \in At(B, s) /\ R[j] = B[j - Len(A)]
    <3>1. A[i].start \in lo .. mid - 1 /\ B[j - Len(A)].start \in mid .. hi - 1
      BY <1>1, <2>3
    <3>2. A[i].start < B[j - Len(A)].start BY <3>1
    <3> QED BY <2>3, <3>2
  <2>4. ~(/\ i - Len(A) \in At(B, s) /\ i > Len(A)
          /\ j \in At(A, s))
    BY <1>2, <1>5
  <2> QED BY <1>2, <2>1, <2>2, <2>3, <2>4
<1>6. lo <= hi BY <1>1
<1> QED BY <1>4, <1>5, <1>6 DEF InOrder

(* A non-empty set of naturals has a least element. *)
LEMMA LeastNat ==
  ASSUME NEW S \in SUBSET Nat, S # {}
  PROVE  \E n \in S : \A m \in S : n <= m
<1>1. PICK x \in S : \A y \in S : ~ (<<y, x>> \in OpToRel(<, Nat))
  BY NatLessThanWellFounded, WFMin
<1>2. ASSUME NEW y \in S PROVE x <= y
  <2>1. ~(y < x)
    <3>1. <<y, x>> \in Nat \X Nat OBVIOUS
    <3> QED BY <1>1, <3>1 DEF OpToRel
  <2> QED BY <2>1
<1> QED BY <1>2

(* A row in order that is cut is in order on both sides of the cut. *)
LEMMA SplitInOrder ==
  ASSUME NEW A \in Seq(Items), NEW B \in Seq(Items), NEW s,
         NEW lo \in Nat, NEW hi \in Nat, InOrder(A \o B, s, lo, hi)
  PROVE  \E mid \in lo .. hi : InOrder(A, s, lo, mid) /\ InOrder(B, s, mid, hi)
<1> DEFINE R == A \o B
           SA == {A[i].start : i \in At(A, s)}
           SB == {B[i].start : i \in At(B, s)}
           SR == {R[i].start : i \in At(R, s)}
<1>1. /\ lo <= hi /\ SR = lo .. hi - 1
      /\ \A i, j \in At(R, s) : i < j => R[i].start < R[j].start
  BY DEF InOrder
<1>2. /\ \A i \in At(A, s) : i \in At(R, s) /\ R[i] = A[i] /\ i \in 1 .. Len(A)
      /\ \A i \in At(B, s) : Len(A) + i \in At(R, s) /\ R[Len(A) + i] = B[i] /\ i \in 1 .. Len(B)
      /\ \A i \in At(R, s) :
           \/ i \in At(A, s) /\ R[i] = A[i]
           \/ i - Len(A) \in At(B, s) /\ R[i] = B[i - Len(A)]
      /\ Len(A) \in Nat /\ Len(B) \in Nat
  <2>1. Len(A) \in Nat /\ Len(B) \in Nat BY LenProperties
  <2>2. \A i \in At(A, s) : i \in At(R, s) /\ R[i] = A[i] /\ i \in 1 .. Len(A)
    BY AtConcat
  <2>3. \A i \in At(B, s) : Len(A) + i \in At(R, s) /\ R[Len(A) + i] = B[i] /\ i \in 1 .. Len(B)
    BY AtConcat
  <2>4. \A i \in At(R, s) :
          \/ i \in At(A, s) /\ R[i] = A[i]
          \/ i - Len(A) \in At(B, s) /\ R[i] = B[i - Len(A)] /\ i > Len(A)
    BY AtConcat
  <2> QED BY <2>1, <2>2, <2>3, <2>4
<1>3. SR = SA \cup SB
  <2>1. ASSUME NEW x \in SA PROVE x \in SR
    <3>1. PICK i \in At(A, s) : x = A[i].start OBVIOUS
    <3>2. i \in At(R, s) /\ x = R[i].start BY <1>2, <3>1
    <3> QED BY <3>2
  <2>2. ASSUME NEW x \in SB PROVE x \in SR
    <3>1. PICK i \in At(B, s) : x = B[i].start OBVIOUS
    <3>2. Len(A) + i \in At(R, s) /\ x = R[Len(A) + i].start BY <1>2, <3>1
    <3> QED BY <3>2
  <2>3. ASSUME NEW x \in SR PROVE x \in SA \cup SB
    <3>1. PICK i \in At(R, s) : x = R[i].start OBVIOUS
    <3>2. CASE i \in At(A, s) /\ R[i] = A[i] BY <3>1, <3>2
    <3>3. CASE i - Len(A) \in At(B, s) /\ R[i] = B[i - Len(A)] BY <3>1, <3>3
    <3> QED BY <1>2, <3>2, <3>3
  <2> QED BY <2>1, <2>2, <2>3
<1>4. \A x \in SA, y \in SB : x < y
  <2> SUFFICES ASSUME NEW i \in At(A, s), NEW j \in At(B, s)
               PROVE  A[i].start < B[j].start
    OBVIOUS
  <2>1. i < Len(A) + j BY <1>2
  <2> QED BY <1>1, <1>2, <2>1
<1>5. /\ \A i, j \in At(A, s) : i < j => A[i].start < A[j].start
      /\ \A i, j \in At(B, s) : i < j => B[i].start < B[j].start
  <2>1. ASSUME NEW i \in At(A, s), NEW j \in At(A, s), i < j PROVE A[i].start < A[j].start
    BY <1>1, <1>2, <2>1
  <2>2. ASSUME NEW i \in At(B, s), NEW j \in At(B, s), i < j PROVE B[i].start < B[j].start
    <3>1. Len(A) + i < Len(A) + j BY <1>2, <2>2
    <3> QED BY <1>1, <1>2, <3>1
  <2> QED BY <2>1, <2>2
<1> HIDE DEF SA, SB, SR
<1>6. PICK mid \in lo .. hi : SA = lo .. mid - 1 /\ SB = mid .. hi - 1
  <2>1. SA \subseteq lo .. hi - 1 /\ SB \subseteq lo .. hi - 1 /\ SA \cup SB = lo .. hi - 1
    BY <1>1, <1>3
  <2>2. CASE SB = {}
    <3>1. SA = lo .. hi - 1 /\ SB = hi .. hi - 1 /\ hi \in lo .. hi BY <1>1, <2>1, <2>2
    <3> QED BY <3>1
  <2>3. CASE SB # {}
    <3>1. PICK m \in SB : \A y \in SB : m <= y BY <2>1, <2>3, LeastNat
    <3>2. m \in lo .. hi BY <2>1
    <3>3. SB = m .. hi - 1
      <4>1. SB \subseteq m .. hi - 1 BY <2>1, <3>1
      <4>2. ASSUME NEW x \in m .. hi - 1 PROVE x \in SB
        <5>1. x \in SA \cup SB /\ ~(x < m) BY <2>1, <3>2
        <5> QED BY <1>4, <3>1, <5>1
      <4> QED BY <4>1, <4>2
    <3>4. SA = lo .. m - 1
      <4>1. SA \subseteq lo .. m - 1 BY <1>4, <2>1, <3>1
      <4>2. ASSUME NEW x \in lo .. m - 1 PROVE x \in SA
        <5>1. x \in SA \cup SB /\ ~(m <= x) BY <2>1, <3>2
        <5> QED BY <3>1, <5>1
      <4> QED BY <4>1, <4>2
    <3> QED BY <3>2, <3>3, <3>4
  <2> QED BY <2>2, <2>3
<1>7. SA = {A[i].start : i \in At(A, s)} /\ SB = {B[i].start : i \in At(B, s)}
  BY DEF SA, SB
<1>8. InOrder(A, s, lo, mid) BY <1>5, <1>6, <1>7 DEF InOrder
<1>9. InOrder(B, s, mid, hi) BY <1>5, <1>6, <1>7 DEF InOrder
<1> QED BY <1>8, <1>9

(* The row of nothing. *)
LEMMA NothingInOrder ==
  ASSUME NEW s, NEW lo \in Nat
  PROVE  InOrder(<<>>, s, lo, lo)
  BY DEF InOrder, At

(* A row without a live item of the stream. *)
LEMMA OthersInOrder ==
  ASSUME NEW row, NEW s, NEW lo \in Nat,
         \A i \in DOMAIN row : Live(row[i]) => row[i].stream # s
  PROVE  InOrder(row, s, lo, lo)
<1>1. At(row, s) = {} BY DEF At
<1> QED BY <1>1 DEF InOrder

(* And what such a row tells of its bounds. *)
LEMMA OthersBounds ==
  ASSUME NEW row, NEW s, NEW lo \in Nat, NEW hi \in Nat, InOrder(row, s, lo, hi),
         \A i \in DOMAIN row : Live(row[i]) => row[i].stream # s
  PROVE  lo = hi
<1>1. At(row, s) = {} BY DEF At
<1>2. lo .. hi - 1 = {} /\ lo <= hi BY <1>1 DEF InOrder
<1> QED BY <1>2

(* A run of consecutive records of one stream. *)
LEMMA RunInOrder ==
  ASSUME NEW row \in Seq(Items), NEW s, NEW lo \in Nat,
         \A i \in DOMAIN row : Live(row[i]) /\ row[i].stream = s /\ row[i].start = lo + i - 1
  PROVE  InOrder(row, s, lo, lo + Len(row))
<1>1. Len(row) \in Nat /\ DOMAIN row = 1 .. Len(row) BY LenProperties
<1>2. At(row, s) = 1 .. Len(row) BY <1>1 DEF At
<1>3. {row[i].start : i \in At(row, s)} = lo .. (lo + Len(row)) - 1
  <2>1. ASSUME NEW i \in At(row, s) PROVE row[i].start \in lo .. (lo + Len(row)) - 1
    <3>1. row[i].start = lo + i - 1 /\ i \in 1 .. Len(row) BY <1>1, <1>2
    <3> QED BY <1>1, <3>1
  <2>2. ASSUME NEW x \in lo .. (lo + Len(row)) - 1
        PROVE  \E i \in At(row, s) : x = row[i].start
    <3>1. x - lo + 1 \in At(row, s) BY <1>1, <1>2
    <3>2. row[x - lo + 1].start = lo + (x - lo + 1) - 1 BY <1>1, <1>2, <3>1
    <3> QED BY <3>1, <3>2
  <2> QED BY <2>1, <2>2
<1>4. \A i, j \in At(row, s) : i < j => row[i].start < row[j].start
  <2> SUFFICES ASSUME NEW i \in At(row, s), NEW j \in At(row, s), i < j
               PROVE  row[i].start < row[j].start
    OBVIOUS
  <2>1. /\ i \in 1 .. Len(row) /\ row[i].start = lo + i - 1
        /\ j \in 1 .. Len(row) /\ row[j].start = lo + j - 1
    BY <1>1, <1>2
  <2> QED BY <2>1
<1> QED BY <1>1, <1>3, <1>4 DEF InOrder

(* A run determines where it ends. *)
LEMMA RunBounds ==
  ASSUME NEW row \in Seq(Items), NEW s, NEW lo \in Nat, NEW hi \in Nat,
         InOrder(row, s, lo, hi),
         \A i \in DOMAIN row : Live(row[i]) /\ row[i].stream = s /\ row[i].start = lo + i - 1
  PROVE  hi = lo + Len(row)
<1>1. InOrder(row, s, lo, lo + Len(row)) /\ Len(row) \in Nat
  BY RunInOrder, LenProperties
<1>2. lo .. hi - 1 = lo .. (lo + Len(row)) - 1 /\ lo <= hi BY <1>1 DEF InOrder
<1> QED BY <1>1, <1>2

(* The successes of a row of writes stand for the same records. *)
LEMMA OksInOrder ==
  ASSUME NEW row \in Seq(Writes)
  PROVE  /\ Oks(row) \in Seq(Completions) /\ Len(Oks(row)) = Len(row)
         /\ \A i \in DOMAIN Oks(row) : Live(Oks(row)[i])
         /\ \A s, lo, hi : InOrder(Oks(row), s, lo, hi) <=> InOrder(row, s, lo, hi)
<1>1. Len(row) \in Nat /\ DOMAIN row = 1 .. Len(row) /\ \A i \in 1 .. Len(row) : row[i] \in Writes
  BY LenProperties, ElementOfSeq
<1>2. \A i \in 1 .. Len(row) : /\ Oks(row)[i] \in Completions /\ Live(Oks(row)[i]) /\ Live(row[i])
                               /\ Oks(row)[i].stream = row[i].stream
                               /\ Oks(row)[i].start = row[i].start
  BY <1>1, ItemFacts DEF Oks
<1>3. DOMAIN Oks(row) = 1 .. Len(row) BY <1>1 DEF Oks
<1>4. Oks(row) \in Seq(Completions) /\ Len(Oks(row)) = Len(row)
  <2>1. Oks(row) \in [1 .. Len(row) -> Completions] BY <1>1, <1>2, <1>3 DEF Oks
  <2> QED BY <1>1, <2>1
<1>5. ASSUME NEW s, NEW lo, NEW hi
      PROVE  InOrder(Oks(row), s, lo, hi) <=> InOrder(row, s, lo, hi)
  <2>1. At(Oks(row), s) = At(row, s) /\ At(row, s) \subseteq 1 .. Len(row)
    BY <1>1, <1>2, <1>3 DEF At
  <2>2. {Oks(row)[i].start : i \in At(Oks(row), s)} = {row[i].start : i \in At(row, s)}
    BY <1>2, <2>1
  <2>3. \A i \in At(row, s) : Oks(row)[i].start = row[i].start BY <1>2, <2>1
  <2> QED BY <2>1, <2>2, <2>3 DEF InOrder
<1> QED BY <1>2, <1>3, <1>4, <1>5

------------------------
(* Counting records. *)

(* The records of a row are finitely many. *)
LEMMA CountType ==
  ASSUME NEW row \in Seq(Items)
  PROVE  IsFiniteSet(Records(row)) /\ Count(row) \in Nat /\ Count(row) <= Len(row)
<1>1. DOMAIN row = 1 .. Len(row) /\ Len(row) \in Nat BY LenProperties
<1>2. IsFiniteSet(1 .. Len(row)) /\ Cardinality(1 .. Len(row)) = Len(row)
  BY <1>1, FS_Interval
<1>3. Records(row) \in SUBSET (1 .. Len(row)) BY <1>1 DEF Records
<1>4. IsFiniteSet(Records(row)) /\ Cardinality(Records(row)) <= Len(row)
  BY <1>2, <1>3, FS_Subset
<1> QED BY <1>4, FS_CardinalityType DEF Count

(* Rows joined have the records of both. *)
LEMMA CountConcat ==
  ASSUME NEW A \in Seq(Items), NEW B \in Seq(Items)
  PROVE  Count(A \o B) = Count(A) + Count(B)
<1> DEFINE R == A \o B
           S == {Len(A) + i : i \in Records(B)}
<1>1. /\ R \in Seq(Items)
      /\ Len(A) \in Nat /\ Len(B) \in Nat
      /\ DOMAIN A = 1 .. Len(A) /\ DOMAIN B = 1 .. Len(B)
      /\ DOMAIN R = 1 .. Len(A) + Len(B)
      /\ \A i \in 1 .. Len(A) : R[i] = A[i]
      /\ \A i \in 1 .. Len(B) : R[Len(A) + i] = B[i]
  BY ConcatProperties, LenProperties
<1>2. Records(R) = Records(A) \cup S
  <2>1. ASSUME NEW i \in Records(R), i > Len(A) PROVE i \in S
    <3>1. i - Len(A) \in 1 .. Len(B) /\ i = Len(A) + (i - Len(A)) /\ Live(R[i])
      BY <1>1, <2>1 DEF Records
    <3>2. B[i - Len(A)] = R[i] BY <1>1, <3>1
    <3>3. i - Len(A) \in Records(B) BY <1>1, <3>1, <3>2 DEF Records
    <3> QED BY <3>1, <3>3
  <2>2. ASSUME NEW i \in Records(R), ~(i > Len(A)) PROVE i \in Records(A)
    BY <1>1, <2>2 DEF Records
  <2>3. ASSUME NEW i \in Records(A) PROVE i \in Records(R) BY <1>1 DEF Records
  <2>4. ASSUME NEW i \in Records(B) PROVE Len(A) + i \in Records(R) BY <1>1 DEF Records
  <2> QED BY <2>1, <2>2, <2>3, <2>4
<1>3. Records(A) \cap S = {} BY <1>1 DEF Records
<1>4. IsFiniteSet(S) /\ Cardinality(S) = Cardinality(Records(B))
  <2> DEFINE f == [i \in Records(B) |-> Len(A) + i]
  <2>1. Records(B) \subseteq Nat BY <1>1 DEF Records
  <2>2. f \in Bijection(Records(B), S)
    <3>1. f \in [Records(B) -> S] OBVIOUS
    <3>2. \A i, k \in Records(B) : f[i] = f[k] => i = k BY <1>1, <2>1
    <3>3. \A x \in S : \E i \in Records(B) : f[i] = x OBVIOUS
    <3> QED BY <3>1, <3>2, <3>3 DEF Bijection, Injection, Surjection, IsInjective
  <2>3. ExistsBijection(Records(B), S) BY <2>2 DEF ExistsBijection
  <2> QED BY <2>3, CountType, FS_Bijection
<1>5. /\ IsFiniteSet(Records(A)) /\ IsFiniteSet(Records(B))
      /\ Cardinality(Records(A)) \in Nat /\ Cardinality(Records(B)) \in Nat
  BY CountType DEF Count
<1>6. Cardinality(Records(A) \cup S) = Cardinality(Records(A)) + Cardinality(S) - Cardinality(Records(A) \cap S)
  BY <1>4, <1>5, FS_Union
<1>7. Cardinality(Records(A) \cap S) = 0 BY <1>3, FS_EmptySet
<1> QED BY <1>2, <1>4, <1>5, <1>6, <1>7 DEF Count

(* A row of live items counts all of them. *)
LEMMA CountAll ==
  ASSUME NEW row \in Seq(Items), \A i \in DOMAIN row : Live(row[i])
  PROVE  Count(row) = Len(row)
<1>1. DOMAIN row = 1 .. Len(row) /\ Len(row) \in Nat BY LenProperties
<1>2. Records(row) = 1 .. Len(row) BY <1>1 DEF Records
<1> QED BY <1>1, <1>2, FS_Interval DEF Count

(* A row of writes counts all of them. *)
LEMMA CountWrites ==
  ASSUME NEW row \in Seq(Writes)
  PROVE  row \in Seq(Items) /\ Count(row) = Len(row)
<1>1. row \in Seq(Items) BY SeqMonotonic DEF Items
<1>2. \A i \in DOMAIN row : Live(row[i]) BY ItemFacts, LenProperties, ElementOfSeq
<1> QED BY <1>1, <1>2, CountAll

(* The row of nothing counts nothing, that of one item one or nothing. *)
LEMMA CountOne ==
  /\ Count(<<>>) = 0
  /\ \A c \in Items : Count(<<c>>) = IF Live(c) THEN 1 ELSE 0
<1>1. Records(<<>>) = {} BY DEF Records
<1>2. ASSUME NEW c \in Items PROVE Count(<<c>>) = IF Live(c) THEN 1 ELSE 0
  <2>1. CASE Live(c)
    <3>1. Records(<<c>>) = {1} BY <2>1 DEF Records
    <3> QED BY <2>1, <3>1, FS_Singleton DEF Count
  <2>2. CASE ~Live(c)
    <3>1. Records(<<c>>) = {} BY <2>2 DEF Records
    <3> QED BY <2>2, <3>1, FS_EmptySet DEF Count
  <2> QED BY <2>1, <2>2
<1> QED BY <1>1, <1>2, FS_EmptySet DEF Count

------------------------
(* Groups. *)

(* A row is what comes before a cut and what comes after it. *)
LEMMA CutRow ==
  ASSUME NEW S, NEW row \in Seq(S), NEW n \in 0 .. Len(row)
  PROVE  /\ SubSeq(row, 1, n) \in Seq(S) /\ Len(SubSeq(row, 1, n)) = n
         /\ \A i \in 1 .. n : SubSeq(row, 1, n)[i] = row[i]
         /\ SubSeq(row, n + 1, Len(row)) \in Seq(S)
         /\ Len(SubSeq(row, n + 1, Len(row))) = Len(row) - n
         /\ row = SubSeq(row, 1, n) \o SubSeq(row, n + 1, Len(row))
<1> DEFINE A == SubSeq(row, 1, n)
           B == SubSeq(row, n + 1, Len(row))
<1>1. Len(row) \in Nat /\ \A i \in 1 .. Len(row) : row[i] \in S
  BY LenProperties, ElementOfSeq
<1>2. A \in Seq(S) /\ Len(A) = n /\ \A i \in 1 .. n : A[i] = row[i]
  BY <1>1, SubSeqProperties
<1>3. B \in Seq(S) /\ Len(B) = Len(row) - n /\ \A i \in 1 .. Len(row) - n : B[i] = row[n + i]
  <2>1. \A i \in n + 1 .. Len(row) : row[i] \in S BY <1>1
  <2> QED BY <1>1, <2>1, SubSeqProperties
<1> HIDE DEF A, B
<1>4. /\ A \o B \in Seq(S) /\ Len(A \o B) = Len(row)
      /\ \A i \in 1 .. Len(row) : (A \o B)[i] = IF i <= n THEN A[i] ELSE B[i - n]
  <2>1. A \in Seq(S) /\ B \in Seq(S) BY <1>2, <1>3
  <2>2. A \o B \in Seq(S) /\ Len(A \o B) = Len(A) + Len(B) BY <2>1, ConcatProperties
  <2>3. \A i \in 1 .. Len(A) + Len(B) : (A \o B)[i] = IF i <= Len(A) THEN A[i] ELSE B[i - Len(A)]
    BY <2>1, ConcatProperties
  <2>4. Len(A) = n /\ Len(B) = Len(row) - n /\ Len(A) + Len(B) = Len(row)
    BY <1>1, <1>2, <1>3
  <2> QED BY <2>2, <2>3, <2>4
<1>5. \A i \in 1 .. Len(row) : (A \o B)[i] = row[i] BY <1>1, <1>2, <1>3, <1>4
<1>6. row = A \o B BY <1>4, <1>5, SeqEqual
<1> QED BY <1>2, <1>3, <1>6 DEF A, B

(* A queue is its head and its tail, and appending joins one item. *)
LEMMA HeadTail ==
  ASSUME NEW S, NEW row \in Seq(S)
  PROVE  /\ row # <<>> => /\ row = <<Head(row)>> \o Tail(row)
                          /\ Head(row) = row[1] /\ Head(row) \in S
                          /\ Tail(row) \in Seq(S) /\ Len(row) = Len(Tail(row)) + 1
         /\ \A c \in S : /\ Append(row, c) = row \o <<c>>
                         /\ Append(row, c) \in Seq(S)
                         /\ Len(Append(row, c)) = Len(row) + 1
         /\ Len(row) \in Nat /\ (Len(row) = 0 <=> row = <<>>)
<1>1. Len(row) \in Nat /\ (Len(row) = 0 <=> row = <<>>) BY LenProperties, EmptySeq
<1>2. ASSUME row # <<>>
      PROVE  /\ row = <<Head(row)>> \o Tail(row)
             /\ Head(row) = row[1] /\ Head(row) \in S
             /\ Tail(row) \in Seq(S) /\ Len(row) = Len(Tail(row)) + 1
  <2>1. /\ Tail(row) \in Seq(S) /\ Len(Tail(row)) = Len(row) - 1
        /\ \A i \in 1 .. Len(Tail(row)) : Tail(row)[i] = row[i + 1]
        /\ Head(row) = row[1] /\ Head(row) \in S
    BY <1>2, HeadTailProperties
  <2>2. <<Head(row)>> \in Seq(S) /\ Len(<<Head(row)>>) = 1 /\ <<Head(row)>>[1] = row[1]
    BY <2>1
  <2> DEFINE H == <<Head(row)>>
             T == Tail(row)
  <2>3. /\ H \in Seq(S) /\ Len(H) = 1 /\ H[1] = row[1]
        /\ T \in Seq(S) /\ Len(T) = Len(row) - 1
        /\ \A i \in 1 .. Len(T) : T[i] = row[i + 1]
    BY <2>1, <2>2
  <2> HIDE DEF H, T
  <2>4. /\ H \o T \in Seq(S) /\ Len(H \o T) = Len(row)
        /\ \A i \in 1 .. Len(row) : (H \o T)[i] = IF i <= 1 THEN H[i] ELSE T[i - 1]
    <3>1. H \in Seq(S) /\ T \in Seq(S) BY <2>3
    <3>2. H \o T \in Seq(S) /\ Len(H \o T) = Len(H) + Len(T) BY <3>1, ConcatProperties
    <3>3. \A i \in 1 .. Len(H) + Len(T) : (H \o T)[i] = IF i <= Len(H) THEN H[i] ELSE T[i - Len(H)]
      BY <3>1, ConcatProperties
    <3>4. Len(H) = 1 /\ Len(H) + Len(T) = Len(row) BY <1>1, <2>3
    <3> QED BY <3>2, <3>3, <3>4
  <2>5. \A i \in 1 .. Len(row) : (H \o T)[i] = row[i] BY <1>1, <2>3, <2>4
  <2>6. row = H \o T BY <2>4, <2>5, SeqEqual
  <2> QED BY <1>1, <2>1, <2>6 DEF H, T
<1>3. ASSUME NEW c \in S
      PROVE  /\ Append(row, c) = row \o <<c>>
             /\ Append(row, c) \in Seq(S)
             /\ Len(Append(row, c)) = Len(row) + 1
  BY AppendProperties, AppendIsConcat
<1> QED BY <1>1, <1>2, <1>3

(* group_len is the length of some run at the head of the pending queue. *)
LEMMA GroupLength ==
  ASSUME worker.pending \in Seq(Writes), worker.pending # <<>>
  PROVE  /\ group_len \in 1 .. Len(worker.pending)
         /\ \A i \in 2 .. group_len : follows(worker.pending[i], worker.pending[i - 1])
<1> DEFINE N == Min({MaxGroup, Len(worker.pending)})
           S == {n \in 1 .. N : \A i \in 2 .. n : follows(worker.pending[i], worker.pending[i - 1])}
<1>1. MaxGroup \in Nat \ {0} /\ Len(worker.pending) \in Nat \ {0}
  BY SizesAssumption, HeadTail
<1>2. N \in 1 .. Len(worker.pending) BY <1>1 DEF Min
<1> HIDE DEF N
<1>3. 1 \in S BY <1>2
<1>4. \E x \in S : \A y \in S : x >= y
  <2> DEFINE T == {N - n : n \in S}
  <2>1. T \in SUBSET Nat /\ T # {} BY <1>2, <1>3
  <2>2. PICK m \in T : \A k \in T : m <= k BY <2>1, LeastNat
  <2>3. PICK x \in S : m = N - x OBVIOUS
  <2>4. ASSUME NEW y \in S PROVE x >= y
    <3>1. N - x <= N - y BY <2>2, <2>3
    <3>2. x \in Nat /\ y \in Nat /\ N \in Nat BY <1>2
    <3> QED BY <3>1, <3>2
  <2> QED BY <2>4
<1>5. Max(S) \in S BY <1>4 DEF Max
<1>6. group_len = Max(S) BY DEF group_len, N
<1> QED BY <1>2, <1>5, <1>6

(* Writes that follow each other are a run. *)
LEMMA GroupIsRun ==
  ASSUME NEW row \in Seq(Writes), NEW n \in 1 .. Len(row),
         \A i \in 2 .. n : follows(row[i], row[i - 1])
  PROVE  \A i \in 1 .. n : row[i] = Write(row[1].stream, row[1].start + i - 1)
<1> DEFINE Wrong == {i \in 1 .. n : ~ (row[i].stream = row[1].stream /\ row[i].start = row[1].start + i - 1)}
<1>1. Len(row) \in Nat /\ \A i \in 1 .. n : row[i] \in Writes
  BY LenProperties, ElementOfSeq
<1>2. \A i \in 1 .. n : row[i].start \in Nat /\ row[i] = Write(row[i].stream, row[i].start)
  BY <1>1, ItemFacts
<1>3. ASSUME Wrong # {} PROVE FALSE
  <2>0. Wrong \in SUBSET Nat BY <1>1
  <2>1. PICK i \in Wrong : \A k \in Wrong : i <= k
    <3> HIDE DEF Wrong
    <3> QED BY <1>3, <2>0, LeastNat
  <2>2. i # 1 BY <1>1, <1>2, <2>1
  <2>3. i - 1 \in 1 .. n /\ i \in 2 .. n /\ i - 1 \notin Wrong
    <3>1. i \in 1 .. n /\ n \in Nat BY <1>1
    <3>2. i - 1 \in 1 .. n /\ i \in 2 .. n /\ ~(i <= i - 1) BY <2>2, <3>1
    <3> HIDE DEF Wrong
    <3> QED BY <2>1, <3>2
  <2>4. row[i - 1].stream = row[1].stream /\ row[i - 1].start = row[1].start + (i - 1) - 1
    BY <2>3
  <2>5. row[i].stream = row[i - 1].stream /\ row[i].start = row[i - 1].start + 1
    BY <2>3 DEF follows
  <2>6. row[i].start = row[1].start + i - 1
    <3>1. PICK r \in Nat, k \in Nat : r = row[1].start /\ k = i BY <1>1, <1>2, <2>3
    <3>2. row[i - 1].start = r + (k - 1) - 1 /\ row[i].start = row[i - 1].start + 1
      BY <2>4, <2>5, <3>1
    <3>3. row[i].start = r + k - 1 BY <3>2
    <3> QED BY <3>1, <3>3
  <2> QED BY <2>1, <2>4, <2>5, <2>6
<1>4. \A i \in 1 .. n : row[i].stream = row[1].stream /\ row[i].start = row[1].start + i - 1
  BY <1>3
<1> QED BY <1>2, <1>4

(* One live item, and what its place in the order tells. *)
LEMMA OneInOrder ==
  ASSUME NEW c \in Items, NEW s, NEW lo \in Nat
  PROVE  /\ Live(c) /\ c.stream = s /\ c.start = lo => InOrder(<<c>>, s, lo, lo + 1)
         /\ ~(Live(c) /\ c.stream = s) => InOrder(<<c>>, s, lo, lo)
         /\ \A hi \in Nat : InOrder(<<c>>, s, lo, hi) =>
              IF Live(c) /\ c.stream = s THEN c.start = lo /\ hi = lo + 1 ELSE hi = lo
<1>1. CASE Live(c) /\ c.stream = s
  <2>1. At(<<c>>, s) = {1} BY <1>1 DEF At
  <2> DEFINE r == <<c>>
  <2>2. r[1] = c /\ At(r, s) = {1} BY <2>1
  <2>3. PICK n \in Nat : n = c.start BY <1>1, LiveItem
  <2> HIDE DEF r
  <2>4. {r[i].start : i \in At(r, s)} = {n}
    <3>1. \A i \in At(r, s) : r[i].start = n BY <2>2, <2>3
    <3>2. 1 \in At(r, s) BY <2>2
    <3> QED BY <3>1, <3>2
  <2>5. \A i, j \in At(r, s) : ~(i < j) BY <2>2
  <2>6. ASSUME c.start = lo PROVE InOrder(r, s, lo, lo + 1)
    <3>1. {n} = lo .. (lo + 1) - 1 BY <2>3, <2>6
    <3> QED BY <2>4, <2>5, <3>1 DEF InOrder
  <2>7. ASSUME NEW hi \in Nat, InOrder(r, s, lo, hi) PROVE c.start = lo /\ hi = lo + 1
    <3>1. {n} = lo .. hi - 1 /\ lo <= hi BY <2>4, <2>7 DEF InOrder
    <3>2. n \in lo .. hi - 1 BY <3>1
    <3>3. lo \in lo .. hi - 1 /\ hi - 1 \in lo .. hi - 1 BY <3>2
    <3>4. lo = n /\ hi - 1 = n BY <3>1, <3>3
    <3> QED BY <2>3, <3>4
  <2>8. r = <<c>> BY DEF r
  <2> QED BY <1>1, <2>6, <2>7, <2>8
<1>2. CASE ~(Live(c) /\ c.stream = s)
  <2>1. \A i \in DOMAIN <<c>> : Live(<<c>>[i]) => <<c>>[i].stream # s BY <1>2
  <2> QED BY <1>2, <2>1, OthersInOrder, OthersBounds
<1> QED BY <1>1, <1>2

------------------------
(* The channel thread. *)

(* What the type invariant says of the parts the steps work on. *)
LEMMA TypeFacts ==
  ASSUME PersistenceTypeOK
  PROVE  /\ {out, worker.done, worker.failed, worker.pending, queue} \subseteq Seq(Items)
         /\ queue \in Seq(Writes \cup {Manage}) /\ out \in Seq(Completions)
         /\ worker \in WorkerType /\ caller \in CallerType
         /\ worker.done \in Seq(Completions)
         /\ worker.failed \in Seq(Writes) /\ worker.pending \in Seq(Writes)
         /\ worker.faulted \in BOOLEAN /\ worker.deferred \in BOOLEAN
         /\ Capacity \in Nat \ {0} /\ MaxRecord \in Nat \ {0}
         /\ in_flight \in 0 .. Capacity
         /\ {durable, disk, handed, confirmed} \subseteq [Streams -> 0 .. MaxRecord]
         /\ \A s \in Streams : /\ durable[s] \in 0 .. MaxRecord /\ disk[s] \in 0 .. MaxRecord
                               /\ confirmed[s] \in 0 .. MaxRecord /\ handed[s] \in 0 .. MaxRecord
<1>1. /\ queue \in Seq(Writes \cup {Manage}) /\ out \in Seq(Completions)
      /\ worker \in WorkerType /\ caller \in CallerType
      /\ worker.done \in Seq(Completions)
      /\ worker.failed \in Seq(Writes) /\ worker.pending \in Seq(Writes)
      /\ worker.faulted \in BOOLEAN /\ worker.deferred \in BOOLEAN
      /\ in_flight \in 0 .. Capacity
      /\ \A f \in {durable, disk, handed, confirmed} : f \in [Streams -> 0 .. MaxRecord]
  BY DEF PersistenceTypeOK, WorkerType, CallerType
<1>2. /\ Writes \subseteq Items /\ Writes \cup {Manage} \subseteq Items
      /\ Completions \subseteq Items
  BY DEF Items
<1>3. {out, worker.done, worker.failed, worker.pending, queue} \subseteq Seq(Items)
  BY <1>1, <1>2, SeqMonotonic
<1> QED BY <1>1, <1>3, SizesAssumption

(* The parts of the permits, as numbers. *)
LEMMA PermitParts ==
  ASSUME GroupInv
  PROVE  \E d, f, p, q, r \in Nat :
           /\ d = Count(worker.done) /\ f = Len(worker.failed) /\ p = Len(worker.pending)
           /\ q = Count(queue) /\ r = Releasing(worker.pc)
           /\ in_flight = d + f + p + q + r
<1>1. PersistenceTypeOK /\ PermitsHeld BY DEF GroupInv
<1>2. /\ Count(queue) \in Nat /\ Count(worker.done) \in Nat
      /\ Len(worker.failed) \in Nat /\ Len(worker.pending) \in Nat
      /\ Releasing(worker.pc) \in Nat
  BY <1>1, TypeFacts, CountType, LenProperties DEF Releasing
<1> QED BY <1>1, <1>2 DEF PermitsHeld

(* The places of one stream, with the records at which they meet. *)
LEMMA PlacesOf ==
  ASSUME GroupInv, NEW t \in Streams
  PROVE  /\ {confirmed[t], durable[t], disk[t], handed[t]} \subseteq Nat
         /\ \E a, b, c \in 0 .. MaxRecord :
              /\ {a, b, c} \subseteq Nat
              /\ InOrder(out, t, confirmed[t], a)
              /\ InOrder(worker.done, t, a, durable[t])
              /\ InOrder(worker.failed, t, durable[t], b)
              /\ InOrder(worker.pending, t, b, c)
              /\ InOrder(queue, t, c, handed[t])
<1>1. PersistenceTypeOK /\ PlacesInOrder BY DEF GroupInv
<1>2. {confirmed[t], durable[t], disk[t], handed[t]} \subseteq Nat /\ 0 .. MaxRecord \subseteq Nat
  BY <1>1, TypeFacts
<1>3. PICK a \in 0 .. MaxRecord, b \in 0 .. MaxRecord, c \in 0 .. MaxRecord :
        /\ InOrder(out, t, confirmed[t], a)
        /\ InOrder(worker.done, t, a, durable[t])
        /\ InOrder(worker.failed, t, durable[t], b)
        /\ InOrder(worker.pending, t, b, c)
        /\ InOrder(queue, t, c, handed[t])
  BY <1>1 DEF PlacesInOrder, InPlaces
<1> QED BY <1>2, <1>3

(* A record handed over is the last of its stream. *)
LEMMA SubmitKeeps ==
  ASSUME GroupInv, NEW s \in Streams, submit_record(s)
  PROVE  GroupInv'
<1> DEFINE w == Write(s, handed[s])
<1>1. /\ PersistenceTypeOK /\ PlacesInOrder /\ FailedIsRun /\ PhasesExact /\ ManagedAlone /\ PermitsHeld
  BY DEF GroupInv
<1>2. /\ caller.waits = "no" /\ handed[s] < MaxRecord /\ in_flight < Capacity
      /\ Len(queue) < Capacity /\ worker.pc # "stopped"
      /\ queue' = Append(queue, w) /\ in_flight' = in_flight + 1
      /\ handed' = [handed EXCEPT ![s] = @ + 1]
      /\ UNCHANGED <<out, worker, durable, disk, confirmed, caller, budget>>
  BY DEF submit_record, Runs, sinkVars
<1>3. w \in Writes /\ w \in Items /\ Live(w) /\ w.stream = s /\ w.start = handed[s]
  <2>1. handed[s] \in 0 .. MaxRecord - 1 BY <1>1, <1>2, TypeFacts
  <2>2. w \in Writes BY <2>1 DEF Writes
  <2> QED BY <2>2, ItemFacts DEF Items, Write
<1>4. queue \in Seq(Writes) /\ queue \in Seq(Items) /\ <<w>> \in Seq(Items)
  BY <1>1, <1>2, <1>3, TypeFacts DEF ManagedAlone
<1> HIDE DEF w
<1>5. queue' = queue \o <<w>> /\ queue' \in Seq(Writes) /\ Len(queue') = Len(queue) + 1
  BY <1>2, <1>3, <1>4, HeadTail
<1>6. PersistenceTypeOK'
  <2>1. queue' \in Seq(Writes \cup {Manage}) /\ Len(queue') <= Capacity
    <3>1. Writes \subseteq Writes \cup {Manage} /\ Len(queue) \in Nat /\ Capacity \in Nat
      BY <1>1, <1>4, LenProperties, TypeFacts
    <3> QED BY <1>2, <1>5, <3>1, SeqMonotonic
  <2>2. in_flight' \in 0 .. Capacity BY SMTT(30), <1>1, <1>2, TypeFacts
  <2>3. handed' \in [Streams -> 0 .. MaxRecord]
    <3>1. handed \in [Streams -> 0 .. MaxRecord] /\ MaxRecord \in Nat BY <1>1, TypeFacts
    <3>2. handed[s] + 1 \in 0 .. MaxRecord BY <1>2, <3>1
    <3> QED BY <1>2, <3>1, <3>2
  <2> QED BY SMTT(30), <1>1, <1>2, <2>1, <2>2, <2>3 DEF PersistenceTypeOK
<1>7. PlacesInOrder'
  <2> SUFFICES ASSUME NEW t \in Streams
               PROVE  InPlaces(t, out', worker'.done, worker'.failed, worker'.pending, queue',
                               confirmed'[t], durable'[t], handed'[t])
    BY DEF PlacesInOrder
  <2>1. PICK a \in 0 .. MaxRecord, b \in 0 .. MaxRecord, c \in 0 .. MaxRecord :
          /\ InOrder(out, t, confirmed[t], a)
          /\ InOrder(worker.done, t, a, durable[t])
          /\ InOrder(worker.failed, t, durable[t], b)
          /\ InOrder(worker.pending, t, b, c)
          /\ InOrder(queue, t, c, handed[t])
    BY <1>1 DEF PlacesInOrder, InPlaces
  <2>2. handed[t] \in Nat /\ c \in Nat /\ handed'[t] \in Nat
    BY <1>1, <1>6, TypeFacts DEF PersistenceTypeOK
  <2>3. InOrder(<<w>>, t, handed[t], handed'[t])
    <3>1. CASE t = s
      <4>1. handed'[t] = handed[t] + 1
        <5>1. handed \in [Streams -> 0 .. MaxRecord] BY <1>1, TypeFacts
        <5> QED BY <1>2, <3>1, <5>1
      <4>2. PICK n \in Nat : n = handed[t] BY <2>2
      <4>3. InOrder(<<w>>, t, n, n + 1) BY <1>3, <3>1, <4>2, OneInOrder
      <4> QED BY <4>1, <4>2, <4>3
    <3>2. CASE t # s
      <4>1. handed'[t] = handed[t]
        <5>1. handed \in [Streams -> 0 .. MaxRecord] BY <1>1, TypeFacts
        <5> QED BY <1>2, <3>2, <5>1
      <4> QED BY <1>3, <2>2, <3>2, <4>1, OneInOrder
    <3> QED BY <3>1, <3>2
  <2>4. InOrder(queue', t, c, handed'[t]) BY <1>4, <1>5, <2>1, <2>2, <2>3, JoinInOrder
  <2> QED BY <1>2, <2>1, <2>4 DEF InPlaces
<1>8. PermitsHeld'
  <2>1. Count(queue') = Count(queue) + 1 BY <1>3, <1>4, <1>5, CountConcat, CountOne
  <2>2. /\ Count(queue) \in Nat /\ Count(worker.done) \in Nat
        /\ Len(worker.failed) \in Nat /\ Len(worker.pending) \in Nat
    BY <1>1, <1>4, TypeFacts, CountType, LenProperties
  <2>3. worker' = worker /\ in_flight' = in_flight + 1 /\ Releasing(worker.pc) \in Nat
    BY <1>2 DEF Releasing
  <2>4. PICK d \in Nat, f \in Nat, p \in Nat, q \in Nat, r \in Nat :
          /\ d = Count(worker.done) /\ f = Len(worker.failed) /\ p = Len(worker.pending)
          /\ q = Count(queue) /\ r = Releasing(worker.pc)
    BY <2>2, <2>3
  <2>5. in_flight = d + f + p + q + r BY <1>1, <2>4 DEF PermitsHeld
  <2>6. in_flight' = d + f + p + (q + 1) + r BY <2>3, <2>5
  <2>7. in_flight' = Count(worker'.done) + Len(worker'.failed) + Len(worker'.pending) + Count(queue')
                       + Releasing(worker'.pc)
    BY <2>1, <2>3, <2>4, <2>6
  <2> QED BY <2>7 DEF PermitsHeld
<1>9. FailedIsRun' /\ PhasesExact' /\ ManagedAlone'
  <2>1. FailedIsRun' BY <1>1, <1>2 DEF FailedIsRun
  <2>2. PhasesExact'
    <3>1. worker' = worker /\ caller' = caller /\ worker.pc # "stopped" /\ PhasesExact
      BY <1>1, <1>2
    <3> QED BY <3>1 DEF PhasesExact
  <2>3. ManagedAlone' BY <1>1, <1>2, <1>5 DEF ManagedAlone
  <2> QED BY <2>1, <2>2, <2>3
<1> QED BY <1>6, <1>7, <1>8, <1>9 DEF GroupInv

(* A success taken is the first record not confirmed yet of its stream. *)
LEMMA TakeKeeps ==
  ASSUME GroupInv, TakeCompletion
  PROVE  GroupInv'
<1> DEFINE h == Head(out)
<1>1. /\ PersistenceTypeOK /\ PlacesInOrder /\ FailedIsRun /\ PhasesExact /\ ManagedAlone /\ PermitsHeld
  BY DEF GroupInv
<1>2. /\ caller.waits = "no" /\ out # <<>> /\ out' = Tail(out)
      /\ h.ok => confirmed' = [confirmed EXCEPT ![h.stream] = @ + 1] /\ caller' = caller
      /\ ~h.ok => caller' = [caller EXCEPT !.failure = TRUE] /\ confirmed' = confirmed
      /\ UNCHANGED <<queue, in_flight, worker, durable, disk, handed, budget>>
  BY DEF TakeCompletion, sinkVars
<1>3. /\ out = <<h>> \o out' /\ h \in Completions
      /\ out' \in Seq(Completions) /\ Len(out) = Len(out') + 1
      /\ Len(out') \in Nat
  <2>1. out \in Seq(Completions) BY <1>1, TypeFacts
  <2> QED BY <1>2, <2>1, HeadTail
<1>4. /\ h \in Items /\ <<h>> \in Seq(Items) /\ out' \in Seq(Items)
      /\ (Live(h) <=> h.ok) /\ h.ok \in BOOLEAN /\ h.stream \in Streams
  <2>1. h \in Items /\ Completions \subseteq Items BY <1>3 DEF Items
  <2> QED BY <1>3, <2>1, ItemFacts, SeqMonotonic
<1> HIDE DEF h
<1>5. ASSUME NEW t \in Streams
      PROVE  /\ InPlaces(t, out', worker'.done, worker'.failed, worker'.pending, queue',
                         confirmed'[t], durable'[t], handed'[t])
             /\ confirmed'[t] \in 0 .. MaxRecord
  <2>1. PICK a \in 0 .. MaxRecord, b \in 0 .. MaxRecord, c \in 0 .. MaxRecord :
          /\ InOrder(out, t, confirmed[t], a)
          /\ InOrder(worker.done, t, a, durable[t])
          /\ InOrder(worker.failed, t, durable[t], b)
          /\ InOrder(worker.pending, t, b, c)
          /\ InOrder(queue, t, c, handed[t])
    BY <1>1 DEF PlacesInOrder, InPlaces
  <2>2. confirmed[t] \in Nat /\ a \in Nat /\ MaxRecord \in Nat BY <1>1, TypeFacts
  <2>3. PICK mid \in confirmed[t] .. a : InOrder(<<h>>, t, confirmed[t], mid) /\ InOrder(out', t, mid, a)
    BY <1>3, <1>4, <2>1, <2>2, SplitInOrder
  <2>4. mid \in Nat /\ mid \in 0 .. MaxRecord BY <2>1, <2>2, <2>3
  <2>5. IF Live(h) /\ h.stream = t THEN mid = confirmed[t] + 1 ELSE mid = confirmed[t]
    BY <1>4, <2>2, <2>3, <2>4, OneInOrder
  <2>6. mid = confirmed'[t]
    <3>1. confirmed \in [Streams -> 0 .. MaxRecord] BY <1>1 DEF PersistenceTypeOK
    <3>2. CASE h.ok BY <1>2, <1>4, <2>5, <3>1, <3>2
    <3>3. CASE ~h.ok BY <1>2, <1>4, <2>5, <3>1, <3>3
    <3> QED BY <3>2, <3>3
  <2> QED BY <1>2, <2>1, <2>3, <2>4, <2>6 DEF InPlaces
<1>6. PersistenceTypeOK'
  <2>1. confirmed' \in [Streams -> 0 .. MaxRecord]
    <3>1. confirmed \in [Streams -> 0 .. MaxRecord] BY <1>1 DEF PersistenceTypeOK
    <3>2. DOMAIN confirmed' = Streams /\ confirmed' = [t \in Streams |-> confirmed'[t]]
      BY <1>2, <1>4, <3>1
    <3> QED BY <1>5, <3>2
  <2>2. Len(out') <= Capacity
    <3>1. Len(out) <= Capacity /\ Capacity \in Nat
      BY <1>1, SizesAssumption DEF PersistenceTypeOK
    <3> QED BY <1>3, <3>1
  <2>3. caller' \in [waits : {"no", "manage", "replace"}, failure : BOOLEAN,
                     closed : BOOLEAN, refused : {"no", "drained", "busy"}]
    BY <1>1, <1>2, <1>4 DEF PersistenceTypeOK
  <2> QED BY <1>1, <1>2, <1>3, <2>1, <2>2, <2>3 DEF PersistenceTypeOK
<1>7. caller'.waits = caller.waits /\ caller'.closed = caller.closed
  BY <1>1, <1>2, <1>4 DEF PersistenceTypeOK
<1>8. FailedIsRun' /\ PhasesExact' /\ ManagedAlone' /\ PermitsHeld'
  <2>1. FailedIsRun' BY <1>1, <1>2 DEF FailedIsRun
  <2>2. PhasesExact' BY <1>1, <1>2, <1>7 DEF PhasesExact
  <2>3. ManagedAlone' BY <1>1, <1>2, <1>7 DEF ManagedAlone
  <2>4. PermitsHeld' BY <1>1, <1>2 DEF PermitsHeld
  <2> QED BY <2>1, <2>2, <2>3, <2>4
<1>9. PlacesInOrder' BY <1>5 DEF PlacesInOrder
<1> QED BY <1>6, <1>8, <1>9 DEF GroupInv

(* A step of the channel thread that only changes what it waits for. *)
LEMMA CallerKeeps ==
  ASSUME GroupInv, caller.waits = "no",
         caller' \in [waits : {"no", "replace"}, failure : BOOLEAN,
                      closed : BOOLEAN, refused : {"no", "drained", "busy"}],
         caller.closed => caller'.closed,
         budget' \in [fail : 0 .. MaxFailures, manage : 0 .. MaxManaged],
         UNCHANGED <<queue, out, in_flight, worker, durable, disk, handed, confirmed>>
  PROVE  GroupInv'
<1>1. /\ PersistenceTypeOK /\ PlacesInOrder /\ FailedIsRun /\ PhasesExact /\ ManagedAlone /\ PermitsHeld
  BY DEF GroupInv
<1>2. PersistenceTypeOK'
  <2>1. caller' \in [waits : {"no", "manage", "replace"}, failure : BOOLEAN,
                     closed : BOOLEAN, refused : {"no", "drained", "busy"}]
    OBVIOUS
  <2> QED BY <1>1, <2>1 DEF PersistenceTypeOK
<1>3. PlacesInOrder' /\ FailedIsRun' /\ PermitsHeld'
  BY <1>1 DEF PlacesInOrder, FailedIsRun, PermitsHeld
<1>4. PhasesExact' BY <1>1 DEF PhasesExact
<1>5. ManagedAlone' BY <1>1 DEF ManagedAlone
<1> QED BY <1>2, <1>3, <1>4, <1>5 DEF GroupInv

(* Asking for recovery, and shutting down, move no record. *)
LEMMA AskKeeps ==
  ASSUME GroupInv, recover_recording_sink \/ shutdown
  PROVE  GroupInv'
<1>1. caller \in [waits : {"no", "manage", "replace"}, failure : BOOLEAN,
                  closed : BOOLEAN, refused : {"no", "drained", "busy"}]
      /\ budget \in [fail : 0 .. MaxFailures, manage : 0 .. MaxManaged]
  BY DEF GroupInv, PersistenceTypeOK
<1>2. /\ caller.waits = "no"
      /\ caller' = [caller EXCEPT !.waits = "replace"] \/ caller' = [caller EXCEPT !.closed = TRUE]
      /\ UNCHANGED <<queue, out, in_flight, worker, durable, disk, handed, confirmed, budget>>
  BY DEF recover_recording_sink, shutdown, Runs, sinkVars
<1>3. /\ caller' \in [waits : {"no", "replace"}, failure : BOOLEAN,
                      closed : BOOLEAN, refused : {"no", "drained", "busy"}]
      /\ caller.closed => caller'.closed
  BY <1>1, <1>2
<1> QED BY <1>1, <1>2, <1>3, CallerKeeps

(* A management operation enters an empty executor or not at all. *)
LEMMA ManageKeeps ==
  ASSUME GroupInv, manage_sink
  PROVE  GroupInv'
<1>1. /\ PersistenceTypeOK /\ PlacesInOrder /\ FailedIsRun /\ PhasesExact /\ ManagedAlone /\ PermitsHeld
  BY DEF GroupInv
<1>2. /\ caller.waits = "no" /\ ~caller.closed /\ budget.manage > 0
      /\ budget' = [budget EXCEPT !.manage = @ - 1]
      /\ UNCHANGED <<out, in_flight, worker, durable, disk, handed, confirmed>>
  BY DEF manage_sink, Runs, sinkVars
<1>3. caller \in [waits : {"no", "manage", "replace"}, failure : BOOLEAN,
                  closed : BOOLEAN, refused : {"no", "drained", "busy"}]
  BY <1>1 DEF PersistenceTypeOK
<1>4. budget' \in [fail : 0 .. MaxFailures, manage : 0 .. MaxManaged]
  <2>1. budget \in [fail : 0 .. MaxFailures, manage : 0 .. MaxManaged] /\ MaxManaged \in Nat
    BY <1>1, SizesAssumption DEF PersistenceTypeOK
  <2> QED BY <1>2, <2>1
<1>5. CASE in_flight # 0
  <2>1. caller' = [caller EXCEPT !.refused = IF Drained THEN "drained" ELSE "busy",
                                 !.closed = ~Drained] /\ UNCHANGED queue
    BY <1>5 DEF manage_sink
  <2>2. Drained \in BOOLEAN BY DEF Drained
  <2>3. caller' \in [waits : {"no", "replace"}, failure : BOOLEAN,
                     closed : BOOLEAN, refused : {"no", "drained", "busy"}]
    BY <1>2, <1>3, <2>1, <2>2
  <2> QED BY <1>2, <1>4, <2>1, <2>3, CallerKeeps
<1>6. CASE in_flight = 0
  <2>1. queue' = Append(queue, Manage) /\ caller' = [caller EXCEPT !.waits = "manage"]
    BY <1>6 DEF manage_sink
  <2>2. queue = <<>>
    <3>1. PICK d \in Nat, f \in Nat, p \in Nat, q \in Nat, r \in Nat :
            /\ q = Count(queue) /\ in_flight = d + f + p + q + r
      BY PermitParts
    <3>2. q = 0 BY <1>6, <3>1
    <3>3. queue \in Seq(Writes) /\ Len(queue) = 0
      BY <1>1, <1>2, <3>1, <3>2, CountWrites DEF ManagedAlone
    <3> QED BY <3>3, HeadTail
  <2>3. queue' = <<Manage>> BY <2>1, <2>2
  <2>4. Manage \in Items /\ ~Live(Manage) BY ItemFacts DEF Items
  <2>5. Count(queue') = 0 /\ Count(queue) = 0 BY <2>2, <2>3, <2>4, CountOne
  <2>6. PersistenceTypeOK'
    <3>1. queue' \in Seq(Writes \cup {Manage}) /\ Len(queue') <= Capacity
      <4>1. Capacity \in Nat \ {0} BY <1>1, TypeFacts
      <4>2. Len(<<Manage>>) = 1 /\ <<Manage>> \in Seq(Writes \cup {Manage}) OBVIOUS
      <4> QED BY <2>3, <4>1, <4>2
    <3>2. caller' \in [waits : {"no", "manage", "replace"}, failure : BOOLEAN,
                       closed : BOOLEAN, refused : {"no", "drained", "busy"}]
      BY <1>3, <2>1
    <3> QED BY <1>1, <1>2, <1>4, <3>1, <3>2 DEF PersistenceTypeOK
  <2>7. PlacesInOrder'
    <3> SUFFICES ASSUME NEW t \in Streams
                 PROVE  InPlaces(t, out', worker'.done, worker'.failed, worker'.pending, queue',
                                 confirmed'[t], durable'[t], handed'[t])
      BY DEF PlacesInOrder
    <3>1. PICK a \in 0 .. MaxRecord, b \in 0 .. MaxRecord, c \in 0 .. MaxRecord :
            /\ {a, b, c} \subseteq Nat
            /\ InOrder(out, t, confirmed[t], a)
            /\ InOrder(worker.done, t, a, durable[t])
            /\ InOrder(worker.failed, t, durable[t], b)
            /\ InOrder(worker.pending, t, b, c)
            /\ InOrder(queue, t, c, handed[t])
      BY PlacesOf
    <3>2. c \in Nat /\ handed[t] \in Nat BY <3>1, PlacesOf
    <3>3. c = handed[t] BY <2>2, <3>1, <3>2, OthersBounds
    <3>4. InOrder(queue', t, c, handed[t]) BY <2>3, <2>4, <3>2, <3>3, OneInOrder
    <3> QED BY <1>2, <3>1, <3>4 DEF InPlaces
  <2>8. FailedIsRun' BY <1>1, <1>2 DEF FailedIsRun
  <2>9. PhasesExact'
    <3>1. worker' = worker /\ worker.pc # "stopped" /\ PhasesExact
      BY <1>1, <1>2 DEF PhasesExact
    <3> QED BY <3>1 DEF PhasesExact
  <2>10. ManagedAlone'
    <3>1. caller'.waits = "manage" /\ in_flight' = 0 /\ worker' = worker
      BY <1>2, <1>3, <1>6, <2>1
    <3> QED BY <1>1, <2>3, <3>1 DEF ManagedAlone
  <2>11. PermitsHeld'
    <3>1. worker' = worker /\ in_flight' = in_flight BY <1>2
    <3> QED BY <1>1, <2>5, <3>1 DEF PermitsHeld
  <2> QED BY <2>6, <2>7, <2>8, <2>9, <2>10, <2>11 DEF GroupInv
<1> QED BY <1>5, <1>6

------------------------
(* The storage thread. *)

(* A step of the storage thread that moves no record. *)
LEMMA PhaseKeeps ==
  ASSUME GroupInv, NEW p \in {"recv", "persist", "await", "stopped"},
         worker' = [worker EXCEPT !.pc = p], worker.pc # "release",
         p \in {"recv", "persist"} => worker.done = <<>> /\ ~worker.faulted,
         p = "recv" => worker.pending = <<>>,
         p = "persist" => worker.pending # <<>>,
         p = "await" => worker.faulted /\ worker.done = <<>>,
         p = "stopped" => /\ caller.closed /\ worker.done = <<>>
                          /\ worker.faulted \/ (worker.pending = <<>> /\ queue = <<>>),
         UNCHANGED <<queue, out, in_flight, durable, disk, handed, confirmed, caller, budget>>
  PROVE  GroupInv'
<1>1. /\ PersistenceTypeOK /\ PlacesInOrder /\ FailedIsRun /\ PhasesExact /\ ManagedAlone /\ PermitsHeld
      /\ worker \in WorkerType
  BY TypeFacts DEF GroupInv
<1>2. /\ worker'.pc = p /\ worker'.pending = worker.pending /\ worker'.failed = worker.failed
      /\ worker'.done = worker.done /\ worker'.faulted = worker.faulted
      /\ worker'.deferred = worker.deferred /\ worker' \in WorkerType
  BY <1>1 DEF WorkerType
<1>3. PersistenceTypeOK' BY <1>1, <1>2 DEF PersistenceTypeOK, WorkerType
<1>4. PlacesInOrder' BY <1>1, <1>2 DEF PlacesInOrder
<1>5. FailedIsRun' BY <1>1, <1>2 DEF FailedIsRun
<1>6. PhasesExact' BY <1>2 DEF PhasesExact
<1>7. ManagedAlone' BY <1>1, <1>2 DEF ManagedAlone
<1>8. PermitsHeld'
  <2>1. Releasing(worker'.pc) = Releasing(worker.pc) BY <1>2 DEF Releasing
  <2> QED BY <1>1, <1>2, <2>1 DEF PermitsHeld
<1> QED BY <1>3, <1>4, <1>5, <1>6, <1>7, <1>8 DEF GroupInv

(* The worker has room for the record it takes, which goes behind what is
   pending. *)
LEMMA TakesWrite ==
  ASSUME GroupInv, worker.pc \in {"recv", "gather"}, queue # <<>>,
         Head(queue).kind # "manage", queue' = Tail(queue),
         NEW p \in {"gather", "persist"}, worker' = Enqueue(Head(queue), p),
         UNCHANGED <<out, in_flight, durable, disk, handed, confirmed, caller, budget>>
  PROVE  GroupInv'
<1> DEFINE h == Head(queue)
<1>1. /\ PersistenceTypeOK /\ PlacesInOrder /\ FailedIsRun /\ PhasesExact /\ ManagedAlone /\ PermitsHeld
      /\ worker \in WorkerType
  BY TypeFacts DEF GroupInv
<1>2. /\ worker.done = <<>> /\ ~worker.faulted /\ worker.failed = <<>>
      /\ worker.pc # "release" /\ worker.pc # "stopped"
  BY <1>1 DEF PhasesExact, FailedIsRun
<1>3. caller.waits # "manage" /\ queue \in Seq(Writes)
  <2>1. CASE caller.waits = "manage"
    <3>1. queue = <<Manage>> BY <1>1, <2>1 DEF ManagedAlone
    <3>2. Head(queue) = Manage BY <3>1
    <3> QED BY <3>2, ItemFacts
  <2> QED BY <1>1, <2>1 DEF ManagedAlone
<1>4. /\ queue = <<h>> \o queue' /\ h \in Writes
      /\ queue' \in Seq(Writes) /\ Len(queue) = Len(queue') + 1 /\ Len(queue') \in Nat
  BY <1>3, HeadTail
<1>5. h \in Items /\ Live(h) /\ <<h>> \in Seq(Items) BY <1>4, ItemFacts DEF Items
<1>6. /\ worker.pending \in Seq(Writes) /\ worker.pending \in Seq(Items)
      /\ queue' \in Seq(Items) /\ queue \in Seq(Items)
      /\ Count(queue) = Len(queue) /\ Count(queue') = Len(queue')
  BY <1>1, <1>3, <1>4, TypeFacts, CountWrites
<1>7. Len(worker.pending) + Len(worker.failed) + Len(worker.done) < Capacity
  <2>1. PICK d \in Nat, f \in Nat, m \in Nat, q \in Nat, r \in Nat :
          /\ m = Len(worker.pending) /\ q = Count(queue)
          /\ in_flight = d + f + m + q + r
    BY PermitParts
  <2>2. in_flight \in 0 .. Capacity /\ Capacity \in Nat BY <1>1, TypeFacts
  <2>3. m < Capacity
    <3>1. PICK l \in Nat : l = Len(queue') BY <1>4
    <3>2. q = l + 1 BY <1>4, <1>6, <2>1, <3>1
    <3>3. in_flight = d + f + m + q + r BY <2>1
    <3>4. PICK k \in Nat, x \in Nat : k = Capacity /\ x = in_flight /\ x <= k BY <2>2
    <3>5. x = d + f + m + (l + 1) + r BY <3>2, <3>3, <3>4
    <3>6. m < k BY <3>4, <3>5
    <3> QED BY <3>4, <3>6
  <2>4. Len(worker.failed) = 0 /\ Len(worker.done) = 0 BY <1>2
  <2> QED BY <2>1, <2>3, <2>4
<1>8. worker' = [worker EXCEPT !.pending = Append(@, h), !.pc = p]
  <2>1. ~(Len(worker.pending) + Len(worker.failed) + Len(worker.done) >= Capacity)
    <3>1. PICK n \in Int : n = Len(worker.pending) + Len(worker.failed) + Len(worker.done)
      <4>1. Len(worker.pending) \in Nat /\ Len(worker.failed) = 0 /\ Len(worker.done) = 0
        BY <1>2, <1>6, LenProperties
      <4> QED BY <4>1
    <3>2. Capacity \in Nat BY <1>1, TypeFacts
    <3>3. n < Capacity BY <1>7, <3>1
    <3>4. ~(n >= Capacity) BY <3>2, <3>3
    <3> QED BY <3>1, <3>4
  <2> QED BY <1>2, <2>1 DEF Enqueue
<1> HIDE DEF h
<1>9. /\ Append(worker.pending, h) = worker.pending \o <<h>>
      /\ Append(worker.pending, h) \in Seq(Writes)
      /\ Len(Append(worker.pending, h)) = Len(worker.pending) + 1
  BY <1>4, <1>6, HeadTail
<1>10. /\ worker'.pc = p /\ worker'.pending = worker.pending \o <<h>> /\ worker'.failed = worker.failed
       /\ worker'.done = worker.done /\ worker'.faulted = worker.faulted
       /\ worker'.deferred = worker.deferred /\ worker' \in WorkerType
  BY <1>1, <1>8, <1>9 DEF WorkerType
<1>11. PersistenceTypeOK'
  <2>1. queue' \in Seq(Writes \cup {Manage}) /\ Len(queue') <= Capacity
    <3>1. Writes \subseteq Writes \cup {Manage} /\ Len(queue) <= Capacity /\ Capacity \in Nat
      BY <1>1, TypeFacts DEF PersistenceTypeOK
    <3> QED BY <1>4, <3>1, SeqMonotonic
  <2> QED BY <1>1, <1>10, <2>1 DEF PersistenceTypeOK, WorkerType
<1>12. PlacesInOrder'
  <2> SUFFICES ASSUME NEW t \in Streams
               PROVE  InPlaces(t, out', worker'.done, worker'.failed, worker'.pending, queue',
                               confirmed'[t], durable'[t], handed'[t])
    BY DEF PlacesInOrder
  <2>1. PICK a \in 0 .. MaxRecord, b \in 0 .. MaxRecord, c \in 0 .. MaxRecord :
          /\ {a, b, c} \subseteq Nat
          /\ InOrder(out, t, confirmed[t], a)
          /\ InOrder(worker.done, t, a, durable[t])
          /\ InOrder(worker.failed, t, durable[t], b)
          /\ InOrder(worker.pending, t, b, c)
          /\ InOrder(queue, t, c, handed[t])
    BY PlacesOf
  <2>2. c \in Nat /\ b \in Nat /\ handed[t] \in Nat BY <2>1, PlacesOf
  <2>3. PICK mid \in c .. handed[t] : InOrder(<<h>>, t, c, mid) /\ InOrder(queue', t, mid, handed[t])
    BY <1>4, <1>5, <1>6, <2>1, <2>2, SplitInOrder
  <2>4. mid \in Nat /\ mid \in 0 .. MaxRecord
    <3>1. handed[t] \in 0 .. MaxRecord /\ MaxRecord \in Nat BY <1>1, TypeFacts
    <3> QED BY <2>2, <2>3, <3>1
  <2>5. InOrder(worker.pending \o <<h>>, t, b, mid)
    BY <1>5, <1>6, <2>1, <2>2, <2>3, <2>4, JoinInOrder
  <2> QED BY <1>10, <2>1, <2>3, <2>4, <2>5 DEF InPlaces
<1>13. FailedIsRun' BY <1>1, <1>2, <1>10 DEF FailedIsRun
<1>14. PhasesExact'
  <2>1. worker'.pending # <<>> BY <1>6, <1>8, <1>9, <1>10, AppendProperties, <1>4
  <2> QED BY <1>2, <1>10, <2>1 DEF PhasesExact
<1>15. ManagedAlone' BY <1>1, <1>3, <1>4, <1>10 DEF ManagedAlone
<1>16. PermitsHeld'
  <2>1. PICK d \in Nat, f \in Nat, m \in Nat, q \in Nat, r \in Nat :
          /\ d = Count(worker.done) /\ f = Len(worker.failed) /\ m = Len(worker.pending)
          /\ q = Count(queue) /\ r = Releasing(worker.pc)
          /\ in_flight = d + f + m + q + r
    BY PermitParts
  <2>2. r = 0 /\ Releasing(p) = 0 BY <1>2, <2>1 DEF Releasing
  <2>3. Count(queue') = q - 1 /\ Len(worker'.pending) = m + 1
    <3>1. PICK l \in Nat : l = Len(queue') BY <1>4
    <3>2. q = l + 1 /\ Count(queue') = l BY <1>4, <1>6, <2>1, <3>1
    <3>3. Len(worker'.pending) = m + 1 BY <1>9, <1>10, <2>1
    <3> QED BY <3>2, <3>3
  <2>4. in_flight = d + f + (m + 1) + (q - 1) + 0
    <3>1. in_flight = d + f + m + q + 0 BY <2>1, <2>2
    <3> QED BY <3>1
  <2>5. in_flight' = Count(worker'.done) + Len(worker'.failed) + Len(worker'.pending) + Count(queue')
                       + Releasing(worker'.pc)
    BY <1>10, <2>1, <2>2, <2>3, <2>4
  <2> QED BY <2>5 DEF PermitsHeld
<1> QED BY <1>11, <1>12, <1>13, <1>14, <1>15, <1>16 DEF GroupInv

(* The first command is a record, or the management operation that has
   the executor to itself and is answered. *)
LEMMA ReceiveKeeps ==
  ASSUME GroupInv, ReceiveFirst
  PROVE  GroupInv'
<1>1. /\ PersistenceTypeOK /\ PlacesInOrder /\ FailedIsRun /\ PhasesExact /\ ManagedAlone /\ PermitsHeld
  BY DEF GroupInv
<1>2. worker.pc = "recv" /\ queue # <<>> /\ queue' = Tail(queue) BY DEF ReceiveFirst
<1>3. CASE Head(queue).kind # "manage"
  <2>1. /\ worker' = Enqueue(Head(queue), "gather")
        /\ UNCHANGED <<out, in_flight, durable, disk, handed, confirmed, caller, budget>>
    BY <1>3 DEF ReceiveFirst, sinkVars, channelVars
  <2> QED BY <1>2, <1>3, <2>1, TakesWrite
<1>4. CASE Head(queue).kind = "manage"
  <2>1. /\ caller' = [caller EXCEPT !.waits = "no"]
        /\ UNCHANGED <<out, in_flight, worker, durable, disk, handed, confirmed, budget>>
    BY <1>4 DEF ReceiveFirst, Operate, sinkVars
  <2>2. caller.waits = "manage" /\ queue = <<Manage>>
    <3>1. ASSUME caller.waits # "manage" PROVE FALSE
      <4>1. queue \in Seq(Writes) BY <1>1, <3>1 DEF ManagedAlone
      <4>2. Head(queue) \in Writes BY <1>2, <4>1, HeadTail
      <4>3. Head(queue).kind = "write" BY <4>2, ItemFacts
      <4> QED BY <1>4, <4>3
    <3> QED BY <1>1, <3>1 DEF ManagedAlone
  <2>3. queue' = <<>> BY <1>2, <2>2
  <2>4. caller' \in CallerType /\ caller'.waits = "no" /\ caller'.closed = caller.closed
    <3>1. caller \in CallerType BY <1>1, TypeFacts
    <3> QED BY <2>1, <3>1 DEF CallerType
  <2>5. queue' \in Seq(Writes) /\ queue' \in Seq(Writes \cup {Manage}) /\ Len(queue') <= Capacity
    <3>1. Capacity \in Nat BY <1>1, TypeFacts
    <3>2. <<>> \in Seq(Writes) /\ <<>> \in Seq(Writes \cup {Manage}) /\ Len(<<>>) = 0
      BY EmptySeq
    <3> QED BY <2>3, <3>1, <3>2
  <2>6. PersistenceTypeOK' BY <1>1, <2>1, <2>4, <2>5 DEF PersistenceTypeOK, CallerType
  <2>7. ~Live(Manage) /\ Manage \in Items /\ Count(queue) = 0 /\ Count(queue') = 0
    <3>1. ~Live(Manage) /\ Manage \in Items BY ItemFacts DEF Items
    <3> QED BY <2>2, <2>3, <3>1, CountOne
  <2>8. PlacesInOrder'
    <3> SUFFICES ASSUME NEW t \in Streams
                 PROVE  InPlaces(t, out', worker'.done, worker'.failed, worker'.pending, queue',
                                 confirmed'[t], durable'[t], handed'[t])
      BY DEF PlacesInOrder
    <3>1. PICK a \in 0 .. MaxRecord, b \in 0 .. MaxRecord, c \in 0 .. MaxRecord :
            /\ {a, b, c} \subseteq Nat
            /\ InOrder(out, t, confirmed[t], a)
            /\ InOrder(worker.done, t, a, durable[t])
            /\ InOrder(worker.failed, t, durable[t], b)
            /\ InOrder(worker.pending, t, b, c)
            /\ InOrder(queue, t, c, handed[t])
      BY PlacesOf
    <3>2. c \in Nat /\ handed[t] \in Nat BY <3>1, PlacesOf
    <3>3. c = handed[t] BY <2>2, <2>7, <3>1, <3>2, OneInOrder
    <3>4. InOrder(queue', t, c, handed[t]) BY <2>3, <3>2, <3>3, NothingInOrder
    <3> QED BY <2>1, <3>1, <3>4 DEF InPlaces
  <2>9. FailedIsRun' BY <1>1, <2>1 DEF FailedIsRun
  <2>10. PhasesExact'
    <3>1. worker' = worker /\ worker.pc = "recv" /\ PhasesExact BY <1>1, <1>2, <2>1
    <3> QED BY <3>1 DEF PhasesExact
  <2>11. ManagedAlone' BY <1>1, <2>1, <2>4, <2>5 DEF ManagedAlone
  <2>12. PermitsHeld'
    <3>1. worker' = worker /\ in_flight' = in_flight BY <2>1
    <3> QED BY <1>1, <2>7, <3>1 DEF PermitsHeld
  <2> QED BY <2>6, <2>8, <2>9, <2>10, <2>11, <2>12 DEF GroupInv
<1> QED BY <1>3, <1>4

(* While a group is gathered every command is a record: the management
   operation would have found a permit taken. *)
LEMMA GatherKeeps ==
  ASSUME GroupInv, Gather
  PROVE  GroupInv'
<1>1. /\ PersistenceTypeOK /\ FailedIsRun /\ PhasesExact /\ ManagedAlone BY DEF GroupInv
<1>2. /\ worker.pc = "gather" /\ queue # <<>> /\ queue' = Tail(queue)
      /\ UNCHANGED <<out, in_flight, durable, disk, handed, confirmed, caller, budget>>
  BY DEF Gather, sinkVars, channelVars
<1>3. Head(queue).kind # "manage"
  <2>1. CASE caller.waits = "manage"
    <3>1. PICK d \in Nat, f \in Nat, m \in Nat, q \in Nat, r \in Nat :
            m = Len(worker.pending) /\ in_flight = d + f + m + q + r
      BY PermitParts
    <3>2. in_flight = 0 BY <1>1, <2>1 DEF ManagedAlone
    <3>3. m = 0
      <4>1. in_flight = d + f + m + q + r BY <3>1
      <4>2. d + f + m + q + r = 0 BY <3>2, <4>1
      <4> QED BY <4>2
    <3>4. worker.pending = <<>>
      <4>1. worker.pending \in Seq(Writes) BY <1>1, TypeFacts
      <4>2. Len(worker.pending) = 0 BY <3>1, <3>3
      <4> QED BY <4>1, <4>2, HeadTail
    <3> QED BY <1>1, <1>2, <3>4 DEF PhasesExact
  <2>2. CASE caller.waits # "manage"
    <3>1. queue \in Seq(Writes) BY <1>1, <2>2 DEF ManagedAlone
    <3>2. Head(queue) \in Writes BY <1>2, <3>1, HeadTail
    <3> QED BY <3>2, ItemFacts
  <2> QED BY <2>1, <2>2
<1>4. worker' = Enqueue(Head(queue), IF follows(Head(queue), Last(worker.pending))
                                     THEN "gather" ELSE "persist")
  BY <1>3 DEF Gather
<1> DEFINE p == IF follows(Head(queue), Last(worker.pending)) THEN "gather" ELSE "persist"
<1>5. p \in {"gather", "persist"} /\ worker' = Enqueue(Head(queue), p) BY <1>4
<1> HIDE DEF p
<1> QED BY <1>2, <1>3, <1>5, TakesWrite

(* The steps that only change what the storage thread does next. *)
LEMMA TurnKeeps ==
  ASSUME GroupInv, Disconnected \/ GroupEnds \/ StopFaulted \/ LoopAgain
  PROVE  GroupInv'
<1>1. /\ PersistenceTypeOK /\ FailedIsRun /\ PhasesExact /\ ManagedAlone BY DEF GroupInv
<1>2. CASE Disconnected
  <2>1. /\ worker.pc = "recv" /\ queue = <<>> /\ caller.closed
        /\ worker' = [worker EXCEPT !.pc = "stopped"]
        /\ UNCHANGED <<queue, out, in_flight, durable, disk, handed, confirmed, caller, budget>>
    BY <1>2 DEF Disconnected, sinkVars, channelVars
  <2>2. worker.done = <<>> /\ worker.pending = <<>> BY <1>1, <2>1 DEF PhasesExact
  <2> QED BY <2>1, <2>2, PhaseKeeps
<1>3. CASE GroupEnds
  <2>1. /\ worker.pc = "gather"
        /\ worker' = [worker EXCEPT !.pc = "persist"]
        /\ UNCHANGED <<queue, out, in_flight, durable, disk, handed, confirmed, caller, budget>>
    BY <1>3 DEF GroupEnds, sinkVars, channelVars
  <2>2. worker.done = <<>> /\ ~worker.faulted /\ worker.pending # <<>>
    BY <1>1, <2>1 DEF PhasesExact
  <2> QED BY <2>1, <2>2, PhaseKeeps
<1>4. CASE StopFaulted
  <2>1. /\ worker.pc = "await" /\ caller.closed
        /\ worker' = [worker EXCEPT !.pc = "stopped"]
        /\ UNCHANGED <<queue, out, in_flight, durable, disk, handed, confirmed, caller, budget>>
    BY <1>4 DEF StopFaulted, sinkVars, channelVars
  <2>2. worker.done = <<>> /\ worker.faulted BY <1>1, <2>1 DEF PhasesExact
  <2> QED BY <2>1, <2>2, PhaseKeeps
<1>5. CASE LoopAgain
  <2> DEFINE p == IF worker.faulted THEN "await"
                  ELSE IF worker.pending # <<>> THEN "persist" ELSE "recv"
  <2>1. ~worker.deferred BY <1>1 DEF ManagedAlone
  <2>2. /\ worker.pc = "forward" /\ worker.done = <<>>
        /\ worker' = [worker EXCEPT !.pc = p]
        /\ UNCHANGED <<queue, out, in_flight, durable, disk, handed, confirmed, caller, budget>>
    BY <1>5, <2>1 DEF LoopAgain, sinkVars, channelVars
  <2>3. /\ p \in {"recv", "persist", "await"}
        /\ p = "recv" => ~worker.faulted /\ worker.pending = <<>>
        /\ p = "persist" => ~worker.faulted /\ worker.pending # <<>>
        /\ p = "await" => worker.faulted
    OBVIOUS
  <2> HIDE DEF p
  <2> QED BY <2>2, <2>3, PhaseKeeps
<1> QED BY <1>2, <1>3, <1>4, <1>5

(* A completion goes to the end of the completion channel. *)
LEMMA SendKeeps ==
  ASSUME GroupInv, SendCompletion
  PROVE  GroupInv'
<1> DEFINE h == Head(worker.done)
           T == Tail(worker.done)
           p == IF h.ok THEN "release" ELSE "forward"
<1>1. /\ PersistenceTypeOK /\ PlacesInOrder /\ FailedIsRun /\ PhasesExact /\ ManagedAlone /\ PermitsHeld
      /\ worker \in WorkerType
  BY TypeFacts DEF GroupInv
<1>2. /\ worker.pc = "forward" /\ worker.done # <<>> /\ Len(out) < Capacity
      /\ out' = Append(out, h)
      /\ worker' = [worker EXCEPT !.done = Tail(@), !.pc = p]
      /\ UNCHANGED <<queue, in_flight, durable, disk, handed, confirmed, caller, budget>>
  BY DEF SendCompletion, sinkVars, channelVars
<1>3. /\ worker.done = <<h>> \o T /\ h \in Completions /\ T \in Seq(Completions)
      /\ worker.done \in Seq(Completions) /\ out \in Seq(Completions)
  BY <1>1, <1>2, TypeFacts, HeadTail
<1>4. /\ h \in Items /\ (Live(h) <=> h.ok) /\ h.ok \in BOOLEAN
      /\ <<h>> \in Seq(Items) /\ T \in Seq(Items) /\ out \in Seq(Items) /\ worker.done \in Seq(Items)
  <2>1. Completions \subseteq Items BY DEF Items
  <2>2. h \in Items /\ (Live(h) <=> h.ok) /\ h.ok \in BOOLEAN BY <1>3, <2>1, ItemFacts
  <2> QED BY <1>3, <2>1, <2>2, SeqMonotonic
<1>5. p \in {"release", "forward"} /\ Releasing(p) = (IF Live(h) THEN 1 ELSE 0)
  BY <1>4 DEF Releasing
<1>6. worker' = [worker EXCEPT !.done = T, !.pc = p] BY <1>2
<1> HIDE DEF h, T, p
<1>7. out' = out \o <<h>> /\ out' \in Seq(Completions) /\ Len(out') = Len(out) + 1
  BY <1>2, <1>3, HeadTail
<1>8. /\ worker'.pc = p /\ worker'.pending = worker.pending /\ worker'.failed = worker.failed
      /\ worker'.done = T /\ worker'.faulted = worker.faulted
      /\ worker'.deferred = worker.deferred /\ worker' \in WorkerType
  BY <1>1, <1>3, <1>5, <1>6 DEF WorkerType
<1>9. PersistenceTypeOK'
  <2>1. Len(out') <= Capacity
    <3>1. PICK n \in Nat, k \in Nat : n = Len(out) /\ k = Capacity
      BY <1>1, <1>3, TypeFacts, LenProperties
    <3> QED BY <1>2, <1>7, <3>1
  <2> QED BY <1>1, <1>2, <1>7, <1>8, <2>1 DEF PersistenceTypeOK, WorkerType
<1>10. PlacesInOrder'
  <2> SUFFICES ASSUME NEW t \in Streams
               PROVE  InPlaces(t, out', worker'.done, worker'.failed, worker'.pending, queue',
                               confirmed'[t], durable'[t], handed'[t])
    BY DEF PlacesInOrder
  <2>1. PICK a \in 0 .. MaxRecord, b \in 0 .. MaxRecord, c \in 0 .. MaxRecord :
          /\ {a, b, c} \subseteq Nat
          /\ InOrder(out, t, confirmed[t], a)
          /\ InOrder(worker.done, t, a, durable[t])
          /\ InOrder(worker.failed, t, durable[t], b)
          /\ InOrder(worker.pending, t, b, c)
          /\ InOrder(queue, t, c, handed[t])
    BY PlacesOf
  <2>2. a \in Nat /\ confirmed[t] \in Nat /\ durable[t] \in Nat BY <2>1, PlacesOf
  <2>3. PICK mid \in a .. durable[t] : InOrder(<<h>>, t, a, mid) /\ InOrder(T, t, mid, durable[t])
    BY <1>3, <1>4, <2>1, <2>2, SplitInOrder
  <2>4. mid \in Nat /\ mid \in 0 .. MaxRecord
    <3>1. durable[t] \in 0 .. MaxRecord /\ MaxRecord \in Nat BY <1>1, TypeFacts
    <3> QED BY <2>2, <2>3, <3>1
  <2>5. InOrder(out', t, confirmed[t], mid)
    BY <1>4, <1>7, <2>1, <2>2, <2>3, <2>4, JoinInOrder
  <2> QED BY <1>2, <1>8, <2>1, <2>3, <2>4, <2>5 DEF InPlaces
<1>11. FailedIsRun' BY <1>1, <1>2, <1>8 DEF FailedIsRun
<1>12. PhasesExact' BY <1>5, <1>8 DEF PhasesExact
<1>13. ManagedAlone' BY <1>1, <1>2, <1>8 DEF ManagedAlone
<1>14. PermitsHeld'
  <2>1. PICK d \in Nat, f \in Nat, m \in Nat, q \in Nat, r \in Nat :
          /\ d = Count(worker.done) /\ f = Len(worker.failed) /\ m = Len(worker.pending)
          /\ q = Count(queue) /\ r = Releasing(worker.pc)
          /\ in_flight = d + f + m + q + r
    BY PermitParts
  <2>2. r = 0 BY <1>2, <2>1 DEF Releasing
  <2>3. PICK l \in Nat, x \in Nat : l = Count(T) /\ x = Releasing(p)
    BY <1>4, <1>5, CountType
  <2>4. Count(<<h>>) = x BY <1>4, <1>5, <2>3, CountOne
  <2>5. d = x + l BY <1>3, <1>4, <2>1, <2>3, <2>4, CountConcat
  <2>6. in_flight = l + f + m + q + x
    <3>1. in_flight = d + f + m + q + 0 BY <2>1, <2>2
    <3> QED BY <2>5, <3>1
  <2>7. in_flight' = Count(worker'.done) + Len(worker'.failed) + Len(worker'.pending) + Count(queue')
                       + Releasing(worker'.pc)
    BY <1>2, <1>8, <2>1, <2>3, <2>6
  <2> QED BY <2>7 DEF PermitsHeld
<1> QED BY <1>9, <1>10, <1>11, <1>12, <1>13, <1>14 DEF GroupInv

(* The permit of a durable record is given back once. *)
LEMMA ReleaseKeeps ==
  ASSUME GroupInv, ReleasePermit
  PROVE  GroupInv'
<1>1. /\ PersistenceTypeOK /\ PlacesInOrder /\ FailedIsRun /\ PhasesExact /\ ManagedAlone /\ PermitsHeld
      /\ worker \in WorkerType
  BY TypeFacts DEF GroupInv
<1>2. /\ worker.pc = "release" /\ in_flight' = in_flight - 1
      /\ worker' = [worker EXCEPT !.pc = "forward"]
      /\ UNCHANGED <<queue, out, durable, disk, handed, confirmed, caller, budget>>
  BY DEF ReleasePermit, sinkVars, channelVars
<1>3. /\ worker'.pc = "forward" /\ worker'.pending = worker.pending /\ worker'.failed = worker.failed
      /\ worker'.done = worker.done /\ worker'.faulted = worker.faulted
      /\ worker'.deferred = worker.deferred /\ worker' \in WorkerType
  BY <1>1, <1>2 DEF WorkerType
<1>4. PICK d \in Nat, f \in Nat, m \in Nat, q \in Nat, r \in Nat :
        /\ d = Count(worker.done) /\ f = Len(worker.failed) /\ m = Len(worker.pending)
        /\ q = Count(queue) /\ r = Releasing(worker.pc)
        /\ in_flight = d + f + m + q + r
  BY PermitParts
<1>5. r = 1 /\ Releasing(worker'.pc) = 0 BY <1>2, <1>3, <1>4 DEF Releasing
<1>6. in_flight = d + f + m + q + 1 BY <1>4, <1>5
<1>7. PersistenceTypeOK'
  <2>1. in_flight' \in 0 .. Capacity
    <3>1. in_flight \in 0 .. Capacity /\ Capacity \in Nat BY <1>1, TypeFacts
    <3>2. in_flight >= 1 BY <1>6
    <3> QED BY <1>2, <3>1, <3>2
  <2> QED BY <1>1, <1>2, <1>3, <2>1 DEF PersistenceTypeOK, WorkerType
<1>8. PlacesInOrder' /\ FailedIsRun'
  <2>1. PlacesInOrder' BY <1>1, <1>2, <1>3 DEF PlacesInOrder
  <2>2. FailedIsRun' BY <1>1, <1>2, <1>3 DEF FailedIsRun
  <2> QED BY <2>1, <2>2
<1>9. PhasesExact' BY <1>3 DEF PhasesExact
<1>10. ManagedAlone'
  <2>1. caller.waits # "manage"
    <3>1. ASSUME caller.waits = "manage" PROVE FALSE
      <4>1. in_flight = 0 BY <1>1, <3>1 DEF ManagedAlone
      <4> QED BY <1>6, <4>1
    <3> QED BY <3>1
  <2> QED BY <1>1, <1>2, <1>3, <2>1 DEF ManagedAlone
<1>11. PermitsHeld'
  <2>1. in_flight' = d + f + m + q + 0 BY <1>2, <1>6
  <2>2. in_flight' = Count(worker'.done) + Len(worker'.failed) + Len(worker'.pending) + Count(queue')
                       + Releasing(worker'.pc)
    BY <1>2, <1>3, <1>4, <1>5, <2>1
  <2> QED BY <2>2 DEF PermitsHeld
<1> QED BY <1>7, <1>8, <1>9, <1>10, <1>11 DEF GroupInv

------------------------
(* Groups written, failed and recovered. *)

(* The attempt of the storage thread is a run at the head of what is
   pending. *)
LEMMA GroupCut ==
  ASSUME PersistenceTypeOK, worker.pending # <<>>, NEW n \in 1 .. group_len
  PROVE  /\ n \in 1 .. Len(worker.pending) /\ n \in Nat
         /\ worker.pending[1] \in Writes /\ worker.pending[1].stream \in Streams
         /\ worker.pending[1].start \in Nat
         /\ Group(n) \in Seq(Writes) /\ Group(n) \in Seq(Items) /\ Len(Group(n)) = n
         /\ Rest(n) \in Seq(Writes) /\ Rest(n) \in Seq(Items)
         /\ Len(worker.pending) = n + Len(Rest(n)) /\ Len(Rest(n)) \in Nat
         /\ worker.pending = Group(n) \o Rest(n)
         /\ \A i \in DOMAIN Group(n) :
              /\ i \in 1 .. n
              /\ Group(n)[i] = Write(worker.pending[1].stream, worker.pending[1].start + i - 1)
              /\ Live(Group(n)[i]) /\ Group(n)[i].stream = worker.pending[1].stream
              /\ Group(n)[i].start = worker.pending[1].start + i - 1
<1> DEFINE row == worker.pending
           G == SubSeq(row, 1, n)
           R == SubSeq(row, n + 1, Len(row))
           s == row[1].stream
           x == row[1].start
<1>1. row \in Seq(Writes) /\ row # <<>> /\ Len(row) \in Nat BY TypeFacts, LenProperties
<1>2. /\ group_len \in 1 .. Len(row)
      /\ \A i \in 2 .. group_len : follows(row[i], row[i - 1])
  BY <1>1, GroupLength
<1>3. n \in 1 .. Len(row) /\ n \in 0 .. Len(row) /\ n \in Nat BY <1>1, <1>2
<1>4. \A i \in 2 .. n : follows(row[i], row[i - 1])
  <2>1. group_len \in Nat BY <1>2
  <2> QED BY <1>2, <1>3, <2>1
<1>5. row[1] \in Writes /\ s \in Streams /\ x \in Nat
  <2>1. row[1] \in Writes BY <1>1, <1>3, ElementOfSeq
  <2> QED BY <2>1, ItemFacts
<1> HIDE DEF row
<1>6. /\ G \in Seq(Writes) /\ Len(G) = n
      /\ \A i \in 1 .. n : G[i] = row[i]
      /\ R \in Seq(Writes)
      /\ Len(R) = Len(row) - n
      /\ row = G \o R
  BY <1>1, <1>3, CutRow
<1>7. \A i \in 1 .. n : row[i] = Write(s, x + i - 1) BY <1>1, <1>3, <1>4, GroupIsRun
<1>8. DOMAIN G = 1 .. n BY <1>6, LenProperties
<1>9. \A i \in 1 .. n : G[i] = Write(s, x + i - 1) /\ G[i] \in Writes
  <2>1. \A i \in 1 .. n : G[i] = Write(s, x + i - 1) BY <1>6, <1>7
  <2>2. \A i \in 1 .. n : G[i] \in Writes BY <1>6, ElementOfSeq
  <2> QED BY <2>1, <2>2
<1>10. G \in Seq(Items) /\ R \in Seq(Items) BY <1>6, CountWrites
<1>11. Len(row) = n + Len(R) /\ Len(R) \in Nat
  <2>1. Len(R) \in Nat BY <1>6, LenProperties
  <2> QED BY <1>1, <1>3, <1>6, <2>1
<1> HIDE DEF G, R, s, x
<1>12. \A i \in 1 .. n : Live(G[i]) /\ G[i].stream = s /\ G[i].start = x + i - 1
  <2> SUFFICES ASSUME NEW i \in 1 .. n
               PROVE  Live(G[i]) /\ G[i].stream = s /\ G[i].start = x + i - 1
    OBVIOUS
  <2>1. G[i] = Write(s, x + i - 1) /\ G[i] \in Writes BY <1>9
  <2>2. Live(G[i]) BY <2>1, ItemFacts
  <2>3. G[i].stream = s /\ G[i].start = x + i - 1 BY <2>1 DEF Write
  <2> QED BY <2>2, <2>3
<1>13. /\ Group(n) = G /\ Rest(n) = R /\ worker.pending = row
       /\ worker.pending[1].stream = s /\ worker.pending[1].start = x
  BY DEF Group, Rest, G, R, s, x, row
<1> QED BY <1>3, <1>5, <1>6, <1>8, <1>9, <1>10, <1>11, <1>12, <1>13

(* While a group is written the successes have left and nothing has
   failed: what is pending begins where the repository stands. *)
LEMMA PersistPlaces ==
  ASSUME GroupInv, worker.pc = "persist", NEW t \in Streams
  PROVE  \E c \in 0 .. MaxRecord :
           /\ InOrder(out, t, confirmed[t], durable[t])
           /\ InOrder(worker.pending, t, durable[t], c)
           /\ InOrder(queue, t, c, handed[t])
           /\ durable[t] \in Nat /\ c \in Nat
<1>1. FailedIsRun /\ PhasesExact BY DEF GroupInv
<1>2. worker.done = <<>> /\ worker.failed = <<>> BY <1>1 DEF PhasesExact, FailedIsRun
<1>3. PICK a \in 0 .. MaxRecord, b \in 0 .. MaxRecord, c \in 0 .. MaxRecord :
        /\ {a, b, c} \subseteq Nat
        /\ InOrder(out, t, confirmed[t], a)
        /\ InOrder(worker.done, t, a, durable[t])
        /\ InOrder(worker.failed, t, durable[t], b)
        /\ InOrder(worker.pending, t, b, c)
        /\ InOrder(queue, t, c, handed[t])
  BY PlacesOf
<1>4. a \in Nat /\ b \in Nat /\ c \in Nat /\ durable[t] \in Nat BY <1>3, PlacesOf
<1>5. InOrder(<<>>, t, a, durable[t]) /\ InOrder(<<>>, t, durable[t], b) BY <1>2, <1>3
<1>6. \A i \in DOMAIN <<>> : Live(<<>>[i]) => <<>>[i].stream # t OBVIOUS
<1>7. a = durable[t] BY <1>4, <1>5, <1>6, OthersBounds
<1>8. b = durable[t] BY <1>4, <1>5, <1>6, OthersBounds
<1> QED BY <1>3, <1>4, <1>7, <1>8

(* A record is pending exactly where the repository expects it. *)
LEMMA HeadExpected ==
  ASSUME GroupInv, worker.pc = "persist"
  PROVE  Expected /\ worker.pending # <<>>
<1> DEFINE h == Head(worker.pending)
           T == Tail(worker.pending)
<1>1. PersistenceTypeOK /\ worker.pending # <<>> BY DEF GroupInv, PhasesExact
<1>2. /\ worker.pending = <<h>> \o T /\ h = worker.pending[1] /\ h \in Writes /\ T \in Seq(Writes)
  <2>1. worker.pending \in Seq(Writes) BY <1>1, TypeFacts
  <2> QED BY <1>1, <2>1, HeadTail
<1> HIDE DEF h, T
<1>3. h \in Items /\ Live(h) /\ h.stream \in Streams /\ <<h>> \in Seq(Items) /\ T \in Seq(Items)
  <2>1. Live(h) /\ h.stream \in Streams /\ h \in Items BY <1>2, ItemFacts DEF Items
  <2> QED BY <1>2, <2>1, CountWrites
<1>4. PICK t \in Streams : t = h.stream BY <1>3
<1>5. PICK c \in 0 .. MaxRecord :
        InOrder(worker.pending, t, durable[t], c) /\ durable[t] \in Nat /\ c \in Nat
  BY PersistPlaces
<1>6. PICK lo \in Nat : lo = durable[t] BY <1>5
<1>7. InOrder(<<h>> \o T, t, lo, c) /\ c \in Nat BY <1>2, <1>5, <1>6
<1>8. PICK mid \in lo .. c : InOrder(<<h>>, t, lo, mid) BY <1>3, <1>7, SplitInOrder
<1>9. mid \in Nat BY <1>7, <1>8
<1>10. h.start = lo BY <1>3, <1>4, <1>8, <1>9, OneInOrder
<1> QED BY <1>1, <1>2, <1>4, <1>6, <1>10 DEF Expected

(* Where an attempt of n records ends in each stream. *)
LEMMA AttemptEnds ==
  ASSUME GroupInv, worker.pc = "persist", NEW n \in 1 .. group_len, NEW t \in Streams
  PROVE  \E mid, c \in 0 .. MaxRecord :
           /\ InOrder(out, t, confirmed[t], durable[t])
           /\ InOrder(Group(n), t, durable[t], mid)
           /\ InOrder(Rest(n), t, mid, c)
           /\ InOrder(queue, t, c, handed[t])
           /\ mid = IF t = worker.pending[1].stream THEN durable[t] + n ELSE durable[t]
           /\ mid \in Nat /\ durable[t] \in Nat
<1> DEFINE G == Group(n)
           R == Rest(n)
           s == worker.pending[1].stream
<1>1. PersistenceTypeOK /\ worker.pending # <<>> /\ Expected
  BY HeadExpected DEF GroupInv
<1>2. /\ G \in Seq(Items) /\ R \in Seq(Items) /\ worker.pending = G \o R /\ Len(G) = n /\ n \in Nat
      /\ \A i \in DOMAIN G : Live(G[i]) /\ G[i].stream = s /\ G[i].start = worker.pending[1].start + i - 1
  BY <1>1, GroupCut
<1>3. PICK c \in 0 .. MaxRecord :
        /\ InOrder(out, t, confirmed[t], durable[t])
        /\ InOrder(worker.pending, t, durable[t], c)
        /\ InOrder(queue, t, c, handed[t])
        /\ durable[t] \in Nat /\ c \in Nat
  BY PersistPlaces
<1> HIDE DEF G, R
<1>4. PICK mid \in durable[t] .. c : InOrder(G, t, durable[t], mid) /\ InOrder(R, t, mid, c)
  BY <1>2, <1>3, SplitInOrder
<1>5. mid \in Nat /\ mid \in 0 .. MaxRecord
  <2>1. MaxRecord \in Nat BY <1>1, TypeFacts
  <2> QED BY <1>3, <1>4, <2>1
<1>6. CASE t = s
  <2>1. worker.pending[1].start = durable[t] BY <1>1, <1>6 DEF Expected
  <2>2. \A i \in DOMAIN G : Live(G[i]) /\ G[i].stream = t /\ G[i].start = durable[t] + i - 1
    BY <1>2, <1>6, <2>1
  <2>3. mid = durable[t] + Len(G) BY ZenonT(30), <1>2, <1>3, <1>4, <1>5, <2>2, RunBounds
  <2> QED BY <1>2, <1>3, <1>4, <1>5, <1>6, <2>3 DEF G, R
<1>7. CASE t # s
  <2>1. \A i \in DOMAIN G : Live(G[i]) => G[i].stream # t BY <1>2, <1>7
  <2>2. mid = durable[t] BY <1>3, <1>4, <1>5, <2>1, OthersBounds
  <2> QED BY <1>3, <1>4, <1>5, <1>7, <2>2 DEF G, R
<1> QED BY <1>6, <1>7

(* A group written moves the repository's cursor as far as the records
   become successes. *)
LEMMA PersistKeeps ==
  ASSUME GroupInv, PersistGroup
  PROVE  GroupInv'
<1> DEFINE s == worker.pending[1].stream
<1>1. /\ PersistenceTypeOK /\ FailedIsRun /\ PhasesExact /\ ManagedAlone
      /\ worker \in WorkerType /\ worker.pending # <<>> /\ worker.pc = "persist"
  BY TypeFacts, HeadExpected DEF GroupInv, PersistGroup
<1>2. PICK n \in 1 .. group_len :
        /\ durable' = [durable EXCEPT ![s] = @ + n]
        /\ disk' = [disk EXCEPT ![s] = durable[s] + n]
        /\ worker' = [worker EXCEPT !.pending = Rest(n), !.done = Oks(Group(n)), !.pc = "forward"]
  BY DEF PersistGroup
<1>3. UNCHANGED <<queue, out, in_flight, handed, confirmed, caller, budget>>
  BY DEF PersistGroup, channelVars
<1>4. worker.done = <<>> /\ ~worker.faulted /\ worker.failed = <<>> /\ disk = durable
  BY <1>1 DEF PhasesExact, FailedIsRun
<1>5. /\ n \in Nat /\ s \in Streams
      /\ Group(n) \in Seq(Writes) /\ Group(n) \in Seq(Items) /\ Len(Group(n)) = n
      /\ Rest(n) \in Seq(Writes) /\ Rest(n) \in Seq(Items)
      /\ Len(worker.pending) = n + Len(Rest(n)) /\ Len(Rest(n)) \in Nat
  BY <1>1, GroupCut
<1> DEFINE G == Group(n)
           R == Rest(n)
           D == Oks(Group(n))
<1>6. /\ D \in Seq(Completions) /\ Len(D) = n /\ D \in Seq(Items)
      /\ \A i \in DOMAIN D : Live(D[i])
      /\ \A t, lo, hi : InOrder(D, t, lo, hi) <=> InOrder(G, t, lo, hi)
  <2>1. D \in Seq(Completions) /\ Len(D) = n
        /\ \A i \in DOMAIN D : Live(D[i])
        /\ \A t, lo, hi : InOrder(D, t, lo, hi) <=> InOrder(G, t, lo, hi)
    BY <1>5, OksInOrder
  <2>2. Completions \subseteq Items BY DEF Items
  <2> QED BY <2>1, <2>2, SeqMonotonic
<1>7. /\ durable \in [Streams -> 0 .. MaxRecord] /\ disk' = durable'
      /\ DOMAIN durable' = Streams
      /\ \A t \in Streams : durable'[t] = IF t = s THEN durable[t] + n ELSE durable[t]
  <2>1. durable \in [Streams -> 0 .. MaxRecord] BY <1>1, TypeFacts
  <2> HIDE DEF s
  <2> QED BY <1>2, <1>4, <1>5, <2>1
<1>8. worker' = [worker EXCEPT !.pending = R, !.done = D, !.pc = "forward"] BY <1>2
<1> HIDE DEF G, R, D
<1>9. /\ worker'.pc = "forward" /\ worker'.pending = R /\ worker'.failed = <<>>
      /\ worker'.done = D /\ worker'.faulted = FALSE
      /\ worker'.deferred = worker.deferred /\ worker' \in WorkerType
  <2>1. R \in Seq(Writes) /\ D \in Seq(Completions) BY <1>5, <1>6 DEF R
  <2> QED BY <1>1, <1>4, <1>8, <2>1 DEF WorkerType
<1>10. ASSUME NEW t \in Streams
       PROVE  /\ InPlaces(t, out', worker'.done, worker'.failed, worker'.pending, queue',
                          confirmed'[t], durable'[t], handed'[t])
              /\ durable'[t] \in 0 .. MaxRecord
  <2>1. PICK mid \in 0 .. MaxRecord, c \in 0 .. MaxRecord :
          /\ InOrder(out, t, confirmed[t], durable[t])
          /\ InOrder(Group(n), t, durable[t], mid)
          /\ InOrder(Rest(n), t, mid, c)
          /\ InOrder(queue, t, c, handed[t])
          /\ mid = IF t = s THEN durable[t] + n ELSE durable[t]
          /\ mid \in Nat /\ durable[t] \in Nat
    BY <1>1, AttemptEnds
  <2>2. durable'[t] = mid BY <1>7, <2>1
  <2>3. InOrder(D, t, durable[t], mid) BY <1>6, <2>1 DEF G
  <2>4. InOrder(<<>>, t, mid, mid) BY <2>1, NothingInOrder
  <2>5. durable[t] \in 0 .. MaxRecord BY <1>1, TypeFacts
  <2> QED BY <1>3, <1>9, <2>1, <2>2, <2>3, <2>4, <2>5 DEF InPlaces, R
<1>11. PersistenceTypeOK'
  <2>1. durable' \in [Streams -> 0 .. MaxRecord]
    <3>1. durable' = [t \in Streams |-> durable'[t]] BY <1>2, <1>7
    <3> QED BY <1>10, <3>1
  <2> QED BY <1>1, <1>3, <1>7, <1>9, <2>1 DEF PersistenceTypeOK, WorkerType
<1>12. PlacesInOrder' BY <1>10 DEF PlacesInOrder
<1>13. FailedIsRun' BY <1>7, <1>9 DEF FailedIsRun
<1>14. PhasesExact' BY <1>9 DEF PhasesExact
<1>15. ManagedAlone' BY <1>1, <1>3, <1>9 DEF ManagedAlone
<1>16. PermitsHeld'
  <2>1. PICK d \in Nat, f \in Nat, m \in Nat, q \in Nat, r \in Nat :
          /\ d = Count(worker.done) /\ f = Len(worker.failed) /\ m = Len(worker.pending)
          /\ q = Count(queue) /\ r = Releasing(worker.pc)
          /\ in_flight = d + f + m + q + r
    BY PermitParts
  <2>2. d = 0 /\ f = 0 /\ r = 0 /\ Len(<<>>) = 0 /\ Releasing("forward") = 0
    BY <1>1, <1>4, <2>1, CountOne DEF Releasing
  <2>3. PICK l \in Nat : l = Len(R) BY <1>5 DEF R
  <2>4. m = n + l BY <1>5, <2>1, <2>3 DEF R
  <2>5. Count(D) = n BY <1>6, CountAll
  <2>6. in_flight = n + 0 + l + q + 0
    <3>1. in_flight = 0 + 0 + m + q + 0 BY <2>1, <2>2
    <3> QED BY <1>5, <2>4, <3>1
  <2>7. in_flight' = Count(worker'.done) + Len(worker'.failed) + Len(worker'.pending) + Count(queue')
                       + Releasing(worker'.pc)
    BY <1>3, <1>9, <2>1, <2>2, <2>3, <2>5, <2>6
  <2> QED BY <2>7 DEF PermitsHeld
<1> QED BY <1>11, <1>12, <1>13, <1>14, <1>15, <1>16 DEF GroupInv

(* A failed group is kept whole, whatever of it reached the disk. *)
LEMMA FailKeeps ==
  ASSUME GroupInv, worker.pc = "persist", NEW n \in 1 .. group_len, Fail(n), NEW k \in 0 .. n,
         disk' = [disk EXCEPT ![worker.pending[1].stream] = @ + k],
         budget' \in [fail : 0 .. MaxFailures, manage : 0 .. MaxManaged],
         UNCHANGED <<queue, out, in_flight, durable, handed, confirmed, caller>>
  PROVE  GroupInv'
<1> DEFINE s == worker.pending[1].stream
           E == <<Completion(worker.pending[1], FALSE)>>
           G == Group(n)
           R == Rest(n)
<1>1. /\ PersistenceTypeOK /\ FailedIsRun /\ PhasesExact /\ ManagedAlone
      /\ worker \in WorkerType /\ worker.pending # <<>> /\ Expected
  BY TypeFacts, HeadExpected DEF GroupInv
<1>2. worker' = [worker EXCEPT !.pending = R, !.failed = G, !.done = E,
                               !.faulted = TRUE, !.pc = "forward"]
  BY DEF Fail
<1>3. worker.done = <<>> /\ ~worker.faulted /\ worker.failed = <<>> /\ disk = durable
  BY <1>1 DEF PhasesExact, FailedIsRun
<1>4. /\ n \in Nat /\ n \in 1 .. Len(worker.pending) /\ s \in Streams /\ worker.pending[1] \in Writes
      /\ G \in Seq(Writes) /\ G \in Seq(Items) /\ Len(G) = n
      /\ R \in Seq(Writes) /\ R \in Seq(Items)
      /\ Len(worker.pending) = n + Len(R) /\ Len(R) \in Nat
      /\ \A i \in DOMAIN G : G[i] = Write(s, worker.pending[1].start + i - 1)
  BY <1>1, GroupCut
<1>5. \A i \in DOMAIN G : G[i] = Write(s, durable[s] + i - 1) BY <1>1, <1>4 DEF Expected
<1>6. E \in Seq(Completions) /\ Count(E) = 0
      /\ \A t, lo : lo \in Nat => InOrder(E, t, lo, lo)
  <2> DEFINE c == Completion(worker.pending[1], FALSE)
  <2>1. c \in Completions /\ ~Live(c) /\ c \in Items BY <1>4, ItemFacts DEF Items
  <2> HIDE DEF c
  <2>2. <<c>> \in Seq(Completions) /\ Count(<<c>>) = 0 BY <2>1, CountOne
  <2>3. ASSUME NEW t, NEW lo \in Nat PROVE InOrder(<<c>>, t, lo, lo) BY <2>1, OneInOrder
  <2> QED BY <2>2, <2>3 DEF c
<1>7. /\ durable \in [Streams -> 0 .. MaxRecord]
      /\ DOMAIN disk' = Streams /\ disk' = [t \in Streams |-> disk'[t]]
      /\ \A t \in Streams : disk'[t] = IF t = s THEN durable[t] + k ELSE durable[t]
  <2>1. durable \in [Streams -> 0 .. MaxRecord] BY <1>1, TypeFacts
  <2>2. disk' = [disk EXCEPT ![s] = @ + k] OBVIOUS
  <2> HIDE DEF s
  <2> QED BY <1>3, <1>4, <2>1, <2>2
<1> HIDE DEF s, E, G, R
<1>8. /\ worker'.pc = "forward" /\ worker'.pending = R /\ worker'.failed = G
      /\ worker'.done = E /\ worker'.faulted = TRUE
      /\ worker'.deferred = worker.deferred /\ worker' \in WorkerType
  BY <1>1, <1>2, <1>4, <1>6 DEF WorkerType
<1>9. ASSUME NEW t \in Streams
      PROVE  /\ InPlaces(t, out', worker'.done, worker'.failed, worker'.pending, queue',
                         confirmed'[t], durable'[t], handed'[t])
             /\ disk'[t] \in 0 .. MaxRecord
  <2>1. PICK mid \in 0 .. MaxRecord, c \in 0 .. MaxRecord :
          /\ InOrder(out, t, confirmed[t], durable[t])
          /\ InOrder(Group(n), t, durable[t], mid)
          /\ InOrder(Rest(n), t, mid, c)
          /\ InOrder(queue, t, c, handed[t])
          /\ mid = IF t = worker.pending[1].stream THEN durable[t] + n ELSE durable[t]
          /\ mid \in Nat /\ durable[t] \in Nat
    BY <1>1, AttemptEnds
  <2>2. InOrder(E, t, durable[t], durable[t]) BY <1>6, <2>1
  <2>3. durable[t] \in 0 .. MaxRecord /\ MaxRecord \in Nat BY <1>1, TypeFacts
  <2>4. disk'[t] \in 0 .. MaxRecord
    <3>1. disk'[t] = IF t = s THEN durable[t] + k ELSE durable[t] BY <1>7
    <3>2. mid = IF t = s THEN durable[t] + n ELSE durable[t] BY <2>1 DEF s
    <3>3. mid <= MaxRecord /\ k \in Nat /\ k <= n BY <1>4, <2>1, <2>3
    <3>4. CASE t = s
      <4>1. disk'[t] = durable[t] + k /\ mid = durable[t] + n BY <3>1, <3>2, <3>4
      <4>2. PICK x \in Nat, M \in Nat : x = durable[t] /\ M = MaxRecord BY <2>1, <2>3
      <4>3. x + n <= M BY <3>3, <4>1, <4>2
      <4>4. x + k \in 0 .. M BY <1>4, <3>3, <4>3
      <4> QED BY <4>1, <4>2, <4>4
    <3>5. CASE t # s BY <2>3, <3>1, <3>5
    <3> QED BY <3>4, <3>5
  <2>5. InOrder(G, t, durable[t], mid) /\ InOrder(R, t, mid, c) BY <2>1 DEF G, R
  <2> QED BY <1>8, <2>1, <2>2, <2>3, <2>4, <2>5 DEF InPlaces
<1>10. PersistenceTypeOK'
  <2>1. disk' \in [Streams -> 0 .. MaxRecord] BY <1>7, <1>9
  <2> QED BY ZenonT(30), <1>1, <1>8, <2>1 DEF PersistenceTypeOK, WorkerType
<1>11. PlacesInOrder' BY <1>9 DEF PlacesInOrder
<1>12. FailedIsRun'
  <2>1. G[1].stream = s /\ G # <<>> /\ 1 \in DOMAIN G
    <3>1. DOMAIN G = 1 .. n BY <1>4, LenProperties
    <3>2. 1 \in DOMAIN G /\ n # 0 BY <1>4, <3>1
    <3>3. G[1] = Write(s, durable[s] + 1 - 1) BY <1>5, <3>2
    <3>4. G # <<>> BY <1>4, <3>2
    <3> QED BY <3>2, <3>3, <3>4 DEF Write
  <2>2. disk'[s] \in durable[s] .. durable[s] + Len(G)
    <3>1. disk'[s] = durable[s] + k /\ durable[s] \in Nat BY <1>1, <1>4, <1>7, TypeFacts
    <3> QED BY <1>4, <3>1
  <2>3. \A t \in Streams \ {s} : disk'[t] = durable'[t] BY <1>7
  <2> QED BY <1>5, <1>8, <2>1, <2>2, <2>3 DEF FailedIsRun
<1>13. PhasesExact' BY <1>8 DEF PhasesExact
<1>14. ManagedAlone' BY <1>1, <1>8 DEF ManagedAlone
<1>15. PermitsHeld'
  <2>1. PICK d \in Nat, f \in Nat, m \in Nat, q \in Nat, r \in Nat :
          /\ d = Count(worker.done) /\ f = Len(worker.failed) /\ m = Len(worker.pending)
          /\ q = Count(queue) /\ r = Releasing(worker.pc)
          /\ in_flight = d + f + m + q + r
    BY PermitParts
  <2>2. d = 0 /\ f = 0 /\ r = 0 /\ Releasing("forward") = 0
    BY <1>1, <1>3, <2>1, CountOne DEF Releasing
  <2>3. PICK l \in Nat : l = Len(R) BY <1>4
  <2>4. m = n + l BY <1>4, <2>1, <2>3
  <2>5. in_flight = 0 + n + l + q + 0
    <3>1. in_flight = 0 + 0 + m + q + 0 BY <2>1, <2>2
    <3> QED BY <1>4, <2>4, <3>1
  <2>6. in_flight' = Count(worker'.done) + Len(worker'.failed) + Len(worker'.pending) + Count(queue')
                       + Releasing(worker'.pc)
    BY <1>4, <1>6, <1>8, <2>1, <2>2, <2>3, <2>5
  <2> QED BY <2>6 DEF PermitsHeld
<1> QED BY <1>10, <1>11, <1>12, <1>13, <1>14, <1>15 DEF GroupInv

(* Both ways in which a group fails. *)
LEMMA FailureKeeps ==
  ASSUME GroupInv, PreparationFails \/ CommitFails
  PROVE  GroupInv'
<1>1. /\ PersistenceTypeOK /\ worker.pc = "persist" /\ worker.pending # <<>> /\ Expected
  BY HeadExpected DEF GroupInv, PreparationFails, CommitFails
<1>2. /\ budget' \in [fail : 0 .. MaxFailures, manage : 0 .. MaxManaged]
  <2>1. budget \in [fail : 0 .. MaxFailures, manage : 0 .. MaxManaged] /\ MaxFailures \in Nat
    BY <1>1, SizesAssumption DEF PersistenceTypeOK
  <2>2. budget.fail > 0 /\ budget' = [budget EXCEPT !.fail = @ - 1]
    BY <1>1 DEF PreparationFails, CommitFails
  <2> QED BY <2>1, <2>2
<1>3. CASE PreparationFails
  <2>1. 1 \in 1 .. group_len
    <3>1. worker.pending \in Seq(Writes) BY <1>1, TypeFacts
    <3>2. group_len \in 1 .. Len(worker.pending) /\ Len(worker.pending) \in Nat
      BY <1>1, <3>1, GroupLength, LenProperties
    <3> QED BY <3>2
  <2>2. disk' = [disk EXCEPT ![worker.pending[1].stream] = @ + 0]
    <3>1. disk' = disk /\ disk \in [Streams -> 0 .. MaxRecord]
      BY <1>1, <1>3, TypeFacts DEF PreparationFails, sinkVars
    <3>2. worker.pending[1].stream \in Streams BY <1>1, <2>1, GroupCut
    <3> DEFINE s == worker.pending[1].stream
    <3> HIDE DEF s
    <3>3. s \in Streams BY <3>2 DEF s
    <3>4. disk[s] + 0 = disk[s] BY <3>1, <3>3
    <3>5. disk = [disk EXCEPT ![s] = @ + 0] BY <3>1, <3>4
    <3> QED BY <3>1, <3>5 DEF s
  <2>3. Fail(1) /\ UNCHANGED <<queue, out, in_flight, durable, handed, confirmed, caller>>
    BY <1>3 DEF PreparationFails, sinkVars, channelVars
  <2>4. 0 \in 0 .. 1 OBVIOUS
  <2> QED BY <1>1, <1>2, <2>1, <2>2, <2>3, <2>4, FailKeeps
<1>4. CASE CommitFails
  <2>1. PICK n \in 1 .. group_len :
          \E k \in 0 .. n : Fail(n) /\ disk' = [disk EXCEPT ![worker.pending[1].stream] = @ + k]
    BY <1>4 DEF CommitFails
  <2>2. PICK k \in 0 .. n :
          Fail(n) /\ disk' = [disk EXCEPT ![worker.pending[1].stream] = @ + k]
    BY <2>1
  <2>3. UNCHANGED <<queue, out, in_flight, durable, handed, confirmed, caller>>
    BY <1>4 DEF CommitFails, channelVars
  <2> QED BY <1>1, <1>2, <2>2, <2>3, FailKeeps
<1> QED BY <1>3, <1>4

(* The failed group, cut where the reopened repository ends. *)
LEMMA RecoveryCut ==
  ASSUME GroupInv, worker.pc = "await"
  PROVE  /\ worker.failed[1].stream \in Streams
         /\ worker.failed[1].start = durable[worker.failed[1].stream]
         /\ confirmed_prefix \in 0 .. Len(worker.failed)
         /\ disk[worker.failed[1].stream] = durable[worker.failed[1].stream] + confirmed_prefix
         /\ \A t \in Streams \ {worker.failed[1].stream} : disk[t] = durable[t]
         /\ \A i \in DOMAIN worker.failed :
              worker.failed[i] = Write(worker.failed[1].stream, durable[worker.failed[1].stream] + i - 1)
<1> DEFINE s == worker.failed[1].stream
<1>1. PersistenceTypeOK /\ FailedIsRun /\ worker.faulted BY DEF GroupInv, PhasesExact
<1>2. /\ worker.failed # <<>>
      /\ \A i \in DOMAIN worker.failed : worker.failed[i] = Write(s, durable[s] + i - 1)
      /\ disk[s] \in durable[s] .. durable[s] + Len(worker.failed)
      /\ \A t \in Streams \ {s} : disk[t] = durable[t]
  BY <1>1 DEF FailedIsRun
<1>3. /\ worker.failed \in Seq(Writes) /\ Len(worker.failed) \in Nat \ {0}
      /\ 1 \in DOMAIN worker.failed /\ worker.failed[1] \in Writes
  <2>1. worker.failed \in Seq(Writes) BY <1>1, TypeFacts
  <2>2. Len(worker.failed) \in Nat \ {0} BY <1>2, <2>1, EmptySeq
  <2>3. DOMAIN worker.failed = 1 .. Len(worker.failed) BY <2>1, LenProperties
  <2>4. 1 \in 1 .. Len(worker.failed) BY <2>2
  <2> QED BY <2>1, <2>2, <2>3, <2>4, ElementOfSeq
<1>4. s \in Streams BY <1>3, ItemFacts
<1>5. durable[s] \in Nat /\ disk[s] \in Nat BY <1>1, <1>4, TypeFacts
<1>6. worker.failed[1].start = durable[s]
  <2>1. worker.failed[1] = Write(s, durable[s] + 1 - 1) BY <1>2, <1>3
  <2>2. worker.failed[1].start = durable[s] + 1 - 1
    <3> HIDE DEF s
    <3> QED BY <2>1 DEF Write
  <2> QED BY <1>5, <2>2
<1>7. PICK x \in Nat, y \in Nat, l \in Nat : x = durable[s] /\ y = disk[s] /\ l = Len(worker.failed)
  BY <1>3, <1>5
<1>8. y \in x .. x + l BY <1>2, <1>7
<1>9. confirmed_prefix = Min({y - x, l}) BY <1>6, <1>7 DEF confirmed_prefix
<1>10. Min({y - x, l}) = y - x
  <2>1. y - x \in Int /\ y - x <= l /\ y - x <= y - x BY <1>8
  <2>2. \A z \in {y - x, l} : (\A w \in {y - x, l} : z <= w) => z = y - x BY <2>1
  <2> QED BY <2>1, <2>2 DEF Min
<1>11. confirmed_prefix \in 0 .. l /\ y = x + confirmed_prefix BY <1>8, <1>9, <1>10
<1> QED BY <1>2, <1>4, <1>6, <1>7, <1>11

(* Recovery: what the reopened repository holds of the failed group is
   confirmed, the rest goes in front of what is pending. *)
LEMMA RecoverKeeps ==
  ASSUME GroupInv, replace_recovered_sink
  PROVE  GroupInv'
<1> DEFINE s == worker.failed[1].stream
           k == confirmed_prefix
           C == SubSeq(worker.failed, 1, k)
           R == SubSeq(worker.failed, k + 1, Len(worker.failed))
           D == Oks(C)
           P == R \o worker.pending
<1>1. /\ PersistenceTypeOK /\ FailedIsRun /\ PhasesExact /\ ManagedAlone
      /\ worker \in WorkerType /\ caller \in CallerType
      /\ worker.pc = "await" /\ caller.waits = "replace"
  BY TypeFacts DEF GroupInv, replace_recovered_sink
<1>2. worker.done = <<>> /\ worker.faulted BY <1>1 DEF PhasesExact
<1>3. /\ s \in Streams /\ worker.failed[1].start = durable[s]
      /\ k \in 0 .. Len(worker.failed) /\ disk[s] = durable[s] + k
      /\ \A t \in Streams \ {s} : disk[t] = durable[t]
      /\ \A i \in DOMAIN worker.failed : worker.failed[i] = Write(s, durable[s] + i - 1)
  BY <1>1, RecoveryCut
<1>4. /\ worker.failed \in Seq(Writes) /\ Len(worker.failed) \in Nat /\ k \in Nat
      /\ DOMAIN worker.failed = 1 .. Len(worker.failed)
  <2>1. worker.failed \in Seq(Writes) BY <1>1, TypeFacts
  <2>2. Len(worker.failed) \in Nat /\ DOMAIN worker.failed = 1 .. Len(worker.failed)
    BY <2>1, LenProperties
  <2> QED BY <1>3, <2>1, <2>2
<1>5. ~(disk[s] < worker.failed[1].start)
  <2>1. durable[s] \in Nat BY <1>1, <1>3, TypeFacts
  <2> QED BY <1>3, <1>4, <2>1
<1>6. /\ durable' = disk
      /\ worker' = [worker EXCEPT !.done = D, !.pending = R \o @, !.failed = <<>>,
                                  !.faulted = FALSE, !.pc = "forward"]
      /\ caller' = [caller EXCEPT !.waits = "no", !.failure = FALSE]
      /\ UNCHANGED <<queue, out, in_flight, disk, handed, confirmed, budget>>
  BY <1>5 DEF replace_recovered_sink
<1>7. /\ worker' = [worker EXCEPT !.done = D, !.pending = P, !.failed = <<>>,
                                  !.faulted = FALSE, !.pc = "forward"]
  BY <1>6
<1> HIDE DEF k
<1>8. /\ C \in Seq(Writes) /\ Len(C) = k
      /\ \A i \in 1 .. k : C[i] = worker.failed[i]
      /\ R \in Seq(Writes) /\ Len(R) = Len(worker.failed) - k
      /\ worker.failed = C \o R
  <2>1. PICK row \in Seq(Writes) : row = worker.failed BY <1>4
  <2>2. PICK j \in 0 .. Len(row) : j = k BY <1>3, <2>1
  <2>3. /\ SubSeq(row, 1, j) \in Seq(Writes) /\ Len(SubSeq(row, 1, j)) = j
        /\ \A i \in 1 .. j : SubSeq(row, 1, j)[i] = row[i]
        /\ SubSeq(row, j + 1, Len(row)) \in Seq(Writes)
        /\ Len(SubSeq(row, j + 1, Len(row))) = Len(row) - j
        /\ row = SubSeq(row, 1, j) \o SubSeq(row, j + 1, Len(row))
    BY CutRow
  <2>4. C = SubSeq(row, 1, j) /\ R = SubSeq(row, j + 1, Len(row)) BY <2>1, <2>2
  <2> HIDE DEF C, R
  <2> QED BY <2>1, <2>2, <2>3, <2>4
<1>9. DOMAIN C = 1 .. k BY <1>8, LenProperties
<1>10. \A i \in DOMAIN C : C[i] \in Writes /\ C[i] = Write(s, durable[s] + i - 1)
  <2>1. \A i \in 1 .. k : C[i] \in Writes BY <1>8, ElementOfSeq
  <2>2. \A i \in 1 .. k : i \in DOMAIN worker.failed BY <1>3, <1>4
  <2>3. \A i \in 1 .. k : C[i] = Write(s, durable[s] + i - 1) BY <1>3, <1>8, <2>2
  <2> QED BY <1>9, <2>1, <2>3
<1> HIDE DEF C, R
<1>11. /\ D \in Seq(Completions) /\ Len(D) = k
       /\ \A i \in DOMAIN D : Live(D[i])
       /\ \A t, lo, hi : InOrder(D, t, lo, hi) <=> InOrder(C, t, lo, hi)
  BY <1>8, OksInOrder
<1> HIDE DEF D
<1>12. C \in Seq(Items) /\ R \in Seq(Items) /\ D \in Seq(Items)
  <2>1. Completions \subseteq Items BY DEF Items
  <2> QED BY <1>8, <1>11, <2>1, CountWrites, SeqMonotonic
<1>13. /\ worker.pending \in Seq(Writes) /\ worker.pending \in Seq(Items)
       /\ P \in Seq(Writes) /\ Len(P) = Len(R) + Len(worker.pending)
  <2>1. worker.pending \in Seq(Writes) /\ worker.pending \in Seq(Items)
    BY <1>1, TypeFacts
  <2> QED BY <1>8, <2>1, ConcatProperties
<1> HIDE DEF P
<1>14. /\ worker'.pc = "forward" /\ worker'.pending = P /\ worker'.failed = <<>>
       /\ worker'.done = D /\ worker'.faulted = FALSE
       /\ worker'.deferred = worker.deferred /\ worker' \in WorkerType
  <2>1. <<>> \in Seq(Writes) BY EmptySeq
  <2> QED BY <1>1, <1>7, <1>11, <1>13, <2>1 DEF WorkerType
<1>15. caller' \in CallerType /\ caller'.waits = "no" BY <1>1, <1>6 DEF CallerType
<1>16. PersistenceTypeOK'
  <2>1. disk \in [Streams -> 0 .. MaxRecord] BY <1>1, TypeFacts
  <2> QED BY <1>1, <1>6, <1>14, <1>15, <2>1 DEF PersistenceTypeOK, WorkerType, CallerType
<1>17. PlacesInOrder'
  <2> SUFFICES ASSUME NEW t \in Streams
               PROVE  InPlaces(t, out', worker'.done, worker'.failed, worker'.pending, queue',
                               confirmed'[t], durable'[t], handed'[t])
    BY DEF PlacesInOrder
  <2>1. PICK a \in 0 .. MaxRecord, b \in 0 .. MaxRecord, c \in 0 .. MaxRecord :
          /\ {a, b, c} \subseteq Nat
          /\ InOrder(out, t, confirmed[t], a)
          /\ InOrder(worker.done, t, a, durable[t])
          /\ InOrder(worker.failed, t, durable[t], b)
          /\ InOrder(worker.pending, t, b, c)
          /\ InOrder(queue, t, c, handed[t])
    BY PlacesOf
  <2>2. a \in Nat /\ b \in Nat /\ c \in Nat BY <2>1
  <2>3. PICK lo \in Nat : lo = durable[t] BY PlacesOf
  <2>4. a = lo
    <3>1. InOrder(<<>>, t, a, lo) BY <1>2, <2>1, <2>3
    <3>2. \A i \in DOMAIN <<>> : Live(<<>>[i]) => <<>>[i].stream # t OBVIOUS
    <3> QED BY <2>2, <3>1, <3>2, OthersBounds
  <2>5. InOrder(C \o R, t, lo, b) BY <1>8, <2>1, <2>3
  <2>6. PICK mid \in lo .. b : InOrder(C, t, lo, mid) /\ InOrder(R, t, mid, b)
    BY <1>12, <2>2, <2>5, SplitInOrder
  <2>7. mid \in Nat /\ mid \in 0 .. MaxRecord
    <3>1. MaxRecord \in Nat BY <1>1, TypeFacts
    <3> QED BY <2>1, <2>2, <2>6, <3>1
  <2>8. mid = durable'[t]
    <3>1. CASE t = s
      <4>1. \A i \in DOMAIN C : Live(C[i]) /\ C[i].stream = t /\ C[i].start = lo + i - 1
        <5> SUFFICES ASSUME NEW i \in DOMAIN C
                     PROVE  Live(C[i]) /\ C[i].stream = t /\ C[i].start = lo + i - 1
          OBVIOUS
        <5>1. C[i] \in Writes /\ C[i] = Write(t, lo + i - 1) BY <1>10, <2>3, <3>1
        <5>2. Live(C[i]) BY <5>1, ItemFacts
        <5>3. C[i].stream = t /\ C[i].start = lo + i - 1 BY <5>1 DEF Write
        <5> QED BY <5>2, <5>3
      <4>2. mid = lo + Len(C) BY <1>12, <2>6, <2>7, <4>1, RunBounds
      <4>3. disk[t] = lo + k BY <1>3, <2>3, <3>1
      <4> QED BY <1>6, <1>8, <4>2, <4>3
    <3>2. CASE t # s
      <4>1. \A i \in DOMAIN C : Live(C[i]) => C[i].stream # t
        <5> SUFFICES ASSUME NEW i \in DOMAIN C PROVE C[i].stream # t OBVIOUS
        <5>1. C[i] = Write(s, durable[s] + i - 1) BY <1>10
        <5>2. C[i].stream = s
          <6> HIDE DEF s
          <6> QED BY <5>1 DEF Write
        <5> QED BY <3>2, <5>2
      <4>2. lo = mid BY <2>6, <2>7, <4>1, OthersBounds
      <4>3. disk[t] = durable[t] BY <1>3, <3>2
      <4> QED BY <1>6, <2>3, <4>2, <4>3
    <3> QED BY <3>1, <3>2
  <2>9. InOrder(D, t, a, durable'[t]) BY <1>11, <2>4, <2>6, <2>8
  <2>10. InOrder(<<>>, t, durable'[t], mid) BY <2>7, <2>8, NothingInOrder
  <2>11. InOrder(P, t, mid, c)
    BY <1>12, <1>13, <2>1, <2>2, <2>6, <2>7, JoinInOrder DEF P
  <2> QED BY <1>6, <1>14, <2>1, <2>7, <2>9, <2>10, <2>11 DEF InPlaces
<1>18. FailedIsRun' BY <1>6, <1>14 DEF FailedIsRun
<1>19. PhasesExact' BY <1>14 DEF PhasesExact
<1>20. ManagedAlone'
  <2>1. queue \in Seq(Writes) /\ ~worker.deferred BY <1>1 DEF ManagedAlone
  <2> QED BY <1>6, <1>14, <1>15, <2>1 DEF ManagedAlone
<1>21. PermitsHeld'
  <2>1. PICK d \in Nat, f \in Nat, m \in Nat, q \in Nat, r \in Nat :
          /\ d = Count(worker.done) /\ f = Len(worker.failed) /\ m = Len(worker.pending)
          /\ q = Count(queue) /\ r = Releasing(worker.pc)
          /\ in_flight = d + f + m + q + r
    BY PermitParts
  <2>2. d = 0 /\ r = 0 /\ Releasing("forward") = 0 /\ Len(<<>>) = 0
    BY <1>1, <1>2, <2>1, CountOne DEF Releasing
  <2>3. PICK l \in Int : l = Len(R) /\ l = f - k
    <3>1. Len(R) = f - k BY <1>8, <2>1
    <3>2. f - k \in Int BY <1>4
    <3> QED BY <3>1, <3>2
  <2>4. Len(P) = l + m BY <1>13, <2>1, <2>3
  <2>5. Count(D) = k BY <1>11, <1>12, CountAll
  <2>6. in_flight = k + 0 + (l + m) + q + 0
    <3>1. in_flight = 0 + f + m + q + 0 BY <2>1, <2>2
    <3>2. k \in Nat /\ l \in Int /\ l = f - k BY <1>4, <2>3
    <3>3. 0 + f + m + q + 0 = k + 0 + (l + m) + q + 0 BY <3>2
    <3> QED BY <3>1, <3>3
  <2>7. in_flight' = Count(worker'.done) + Len(worker'.failed) + Len(worker'.pending) + Count(queue')
                       + Releasing(worker'.pc)
    BY <1>6, <1>14, <2>1, <2>2, <2>4, <2>5, <2>6
  <2> QED BY <2>7 DEF PermitsHeld
<1> QED BY <1>16, <1>17, <1>18, <1>19, <1>20, <1>21 DEF GroupInv

------------------------
(* The invariant. *)

(* An executor that starts holds nothing. *)
LEMMA GroupInit ==
  PersistenceInit => GroupInv
<1> SUFFICES ASSUME PersistenceInit PROVE GroupInv OBVIOUS
<1>1. /\ queue = <<>> /\ out = <<>> /\ in_flight = 0
      /\ worker = [pc |-> "recv", pending |-> <<>>, failed |-> <<>>, done |-> <<>>,
                   faulted |-> FALSE, deferred |-> FALSE]
      /\ caller = [waits |-> "no", failure |-> FALSE, closed |-> FALSE, refused |-> "no"]
  BY DEF PersistenceInit
<1>2. /\ worker.pc = "recv" /\ worker.pending = <<>> /\ worker.failed = <<>> /\ worker.done = <<>>
      /\ worker.faulted = FALSE /\ worker.deferred = FALSE /\ caller.waits = "no"
  BY <1>1
<1>3. /\ <<>> \in Seq(Writes) /\ <<>> \in Seq(Completions) /\ <<>> \in Seq(Writes \cup {Manage})
      /\ Len(<<>>) = 0
  BY EmptySeq
<1>4. Capacity \in Nat /\ MaxRecord \in Nat /\ MaxFailures \in Nat /\ MaxManaged \in Nat
  BY SizesAssumption
<1>5. PersistenceTypeOK
  <2>1. \A f \in {durable, disk, handed, confirmed} : f \in [Streams -> 0 .. MaxRecord]
    BY <1>4 DEF PersistenceInit
  <2>2. budget \in [fail : 0 .. MaxFailures, manage : 0 .. MaxManaged]
    BY <1>4 DEF PersistenceInit
  <2>3. worker \in WorkerType BY <1>1, <1>3 DEF WorkerType
  <2>4. in_flight \in 0 .. Capacity /\ Len(queue) <= Capacity /\ Len(out) <= Capacity
    BY <1>1, <1>3, <1>4
  <2>5. caller \in CallerType BY <1>1 DEF CallerType
  <2> QED BY <1>1, <1>3, <2>1, <2>2, <2>3, <2>4, <2>5 DEF PersistenceTypeOK, WorkerType, CallerType
<1>6. PlacesInOrder
  <2> SUFFICES ASSUME NEW t \in Streams
               PROVE  InPlaces(t, out, worker.done, worker.failed, worker.pending, queue,
                               confirmed[t], durable[t], handed[t])
    BY DEF PlacesInOrder
  <2>1. confirmed[t] = 0 /\ durable[t] = 0 /\ handed[t] = 0 BY DEF PersistenceInit
  <2>2. InOrder(<<>>, t, 0, 0) /\ 0 \in 0 .. MaxRecord BY <1>4, NothingInOrder
  <2> QED BY <1>1, <1>2, <2>1, <2>2 DEF InPlaces
<1>7. FailedIsRun BY <1>2 DEF FailedIsRun, PersistenceInit
<1>8. PhasesExact /\ ManagedAlone BY <1>1, <1>2, <1>3 DEF PhasesExact, ManagedAlone
<1>9. PermitsHeld
  <2>1. Count(<<>>) = 0 /\ Releasing("recv") = 0 BY CountOne DEF Releasing
  <2> QED BY <1>1, <1>2, <1>3, <2>1 DEF PermitsHeld
<1> QED BY <1>5, <1>6, <1>7, <1>8, <1>9 DEF GroupInv

(* Every step of either thread keeps every record in its place. *)
LEMMA GroupNext ==
  GroupInv /\ [PersistenceNext]_persistenceVars => GroupInv'
<1> SUFFICES ASSUME GroupInv, [PersistenceNext]_persistenceVars PROVE GroupInv' OBVIOUS
<1>1. CASE ReceiveFirst BY <1>1, ReceiveKeeps
<1>2. CASE Gather BY <1>2, GatherKeeps
<1>3. CASE Disconnected \/ GroupEnds \/ LoopAgain \/ StopFaulted BY <1>3, TurnKeeps
<1>4. CASE PersistGroup BY <1>4, PersistKeeps
<1>5. CASE PreparationFails \/ CommitFails BY <1>5, FailureKeeps
<1>6. CASE SendCompletion BY <1>6, SendKeeps
<1>7. CASE ReleasePermit BY <1>7, ReleaseKeeps
<1>8. CASE replace_recovered_sink BY <1>8, RecoverKeeps
<1>9. ASSUME NEW s \in Streams, submit_record(s) \/ begin_epoch_rollover(s)
      PROVE  GroupInv'
  <2>1. CASE submit_record(s) BY <2>1, SubmitKeeps
  <2>2. CASE begin_epoch_rollover(s) BY <2>2, ManageKeeps DEF begin_epoch_rollover
  <2> QED BY <1>9, <2>1, <2>2
<1>10. CASE TakeCompletion BY <1>10, TakeKeeps
<1>11. CASE recover_recording_sink \/ shutdown BY <1>11, AskKeeps
<1>12. CASE finish_capture_stream BY <1>12, ManageKeeps DEF finish_capture_stream
<1>13. CASE UNCHANGED persistenceVars
  <2>1. UNCHANGED <<queue, out, in_flight, worker, durable, disk, handed, confirmed, caller, budget>>
    BY <1>13 DEF persistenceVars
  <2>2. PersistenceTypeOK' /\ PlacesInOrder'
    BY <2>1 DEF GroupInv, PersistenceTypeOK, PlacesInOrder
  <2>3. FailedIsRun' /\ PhasesExact' BY <2>1 DEF GroupInv, FailedIsRun, PhasesExact
  <2>4. ManagedAlone' /\ PermitsHeld' BY <2>1 DEF GroupInv, ManagedAlone, PermitsHeld
  <2> QED BY <2>2, <2>3, <2>4 DEF GroupInv
<1> QED BY <1>1, <1>2, <1>3, <1>4, <1>5, <1>6, <1>7, <1>8, <1>9, <1>10, <1>11, <1>12, <1>13
        DEF PersistenceNext, StorageThread, ChannelThread

(* Every record handed over stays in exactly one place of its stream, the
   permits are those of the places, and management runs alone. *)
THEOREM GroupInvariant == PersistenceSpec => []GroupInv
<1>1. PersistenceInit => GroupInv BY GroupInit
<1>2. GroupInv /\ [PersistenceNext]_persistenceVars => GroupInv' BY GroupNext
<1> QED BY <1>1, <1>2, PTL DEF PersistenceSpec

(* The places joined are all that is on its way, in order. *)
LEMMA RowInOrder ==
  ASSUME GroupInv, NEW t \in Streams
  PROVE  /\ InOrder(Unconfirmed, t, confirmed[t], handed[t])
         /\ confirmed[t] \in Nat /\ handed[t] \in Nat /\ durable[t] \in Nat
         /\ confirmed[t] <= durable[t]
         /\ \E b \in Nat : /\ InOrder(worker.failed, t, durable[t], b)
                           /\ InOrder(worker.pending \o queue, t, b, handed[t])
<1>1. /\ out \in Seq(Items) /\ worker.done \in Seq(Items) /\ worker.failed \in Seq(Items)
      /\ worker.pending \in Seq(Items) /\ queue \in Seq(Items)
  BY TypeFacts DEF GroupInv
<1>2. PICK x \in Nat, n \in Nat, y \in Nat : x = confirmed[t] /\ n = durable[t] /\ y = handed[t]
  BY PlacesOf
<1>3. PICK a \in 0 .. MaxRecord, b \in 0 .. MaxRecord, c \in 0 .. MaxRecord :
        /\ {a, b, c} \subseteq Nat
        /\ InOrder(out, t, confirmed[t], a)
        /\ InOrder(worker.done, t, a, durable[t])
        /\ InOrder(worker.failed, t, durable[t], b)
        /\ InOrder(worker.pending, t, b, c)
        /\ InOrder(queue, t, c, handed[t])
  BY PlacesOf
<1>4. /\ a \in Nat /\ b \in Nat /\ c \in Nat
      /\ InOrder(out, t, x, a) /\ InOrder(worker.done, t, a, n)
      /\ InOrder(worker.failed, t, n, b) /\ InOrder(worker.pending, t, b, c)
      /\ InOrder(queue, t, c, y)
  BY <1>2, <1>3
<1> DEFINE A == worker.done \o worker.failed
           B == A \o worker.pending
           C == B \o queue
<1>5. InOrder(A, t, a, b) /\ A \in Seq(Items) BY <1>1, <1>4, JoinInOrder, AtConcat
<1> HIDE DEF A
<1>6. InOrder(B, t, a, c) /\ B \in Seq(Items) BY <1>1, <1>4, <1>5, JoinInOrder, AtConcat
<1> HIDE DEF B
<1>7. InOrder(C, t, a, y) /\ C \in Seq(Items) BY <1>1, <1>4, <1>6, JoinInOrder, AtConcat
<1> HIDE DEF C
<1>8. InOrder(out \o C, t, x, y) BY <1>1, <1>4, <1>7, JoinInOrder
<1>9. Unconfirmed = out \o C BY DEF Unconfirmed, Accepted, C, B, A
<1>10. InOrder(worker.pending \o queue, t, b, y) BY <1>1, <1>4, JoinInOrder
<1>11. x <= n
  <2>1. x <= a /\ a <= n BY <1>4 DEF InOrder
  <2> QED BY <1>4, <2>1
<1> QED BY <1>2, <1>4, <1>8, <1>9, <1>10, <1>11

(* What the invariant says of the records, the disk, the retries, the
   permits and a clean stop. *)
LEMMA GroupSafe ==
  ASSUME GroupInv
  PROVE  RecordsSafe
<1>1. /\ PersistenceTypeOK /\ FailedIsRun /\ PhasesExact /\ PermitsHeld BY DEF GroupInv
<1>2. RecordsInOrder
  <2> SUFFICES ASSUME NEW s \in Streams
               PROVE  /\ {Unconfirmed[i].start : i \in At(Unconfirmed, s)} = confirmed[s] .. handed[s] - 1
                      /\ \A i, j \in At(Unconfirmed, s) :
                           i < j => Unconfirmed[i].start < Unconfirmed[j].start
    BY DEF RecordsInOrder
  <2>1. InOrder(Unconfirmed, s, confirmed[s], handed[s]) BY RowInOrder
  <2> QED BY <2>1 DEF InOrder
<1>3. ConfirmedIsOnDisk
  <2> SUFFICES ASSUME NEW s \in Streams PROVE confirmed[s] <= disk[s]
    BY DEF ConfirmedIsOnDisk
  <2>1. PICK x \in Nat, n \in Nat, y \in Nat :
          x = confirmed[s] /\ n = durable[s] /\ y = disk[s] /\ x <= n
    BY RowInOrder, PlacesOf
  <2>2. n <= y
    <3>1. CASE worker.faulted
      <4>1. CASE s = worker.failed[1].stream
        <5>1. disk[s] \in durable[s] .. durable[s] + Len(worker.failed)
          BY <1>1, <3>1, <4>1 DEF FailedIsRun
        <5>2. y \in n .. n + Len(worker.failed) BY <2>1, <5>1
        <5> QED BY <5>2
      <4>2. CASE s # worker.failed[1].stream
        <5>1. disk[s] = durable[s] BY <1>1, <3>1, <4>2 DEF FailedIsRun
        <5> QED BY <2>1, <5>1
      <4> QED BY <4>1, <4>2
    <3>2. CASE ~worker.faulted
      <4>1. disk = durable BY <1>1, <3>2 DEF FailedIsRun
      <4> QED BY <2>1, <4>1
    <3> QED BY <3>1, <3>2
  <2>3. x <= y BY <2>1, <2>2
  <2> QED BY <2>1, <2>3
<1>4. RetryIsExact
  <2> DEFINE row == worker.pending \o queue
  <2> SUFFICES ASSUME ~worker.faulted, NEW s \in Streams, NEW i \in At(row, s),
                      \A j \in At(row, s) : i <= j
               PROVE  row[i].start = durable[s]
    BY DEF RetryIsExact
  <2>1. row \in Seq(Items)
    <3>1. worker.pending \in Seq(Items) /\ queue \in Seq(Items) BY <1>1, TypeFacts
    <3> QED BY <3>1, ConcatProperties
  <2>2. PICK b \in Nat : InOrder(worker.failed, s, durable[s], b) /\ InOrder(row, s, b, handed[s])
    BY RowInOrder
  <2> HIDE DEF row
  <2>3. durable[s] \in Nat /\ handed[s] \in Nat BY RowInOrder
  <2>4. b = durable[s]
    <3>1. InOrder(<<>>, s, durable[s], b) BY <1>1, <2>2 DEF FailedIsRun
    <3>2. \A k \in DOMAIN <<>> : Live(<<>>[k]) => <<>>[k].stream # s OBVIOUS
    <3> QED BY <2>3, <3>1, <3>2, OthersBounds
  <2>5. /\ {row[k].start : k \in At(row, s)} = b .. handed[s] - 1
        /\ \A k, j \in At(row, s) : k < j => row[k].start < row[j].start
    BY <2>2 DEF InOrder
  <2>6. row[i].start \in b .. handed[s] - 1 BY <2>5
  <2>7. b \in b .. handed[s] - 1 BY <2>3, <2>6
  <2>8. PICK j \in At(row, s) : row[j].start = b
    <3>1. b \in {row[k].start : k \in At(row, s)} BY <2>5, <2>7
    <3> QED BY <3>1
  <2>9. i \in Int /\ j \in Int BY <2>1, LenProperties DEF At
  <2>10. CASE i = j BY <2>4, <2>8, <2>10
  <2>11. CASE i # j
    <3>1. i < j BY <2>9, <2>11
    <3>2. row[i].start < b BY <2>5, <2>8, <3>1
    <3> QED BY <2>3, <2>6, <3>2
  <2> QED BY <2>10, <2>11
<1>5. PermitsExact
  <2>1. /\ worker.done \in Seq(Items) /\ worker.failed \in Seq(Writes) /\ worker.pending \in Seq(Writes)
        /\ queue \in Seq(Items)
    BY <1>1, TypeFacts
  <2>2. /\ worker.failed \in Seq(Items) /\ worker.pending \in Seq(Items)
        /\ Count(worker.failed) = Len(worker.failed) /\ Count(worker.pending) = Len(worker.pending)
    BY <2>1, CountWrites
  <2> DEFINE A == worker.done \o worker.failed
             B == A \o worker.pending
             C == B \o queue
  <2>3. A \in Seq(Items) /\ Count(A) = Count(worker.done) + Count(worker.failed)
    BY <2>1, <2>2, ConcatProperties, CountConcat
  <2> HIDE DEF A
  <2>4. B \in Seq(Items) /\ Count(B) = Count(A) + Count(worker.pending)
    BY <2>2, <2>3, ConcatProperties, CountConcat
  <2> HIDE DEF B
  <2>5. Count(C) = Count(B) + Count(queue) BY <2>1, <2>4, CountConcat
  <2>6. Accepted = C BY DEF Accepted, A, B, C
  <2>7. Count(Accepted) = Cardinality({i \in DOMAIN Accepted : Live(Accepted[i])})
    BY DEF Count, Records
  <2> HIDE DEF C
  <2>8. PICK d \in Nat, f \in Nat, m \in Nat, q \in Nat, r \in Nat :
          /\ d = Count(worker.done) /\ f = Len(worker.failed) /\ m = Len(worker.pending)
          /\ q = Count(queue) /\ r = Releasing(worker.pc)
          /\ in_flight = d + f + m + q + r
    BY PermitParts
  <2>9. Count(Accepted) = ((d + f) + m) + q BY <2>2, <2>3, <2>4, <2>5, <2>6, <2>8
  <2>10. in_flight = (((d + f) + m) + q) + r BY <2>8
  <2>11. in_flight = Count(Accepted) + Releasing(worker.pc) BY <2>8, <2>9, <2>10
  <2>12. worker.pc = "stopped" => caller.closed BY <1>1 DEF PhasesExact
  <2> QED BY <2>7, <2>11, <2>12 DEF PermitsExact, Releasing
<1>6. CleanStopDrains
  <2> SUFFICES ASSUME worker.pc = "stopped", ~worker.faulted, NEW s \in Streams
               PROVE  disk[s] = handed[s]
    BY DEF CleanStopDrains
  <2>1. worker.failed = <<>> /\ disk = durable /\ worker.pending = <<>> /\ queue = <<>>
    BY <1>1 DEF FailedIsRun, PhasesExact
  <2>2. PICK b \in Nat : /\ InOrder(worker.failed, s, durable[s], b)
                         /\ InOrder(worker.pending \o queue, s, b, handed[s])
    BY RowInOrder
  <2>3. worker.pending \o queue = <<>> BY <2>1
  <2>4. InOrder(<<>>, s, durable[s], b) /\ InOrder(<<>>, s, b, handed[s])
    BY <2>1, <2>2, <2>3
  <2>5. \A k \in DOMAIN <<>> : Live(<<>>[k]) => <<>>[k].stream # s OBVIOUS
  <2>6. durable[s] \in Nat /\ handed[s] \in Nat BY RowInOrder
  <2>7. durable[s] = b BY <2>4, <2>5, <2>6, OthersBounds
  <2>8. b = handed[s] BY <2>4, <2>5, <2>6, OthersBounds
  <2> QED BY <2>1, <2>7, <2>8
<1> QED BY <1>1, <1>2, <1>3, <1>4, <1>5, <1>6 DEF RecordsSafe

(* The executor loses nothing and invents nothing: what it was handed is
   in one place and in order, what it confirmed is on disk, what it
   retries is what the repository expects, its permits are exact and a
   clean stop drains it, however groups fail and are recovered. *)
THEOREM RecordsStaySafe == PersistenceSpec => []RecordsSafe
<1>1. GroupInv => RecordsSafe BY GroupSafe
<1> QED BY <1>1, GroupInvariant, PTL

(* The start of a channel. *)
(* What a node reports of itself, what the host notes of it, and the
   capture of a boot. *)
RuntimeStates == {"Idle", "Recording", "Maintenance", "Faulted"}
PeerType == [boot : Nat, state : RuntimeStates, produced : Nat, released : Nat, retained : Nat]
EvidenceType ==
  [boot : Nat, state : RuntimeStates \cup {None}, produced : Nat, released : Nat, retained : Nat]
StreamType == [made : BOOLEAN, open : BOOLEAN, first : Nat, durable : Nat]

(* The stages by what is known in them: the evidence is being collected, it
   is complete, the captures are open. *)
Asking == {"handshake", "runtime", "stream"}
Preparing == {"prepare", "reconcile"}
Opened == {"reconcile", "activate", "stop", "drain", "restart", "recording", "rollback"}
Stages == Asking \cup Preparing \cup Opened \cup {"off", "failed", "rolledback", "TruncatedFileHeader"}

(* The nodes the stage is done with. *)
NodesDone == {StartupNodes[j] : j \in 1 .. turn - 1}
(* The nodes whose evidence is complete. *)
Asked == IF stage \in Asking THEN NodesDone
         ELSE IF stage \in Preparing \cup Opened THEN NodeSet ELSE {}

(* The values of the variables of the start. *)
StartupTypes ==
  /\ peer \in [NodeSet -> PeerType]
  /\ DOMAIN captures = NodeSet
  /\ \A n \in NodeSet : captures[n] \in [1 .. MaxBoots[n] -> StreamType]
  /\ stage \in Stages /\ turn \in 1 .. Len(StartupNodes) + 1
  /\ stage \in {"runtime", "stream"} => turn <= Len(StartupNodes)
  /\ plan \in [NodeSet -> Nat]
  /\ evidence \in [NodeSet -> EvidenceType]
  /\ runtime \in [NodeSet -> RuntimeStates \cup {None}]
  /\ takeover \in BOOLEAN

(* A node and the capture of the boot it runs: nothing is released that is not
   on disk, nothing on disk that was not produced; no boot was captured before
   it began. *)
CapturesSound ==
  \A n \in NodeSet :
    /\ peer[n].boot \in 1 .. MaxBoots[n]
    /\ peer[n].retained <= peer[n].produced
    /\ peer[n].released <= captures[n][peer[n].boot].durable
    /\ captures[n][peer[n].boot].durable <= peer[n].produced
    /\ \A b \in 1 .. MaxBoots[n] :
         b > peer[n].boot \/ ~captures[n][b].open => captures[n][b].durable = 0

(* What a node said stays true of the boot it said it in. *)
Truthful(n) ==
  /\ evidence[n].boot \in 1 .. peer[n].boot /\ evidence[n].state \in RuntimeStates
  /\ Session(n) => evidence[n].produced <= peer[n].produced
  /\ stage \in Asking \cup Preparing =>
       /\ evidence[n].released <= Stream(n).durable
       /\ Stream(n).durable <= evidence[n].produced
       /\ Session(n) /\ evidence[n].state = "Recording" => peer[n].state = "Recording"
  /\ stage \in Preparing \cup Opened => evidence[n].boot = plan[n]
  /\ stage \in Opened => Stream(n).open

EvidenceSound == \A n \in Asked : Truthful(n)

(* The node that is being asked. *)
PartlyAsked ==
  stage \in {"runtime", "stream"} =>
    /\ evidence[Me].boot \in 1 .. peer[Me].boot
    /\ stage = "stream" =>
         /\ evidence[Me].state \in RuntimeStates
         /\ Session(Me) /\ evidence[Me].state = "Recording" => peer[Me].state = "Recording"

(* A node that was found recording, or was told to, still records in its
   session. *)
RuntimeTold ==
  stage \in {"activate", "stop", "drain", "restart"} =>
    \A n \in NodeSet : /\ runtime[n] \in RuntimeStates
                       /\ Session(n) /\ runtime[n] = "Recording" => peer[n].state = "Recording"

(* What the stage has done so far to the nodes before the current one, or has
   found that ended the start. *)
StageDone ==
  /\ stage = "TruncatedFileHeader" =>
       \E n \in NodeSet : OriginUnreadable(n) /\ evidence[n].boot \in 1 .. peer[n].boot
  /\ stage \in {"activate", "restart"} => \A n \in NodesDone : runtime[n] = "Recording"
  /\ stage = "drain" => \A n \in NodesDone : Session(n) => Stream(n).durable >= evidence[n].produced
  /\ stage = "restart" \/ (stage = "activate" /\ ~takeover) =>
       \A n \in NodeSet : Session(n) => Stream(n).durable >= evidence[n].produced

(* The inductive invariant of a start. *)
StartupInv ==
  /\ StartupTypes /\ CapturesSound /\ EvidenceSound /\ PartlyAsked /\ RuntimeTold /\ StageDone

LEMMA NodesInPlan ==
  /\ Len(StartupNodes) \in Nat /\ NodeSet # {}
  /\ \A j \in 1 .. Len(StartupNodes) : StartupNodes[j] \in NodeSet
  /\ \A n \in NodeSet : /\ \E j \in 1 .. Len(StartupNodes) : n = StartupNodes[j]
                        /\ MaxBoots[n] \in Nat \ {0}
  /\ \A j, k \in 1 .. Len(StartupNodes) : StartupNodes[j] = StartupNodes[k] => j = k
<1>1. DOMAIN StartupNodes = 1 .. Len(StartupNodes) /\ Len(StartupNodes) \in Nat
  BY StartupAssumption
<1>2. NodeSet = {StartupNodes[j] : j \in 1 .. Len(StartupNodes)}
  BY <1>1 DEF NodeSet, Range
<1>3. Len(StartupNodes) >= 1 BY StartupAssumption
<1>4. MaxBoots \in [NodeSet -> Nat \ {0}] BY StartupAssumption DEF NodeSet
<1>5. QED BY <1>1, <1>2, <1>3, <1>4, StartupAssumption DEF IsInjective

LEMMA Turns ==
  ASSUME turn \in 1 .. Len(StartupNodes) + 1
  PROVE  /\ All => NodesDone = NodeSet
         /\ ~All => Me \in NodeSet /\ Me \notin NodesDone /\ turn + 1 \in 1 .. Len(StartupNodes) + 1
         /\ NodesDone \subseteq NodeSet
<1>1. All => turn - 1 = Len(StartupNodes) BY NodesInPlan DEF All
<1>2. All => NodesDone = NodeSet BY <1>1, NodesInPlan DEF NodesDone, All
<1>3. ~All => turn \in 1 .. Len(StartupNodes) /\ turn + 1 \in 1 .. Len(StartupNodes) + 1
  BY NodesInPlan DEF All
<1>4. ~All => Me \in NodeSet /\ Me \notin NodesDone
  BY <1>3, NodesInPlan DEF NodesDone, Me
<1>5. NodesDone \subseteq NodeSet BY NodesInPlan DEF NodesDone
<1>6. QED BY <1>2, <1>3, <1>4, <1>5

(* What the next turn has passed. *)
LEMMA NextTurn ==
  ASSUME turn \in 1 .. Len(StartupNodes) + 1
  PROVE  /\ turn' = 1 => NodesDone' = {}
         /\ turn' = turn => NodesDone' = NodesDone
         /\ turn' = turn + 1 => NodesDone' = NodesDone \cup {Me}
<1>1. turn' = 1 => NodesDone' = {} BY DEF NodesDone
<1>2. turn' = turn => NodesDone' = NodesDone BY DEF NodesDone
<1>3. turn' = turn + 1 => NodesDone' = NodesDone \cup {Me}
  <2>1. 1 .. (turn + 1) - 1 = (1 .. turn - 1) \cup {turn} BY NodesInPlan
  <2>2. QED BY <2>1 DEF NodesDone, Me
<1>4. QED BY <1>1, <1>2, <1>3

LEMMA StartupBegins == StartupInit => StartupInv
<1> SUFFICES ASSUME StartupInit PROVE StartupInv OBVIOUS
<1> USE NodesInPlan
<1>1. PICK s \in RuntimeStates :
        peer = [n \in NodeSet |-> [Boot(n, 1) EXCEPT !.state = IF n = StartupNodes[1] THEN s ELSE @]]
  BY DEF StartupInit, RuntimeStates
<1>2. \A n \in NodeSet : /\ peer[n] \in PeerType /\ peer[n].boot = 1 /\ peer[n].produced = 0
                         /\ peer[n].released = 0 /\ peer[n].retained = 0
  BY <1>1 DEF Boot, PeerType, RuntimeStates
<1>3. peer \in [NodeSet -> PeerType] BY <1>1, <1>2
<1>4. /\ captures = [n \in NodeSet |-> [b \in 1 .. MaxBoots[n] |-> NoStream]]
      /\ NoStream \in StreamType /\ NoStream.durable = 0
  BY DEF StartupInit, NoStream, StreamType
<1>5. /\ stage = "off" /\ turn = 1 /\ plan = [n \in NodeSet |-> 0]
      /\ evidence = [n \in NodeSet |-> NoEvidence] /\ NoEvidence \in EvidenceType
      /\ runtime = [n \in NodeSet |-> None] /\ takeover = FALSE
  BY DEF StartupInit, NoEvidence, EvidenceType
<1>6. StartupTypes
  <2>1. \A n \in NodeSet : captures[n] \in [1 .. MaxBoots[n] -> StreamType] BY <1>4
  <2>2. stage \in Stages /\ stage \notin {"runtime", "stream"} /\ turn \in 1 .. Len(StartupNodes) + 1
    BY <1>5 DEF Stages
  <2>3. evidence \in [NodeSet -> EvidenceType] /\ runtime \in [NodeSet -> RuntimeStates \cup {None}]
    BY <1>5
  <2>4. plan \in [NodeSet -> Nat] BY <1>5
  <2>5. QED BY <1>3, <1>4, <1>5, <2>1, <2>2, <2>3, <2>4 DEF StartupTypes
<1>7. CapturesSound BY <1>2, <1>4 DEF CapturesSound
<1>8. EvidenceSound /\ PartlyAsked /\ RuntimeTold /\ StageDone
  BY <1>5 DEF EvidenceSound, PartlyAsked, RuntimeTold, StageDone, Asked, Asking, Preparing, Opened
<1>9. QED BY <1>6, <1>7, <1>8 DEF StartupInv

(* The current node, and that one is left, in the terms the steps use. *)
LEMMA CurrentNode ==
  ASSUME StartupInv, ~All
  PROVE  /\ Me \in NodeSet /\ Me \notin NodesDone
         /\ turn \in 1 .. Len(StartupNodes) + 1 /\ turn + 1 \in 1 .. Len(StartupNodes) + 1
BY Turns DEF StartupInv, StartupTypes

(* Records and captures of a node, as the parts of the invariant say them. *)
LEMMA NodeTypes ==
  ASSUME StartupInv, NEW n \in NodeSet
  PROVE  /\ peer[n] \in PeerType /\ evidence[n] \in EvidenceType
         /\ DOMAIN captures = NodeSet /\ DOMAIN captures[n] = 1 .. MaxBoots[n]
         /\ \A b \in 1 .. MaxBoots[n] : captures[n][b] \in StreamType
         /\ MaxBoots[n] \in Nat \ {0}
BY NodesInPlan DEF StartupInv, StartupTypes

(* The process goes on without touching a node or a capture. *)
LEMMA StageMoves ==
  ASSUME StartupInv, UNCHANGED <<peer, captures, plan, evidence>>,
         stage' \in Stages \ Asking, turn' \in 1 .. Len(StartupNodes) + 1,
         runtime' \in [NodeSet -> RuntimeStates \cup {None}], takeover' \in BOOLEAN,
         stage' \in Preparing \cup Opened =>
           Asked = NodeSet /\ \A n \in NodeSet : evidence[n].boot = plan[n],
         stage' \in Preparing => stage \in Asking \cup Preparing,
         stage' \in Opened => stage \in Opened,
         RuntimeTold', StageDone'
  PROVE  StartupInv'
<1>1. StartupTypes' BY DEF StartupInv, StartupTypes, Asking
<1>2. CapturesSound' BY DEF StartupInv, CapturesSound
<1>3. EvidenceSound'
  <2>1. Asked' = IF stage' \in Preparing \cup Opened THEN NodeSet ELSE {} BY DEF Asked
  <2> SUFFICES ASSUME NEW n \in NodeSet, stage' \in Preparing \cup Opened
               PROVE  Truthful(n)'
    BY <2>1 DEF EvidenceSound
  <2>2. Truthful(n) BY DEF StartupInv, EvidenceSound
  <2>3. Session(n)' = Session(n) /\ Stream(n)' = Stream(n) BY DEF Session, Stream
  <2>4. \/ stage' = "reconcile" /\ stage = "reconcile"
        \/ stage' \in Preparing /\ stage \in Asking \cup Preparing
        \/ stage' \in Opened \ Preparing
    OBVIOUS
  <2>5. "reconcile" \in Opened BY DEF Opened
  <2>6. stage' \notin Asking OBVIOUS
  <2>7. QED BY <2>2, <2>3, <2>4, <2>5, <2>6 DEF Truthful
<1>4. PartlyAsked' BY DEF PartlyAsked, Asking
<1>5. QED BY <1>1, <1>2, <1>3, <1>4 DEF StartupInv

(* A node executes a lifecycle command. *)
LEMMA NodeMoves ==
  ASSUME StartupInv, NEW m \in NodeSet, NEW s \in RuntimeStates,
         peer' = [peer EXCEPT ![m].state = s],
         UNCHANGED <<captures, plan, evidence, takeover>>,
         stage \in Opened \ Preparing,
         stage' \in (Opened \ Preparing) \cup {"failed", "rolledback"},
         turn' \in 1 .. Len(StartupNodes) + 1,
         runtime' \in [NodeSet -> RuntimeStates \cup {None}],
         RuntimeTold', StageDone'
  PROVE  StartupInv'
<1>1. \A n \in NodeSet :
        /\ peer'[n] \in PeerType
        /\ peer'[n].boot = peer[n].boot /\ peer'[n].produced = peer[n].produced
        /\ peer'[n].released = peer[n].released /\ peer'[n].retained = peer[n].retained
  BY ZenonT(30) DEF StartupInv, StartupTypes, PeerType
<1>2. StartupTypes'
  <2>1. peer' \in [NodeSet -> PeerType] BY <1>1 DEF StartupInv, StartupTypes
  <2>2. stage' \in Stages /\ stage' \notin {"runtime", "stream"} BY DEF Stages, Opened
  <2>3. QED BY <2>1, <2>2 DEF StartupInv, StartupTypes
<1>3. CapturesSound' BY <1>1 DEF StartupInv, CapturesSound
<1>4. EvidenceSound'
  <2>1. stage' \notin Asking \cup Preparing BY DEF Asking, Preparing, Opened
  <2>2. stage \notin Asking /\ Asked = NodeSet /\ Asked' \subseteq NodeSet
    BY <2>1 DEF Asked, Asking, Opened
  <2> SUFFICES ASSUME NEW n \in NodeSet
               PROVE  Truthful(n)'
    BY <2>2 DEF EvidenceSound
  <2>3. Truthful(n) BY <2>2 DEF StartupInv, EvidenceSound
  <2>4. Session(n)' = Session(n) /\ Stream(n)' = Stream(n) BY <1>1 DEF Session, Stream
  <2>5. QED BY <1>1, <2>1, <2>3, <2>4 DEF Truthful
<1>5. PartlyAsked' BY DEF PartlyAsked, Opened
<1>6. QED BY <1>2, <1>3, <1>4, <1>5 DEF StartupInv

------------------------
(* The start of the process and what it asks the nodes. *)

LEMMA DiscoverKeeps == StartupInv /\ Discover => StartupInv'
<1> SUFFICES ASSUME StartupInv, Discover PROVE StartupInv' OBVIOUS
<1>1. /\ stage' = "handshake" /\ turn' = 1 /\ plan' = [n \in NodeSet |-> peer[n].boot]
      /\ UNCHANGED <<peer, captures, evidence, runtime, takeover>>
  BY DEF Discover, Goes
<1>2. plan' \in [NodeSet -> Nat] BY <1>1 DEF StartupInv, StartupTypes, PeerType
<1>3. StartupTypes'
  BY <1>1, <1>2, NodesInPlan DEF StartupInv, StartupTypes, Stages, Asking
<1>4. CapturesSound' BY <1>1 DEF StartupInv, CapturesSound
<1>5. EvidenceSound' BY <1>1 DEF EvidenceSound, Asked, Asking, NodesDone
<1>6. PartlyAsked' /\ RuntimeTold' /\ StageDone'
  BY <1>1 DEF PartlyAsked, RuntimeTold, StageDone
<1>7. QED BY <1>3, <1>4, <1>5, <1>6 DEF StartupInv

(* Asking one node changes what is known of that node alone. *)
LEMMA StartAskKeeps ==
  ASSUME StartupInv, ~All, NEW m \in NodeSet, m = Me, UNCHANGED <<peer, captures, plan, runtime, takeover>>,
         stage \in Asking, stage' \in Asking,
         NEW e \in EvidenceType, evidence' = [evidence EXCEPT ![m] = e],
         \/ turn' = turn
         \/ turn' = turn + 1 /\ stage' = "handshake" /\ Truthful(m)',
         PartlyAsked'
  PROVE  StartupInv'
<1>1. /\ m \notin NodesDone
      /\ turn \in 1 .. Len(StartupNodes) + 1 /\ turn' \in 1 .. Len(StartupNodes) + 1
  BY CurrentNode
<1>2. turn' = turn => turn' <= Len(StartupNodes) BY <1>1, NodesInPlan DEF All
<1>3. StartupTypes'
  <2>1. evidence' \in [NodeSet -> EvidenceType] BY DEF StartupInv, StartupTypes
  <2>2. stage' \in Stages /\ (stage' \in {"runtime", "stream"} => turn' <= Len(StartupNodes))
    BY <1>2 DEF Stages
  <2>3. QED BY <1>1, <2>1, <2>2 DEF StartupInv, StartupTypes
<1>4. CapturesSound' BY DEF StartupInv, CapturesSound
<1>5. EvidenceSound'
  <2>1. Asked = NodesDone /\ Asked' = NodesDone' /\ stage \notin Preparing \cup Opened
        /\ stage' \notin Preparing \cup Opened
    BY DEF Asked, Asking, Preparing, Opened
  <2>2. NodesDone' = NodesDone \/ (NodesDone' = NodesDone \cup {m} /\ Truthful(m)')
    BY <1>1, NextTurn
  <2>3. NodesDone \subseteq NodeSet BY <1>1, Turns
  <2>4. ASSUME NEW n \in NodesDone PROVE Truthful(n)'
    <3>1. evidence'[n] = evidence[n] /\ Truthful(n)
      BY <1>1, <2>1, <2>3, <2>4 DEF StartupInv, StartupTypes, EvidenceSound
    <3>2. Session(n)' = Session(n) /\ Stream(n)' = Stream(n) BY <3>1 DEF Session, Stream
    <3>3. QED BY <2>1, <3>1, <3>2 DEF Truthful
  <2>5. QED BY <2>1, <2>2, <2>4 DEF EvidenceSound
<1>6. RuntimeTold' /\ StageDone' BY DEF RuntimeTold, StageDone, Asking
<1>7. QED BY <1>3, <1>4, <1>5, <1>6 DEF StartupInv

LEMMA BootstrapIdentityKeeps == StartupInv /\ BootstrapIdentity => StartupInv'
<1> SUFFICES ASSUME StartupInv, BootstrapIdentity PROVE StartupInv' OBVIOUS
<1> DEFINE e == [NoEvidence EXCEPT !.boot = peer[Me].boot]
<1>1. /\ ~All /\ stage = "handshake" /\ stage' = "runtime" /\ turn' = turn
      /\ evidence' = [evidence EXCEPT ![Me] = e]
      /\ UNCHANGED <<peer, captures, plan, runtime, takeover>>
  BY DEF BootstrapIdentity
<1>2. Me \in NodeSet BY <1>1, CurrentNode
<1>3. e \in EvidenceType /\ e.boot = peer[Me].boot /\ peer[Me].boot \in 1 .. peer[Me].boot
  BY SMTT(30), <1>2, NodeTypes DEF NoEvidence, EvidenceType, PeerType, StartupInv, CapturesSound
<1>4. Me' = Me /\ evidence'[Me] = e BY <1>1, <1>2 DEF Me, StartupInv, StartupTypes
<1>5. PartlyAsked' BY <1>1, <1>3, <1>4 DEF PartlyAsked
<1> HIDE DEF e
<1>6. QED BY <1>1, <1>2, <1>3, <1>5, StartAskKeeps DEF Asking

LEMMA BootstrapRuntimeKeeps == StartupInv /\ BootstrapRuntime => StartupInv'
<1> SUFFICES ASSUME StartupInv, BootstrapRuntime PROVE StartupInv' OBVIOUS
<1> DEFINE e == [evidence[Me] EXCEPT !.state = peer[Me].state]
<1>1. /\ stage = "runtime" /\ stage' = "stream" /\ turn' = turn
      /\ evidence' = [evidence EXCEPT ![Me].state = peer[Me].state]
      /\ UNCHANGED <<peer, captures, plan, runtime, takeover>>
  BY DEF BootstrapRuntime
<1>2. ~All BY <1>1, NodesInPlan DEF All, StartupInv, StartupTypes
<1>3. Me \in NodeSet BY <1>2, CurrentNode
<1>4. evidence' = [evidence EXCEPT ![Me] = e] BY <1>1
<1>5. e \in EvidenceType /\ e.boot = evidence[Me].boot /\ e.state = peer[Me].state
      /\ e.state \in RuntimeStates
  BY <1>3, NodeTypes DEF EvidenceType, PeerType
<1>6. Me' = Me /\ evidence'[Me] = e BY <1>1, <1>3, <1>4 DEF Me, StartupInv, StartupTypes
<1>7. PartlyAsked' BY <1>1, <1>5, <1>6 DEF PartlyAsked, StartupInv
<1> HIDE DEF e
<1>8. QED BY <1>1, <1>2, <1>3, <1>4, <1>5, <1>7, StartAskKeeps DEF Asking

LEMMA BootstrapStreamKeeps == StartupInv /\ BootstrapStream => StartupInv'
<1> SUFFICES ASSUME StartupInv, BootstrapStream PROVE StartupInv' OBVIOUS
<1>1. stage = "stream" /\ UNCHANGED <<peer, captures, plan>> BY DEF BootstrapStream
<1>2. ~All BY <1>1, NodesInPlan DEF All, StartupInv, StartupTypes
<1>3. Me \in NodeSet BY <1>2, CurrentNode
<1>4. CASE SameEpoch(Me)
  <2>0. PICK m \in NodeSet : m = Me BY <1>3
  <2> DEFINE e == [peer[m] EXCEPT !.state = evidence[m].state, !.boot = evidence[m].boot]
  <2>1. /\ stage' = "handshake" /\ turn' = turn + 1 /\ evidence' = [evidence EXCEPT ![m] = e]
        /\ UNCHANGED <<runtime, takeover>>
    BY <1>4, <2>0 DEF BootstrapStream
  <2>2. /\ e \in EvidenceType /\ e.boot = evidence[m].boot /\ e.state = evidence[m].state
        /\ e.produced = peer[m].produced /\ e.released = peer[m].released
    BY NodeTypes DEF EvidenceType, PeerType
  <2>3. evidence'[m] = e BY <2>1 DEF StartupInv, StartupTypes
  <2>4. e.boot = peer[m].boot BY <1>4, <2>0, <2>2 DEF SameEpoch
  <2>5. /\ Stream(m)' = captures[m][peer[m].boot]
        /\ Session(m)' /\ peer[m].boot \in Nat /\ peer[m].produced \in Nat
    BY <1>1, <2>3, <2>4, NodeTypes DEF Stream, Session, PeerType
  <2>6. /\ peer[m].boot \in 1 .. MaxBoots[m]
        /\ peer[m].released <= captures[m][peer[m].boot].durable
        /\ captures[m][peer[m].boot].durable <= peer[m].produced
    BY DEF StartupInv, CapturesSound
  <2>7. /\ evidence[m].state \in RuntimeStates
        /\ Session(m) /\ evidence[m].state = "Recording" => peer[m].state = "Recording"
    BY <1>1, <2>0 DEF StartupInv, PartlyAsked
  <2>8. Session(m) BY <1>4, <2>0 DEF SameEpoch, Session
  <2> HIDE DEF e
  <2>9. stage' \notin Preparing \cup Opened BY <2>1 DEF Preparing, Opened
  <2>10. Truthful(m)'
    <3>1. evidence'[m].boot = peer[m].boot /\ evidence'[m].state = evidence[m].state
          /\ evidence'[m].produced = peer[m].produced
          /\ evidence'[m].released = peer[m].released
      BY <2>2, <2>3, <2>4
    <3>2. peer[m].boot \in 1 .. peer[m].boot BY <2>5, <2>6
    <3>3. peer' = peer BY <1>1
    <3>4. QED BY <2>5, <2>6, <2>7, <2>8, <2>9, <3>1, <3>2, <3>3 DEF Truthful
  <2>11. PartlyAsked' BY <2>1 DEF PartlyAsked
  <2>12. QED BY <1>1, <1>2, <2>0, <2>1, <2>2, <2>10, <2>11, StartAskKeeps DEF Asking
<1>5. CASE ~SameEpoch(Me)
  <2>1. /\ stage' = "failed" /\ turn' = 1 /\ UNCHANGED <<evidence, runtime, takeover>>
    BY <1>5 DEF BootstrapStream, Refused
  <2>2. QED BY <1>1, <2>1, NodesInPlan, StageMoves
       DEF Stages, Asking, Preparing, Opened, RuntimeTold, StageDone, StartupInv, StartupTypes
<1>6. QED BY <1>4, <1>5

LEMMA BootstrapFailsKeeps == StartupInv /\ BootstrapFails => StartupInv'
<1> SUFFICES ASSUME StartupInv, BootstrapFails PROVE StartupInv' OBVIOUS
<1>1. /\ stage' = "failed" /\ turn' = 1
      /\ UNCHANGED <<peer, captures, plan, evidence, runtime, takeover>>
  BY DEF BootstrapFails, Goes
<1>2. QED BY <1>1, NodesInPlan, StageMoves
     DEF Stages, Asking, Preparing, Opened, RuntimeTold, StageDone, StartupInv, StartupTypes

LEMMA ValidateBootstrapKeeps == StartupInv /\ ValidateBootstrap => StartupInv'
<1> SUFFICES ASSUME StartupInv, ValidateBootstrap PROVE StartupInv' OBVIOUS
<1>1. /\ stage = "handshake" /\ All /\ turn' = 1
      /\ UNCHANGED <<peer, captures, plan, evidence, runtime, takeover>>
      /\ stage' = IF \A n \in NodeSet : evidence[n].boot = plan[n] THEN "prepare" ELSE "failed"
  BY DEF ValidateBootstrap, Goes
<1>2. Asked = NodeSet BY <1>1, Turns DEF Asked, Asking, StartupInv, StartupTypes
<1>3. stage' \in Stages \ Asking /\ stage' \notin Opened /\ stage \in Asking
  BY <1>1 DEF Stages, Asking, Preparing, Opened
<1>4. stage' \in Preparing => \A n \in NodeSet : evidence[n].boot = plan[n]
  BY <1>1 DEF Preparing
<1>5. RuntimeTold' /\ StageDone' BY <1>1 DEF RuntimeTold, StageDone
<1>6. QED
  BY <1>1, <1>2, <1>3, <1>4, <1>5, NodesInPlan, StageMoves DEF StartupInv, StartupTypes

(* What every stage from the first on disk knows of every node. *)
LEMMA AllAsked ==
  ASSUME StartupInv, stage \in Preparing \cup Opened
  PROVE  Asked = NodeSet /\ \A n \in NodeSet : Truthful(n) /\ evidence[n].boot = plan[n]
<1>1. Asked = NodeSet BY DEF Asked, Asking, Preparing, Opened
<1>2. QED BY <1>1 DEF StartupInv, EvidenceSound, Truthful

LEMMA ReconcileStreamsKeeps == StartupInv /\ ReconcileStreams => StartupInv'
<1> SUFFICES ASSUME StartupInv, ReconcileStreams PROVE StartupInv' OBVIOUS
<1>1. stage = "reconcile" /\ stage \in Preparing /\ stage \in Opened
      /\ UNCHANGED <<peer, captures, plan, evidence>>
  BY DEF ReconcileStreams, Preparing, Opened, Refused
<1>2. \A n \in NodeSet : Truthful(n) /\ evidence[n].boot = plan[n] BY <1>1, AllAsked
<1>3. \A n \in NodeSet : /\ evidence[n].released <= Stream(n).durable
                         /\ Stream(n).durable <= evidence[n].produced
                         /\ Stream(n).durable \in Nat /\ evidence[n].produced \in Nat
                         /\ evidence[n].released \in Nat
  <2> SUFFICES ASSUME NEW n \in NodeSet
               PROVE  /\ evidence[n].released <= Stream(n).durable
                      /\ Stream(n).durable <= evidence[n].produced
                      /\ Stream(n).durable \in Nat /\ evidence[n].produced \in Nat
                      /\ evidence[n].released \in Nat
    OBVIOUS
  <2>1. Truthful(n) /\ evidence[n].boot \in 1 .. MaxBoots[n]
    BY <1>2, NodeTypes DEF Truthful, StartupInv, CapturesSound, PeerType
  <2>2. Stream(n) \in StreamType /\ evidence[n] \in EvidenceType
    BY <2>1, NodeTypes DEF Stream
  <2>3. QED BY <1>1, <2>1, <2>2 DEF Truthful, StreamType, EvidenceType
<1>4. \A n \in NodeSet : Reconciles(n) = "Ok" BY <1>3 DEF Reconciles
<1>5. /\ stage' = "activate" /\ turn' = 1
      /\ runtime' = [n \in NodeSet |-> evidence[n].state] /\ takeover' = TakeoverRequired
  BY <1>4 DEF ReconcileStreams, Goes
<1>6. \A n \in NodeSet : Session(n)' = Session(n) /\ Stream(n)' = Stream(n)
  BY <1>1 DEF Session, Stream
<1>7. RuntimeTold' BY <1>1, <1>2, <1>5, <1>6 DEF RuntimeTold, Truthful
<1>8. StageDone'
  <2>1. NodesDone' = {} BY <1>5 DEF NodesDone
  <2>2. ~takeover' => \A n \in NodeSet : Stream(n)'.durable >= evidence'[n].produced
    BY <1>1, <1>3, <1>5, <1>6 DEF TakeoverRequired
  <2>3. QED BY <1>5, <2>1, <2>2 DEF StageDone
<1>9. runtime' \in [NodeSet -> RuntimeStates \cup {None}] /\ takeover' \in BOOLEAN
  BY <1>2, <1>5 DEF Truthful, TakeoverRequired
<1>10. QED BY <1>1, <1>2, <1>5, <1>7, <1>8, <1>9, AllAsked, NodesInPlan, StageMoves
     DEF Stages, Asking, Preparing, Opened

(* A later stage that changes nothing but where the process is. *)
LEMMA LaterMoves ==
  ASSUME StartupInv, stage \in Opened,
         UNCHANGED <<peer, captures, plan, evidence, runtime, takeover>>,
         stage' \in (Opened \ Preparing) \cup {"failed", "rolledback"},
         turn' \in 1 .. Len(StartupNodes) + 1,
         RuntimeTold', StageDone'
  PROVE  StartupInv'
<1>1. stage' \in Stages \ Asking /\ stage' \notin Preparing
  BY DEF Stages, Asking, Preparing, Opened
<1>2. Asked = NodeSet /\ \A n \in NodeSet : evidence[n].boot = plan[n] BY AllAsked
<1>3. runtime' \in [NodeSet -> RuntimeStates \cup {None}] /\ takeover' \in BOOLEAN
  BY DEF StartupInv, StartupTypes
<1>4. QED BY <1>1, <1>2, <1>3, StageMoves

(* The nodes as they were, and what was read of them. *)
LEMMA Untouched ==
  ASSUME UNCHANGED <<peer, captures, evidence, runtime>>
  PROVE  \A n \in NodeSet : /\ Session(n)' = Session(n) /\ Stream(n)' = Stream(n)
                            /\ runtime'[n] = runtime[n] /\ peer'[n] = peer[n]
                            /\ evidence'[n] = evidence[n]
BY DEF Session, Stream

LEMMA AssembleKeeps == StartupInv /\ Assemble => StartupInv'
<1> SUFFICES ASSUME StartupInv, Assemble PROVE StartupInv' OBVIOUS
<1>1. stage = "activate" /\ All /\ stage \in Opened /\ turn' = 1
      /\ UNCHANGED <<peer, captures, plan, evidence, runtime, takeover>>
  BY DEF Assemble, Goes, Opened
<1>2. NodesDone = NodeSet /\ 1 \in 1 .. Len(StartupNodes) + 1
  BY <1>1, Turns, NodesInPlan DEF StartupInv, StartupTypes
<1>3. \A n \in NodeSet : runtime[n] = "Recording" /\ evidence[n].boot = plan[n]
  BY <1>1, <1>2, AllAsked DEF StartupInv, StageDone
<1>4. stage' = IF takeover THEN "stop" ELSE "recording" BY <1>3 DEF Assemble, Goes
<1>5. RuntimeTold' /\ StageDone'
  BY <1>1, <1>4, Untouched DEF RuntimeTold, StageDone, StartupInv
<1>6. stage' \in Opened \ Preparing BY <1>4 DEF Opened, Preparing
<1>7. QED BY <1>1, <1>2, <1>5, <1>6, LaterMoves

LEMMA StopEndsKeeps == StartupInv /\ StopEnds => StartupInv'
<1> SUFFICES ASSUME StartupInv, StopEnds PROVE StartupInv' OBVIOUS
<1>1. /\ stage \in {"stop", "rollback"} /\ turn' = 1
      /\ stage' = IF stage = "stop" THEN "drain" ELSE "rolledback"
      /\ UNCHANGED <<peer, captures, plan, evidence, runtime, takeover>>
  BY DEF StopEnds, Goes
<1>2. NodesDone' = {} /\ 1 \in 1 .. Len(StartupNodes) + 1
  BY <1>1, NodesInPlan DEF NodesDone
<1>3. RuntimeTold' /\ StageDone'
  BY <1>1, <1>2, Untouched DEF RuntimeTold, StageDone, StartupInv
<1>4. stage \in Opened /\ stage' \in (Opened \ Preparing) \cup {"failed", "rolledback"}
  BY <1>1 DEF Opened, Preparing
<1>5. QED BY <1>1, <1>2, <1>3, <1>4, LaterMoves

LEMMA DrainEndsKeeps == StartupInv /\ DrainEnds => StartupInv'
<1> SUFFICES ASSUME StartupInv, DrainEnds PROVE StartupInv' OBVIOUS
<1>1. /\ stage = "drain" /\ All /\ turn' = 1 /\ stage' = "restart"
      /\ UNCHANGED <<peer, captures, plan, evidence, runtime, takeover>>
  BY DEF DrainEnds, Goes
<1>2. NodesDone = NodeSet /\ NodesDone' = {} /\ 1 \in 1 .. Len(StartupNodes) + 1
  BY <1>1, Turns, NodesInPlan DEF StartupInv, StartupTypes, NodesDone
<1>3. \A n \in NodeSet : Session(n) => Stream(n).durable >= evidence[n].produced
  BY <1>1, <1>2 DEF StartupInv, StageDone
<1>4. RuntimeTold' /\ StageDone'
  BY <1>1, <1>2, <1>3, Untouched DEF RuntimeTold, StageDone, StartupInv
<1>5. stage \in Opened /\ stage' \in Opened \ Preparing BY <1>1 DEF Opened, Preparing
<1>6. QED BY <1>1, <1>2, <1>4, <1>5, LaterMoves

LEMMA RestartEndsKeeps == StartupInv /\ RestartEnds => StartupInv'
<1> SUFFICES ASSUME StartupInv, RestartEnds PROVE StartupInv' OBVIOUS
<1>1. /\ stage = "restart" /\ turn' = 1 /\ stage' = "recording"
      /\ UNCHANGED <<peer, captures, plan, evidence, runtime, takeover>>
  BY DEF RestartEnds, Goes
<1>2. RuntimeTold' /\ StageDone' /\ 1 \in 1 .. Len(StartupNodes) + 1
  BY <1>1, NodesInPlan DEF RuntimeTold, StageDone
<1>3. stage \in Opened /\ stage' \in Opened \ Preparing BY <1>1 DEF Opened, Preparing
<1>4. QED BY <1>1, <1>2, <1>3, LaterMoves

LEMMA StartupCrashKeeps == StartupInv /\ Crash => StartupInv'
<1> SUFFICES ASSUME StartupInv, Crash PROVE StartupInv' OBVIOUS
<1>1. /\ stage' = "off" /\ turn' = 1 /\ evidence' = [n \in NodeSet |-> NoEvidence]
      /\ runtime' = [n \in NodeSet |-> None] /\ takeover' = FALSE
      /\ UNCHANGED <<peer, captures, plan>>
  BY DEF Crash, Goes
<1>2. NoEvidence \in EvidenceType BY DEF NoEvidence, EvidenceType
<1>3. evidence' \in [NodeSet -> EvidenceType] /\ runtime' \in [NodeSet -> RuntimeStates \cup {None}]
  BY <1>1, <1>2
<1>4. StartupTypes'
  <2>1. stage' \in Stages /\ stage' \notin {"runtime", "stream"} /\ turn' \in 1 .. Len(StartupNodes) + 1
    BY <1>1, NodesInPlan DEF Stages
  <2>2. UNCHANGED <<peer, captures, plan>> /\ takeover' \in BOOLEAN BY <1>1
  <2>3. QED BY <1>3, <2>1, <2>2 DEF StartupInv, StartupTypes
<1>5. CapturesSound' BY <1>1 DEF StartupInv, CapturesSound
<1>6. EvidenceSound' /\ PartlyAsked' /\ RuntimeTold' /\ StageDone'
  BY <1>1 DEF EvidenceSound, Asked, Asking, Preparing, Opened, PartlyAsked, RuntimeTold, StageDone
<1>7. QED BY <1>4, <1>5, <1>6 DEF StartupInv

------------------------
(* The captures are opened, and grow while the host listens. *)

(* What a start that is cut while it opens the captures leaves on disk. *)
LEMMA CutCaptures ==
  ASSUME StartupInv, stage = "prepare", UNCHANGED <<peer, plan, evidence, runtime, takeover>>,
         stage' = "failed", turn' = 1, DOMAIN captures' = NodeSet,
         \A n \in NodeSet :
           \E c : /\ c \in {PrepareCapture(n), CreateCapture(n), Stream(n)}
                  /\ captures'[n] = [captures[n] EXCEPT ![evidence[n].boot] = c]
  PROVE  StartupInv'
<1>1. stage \in Preparing BY DEF Preparing
<1>2. Asked = NodeSet /\ \A n \in NodeSet : Truthful(n) /\ evidence[n].boot = plan[n]
  BY <1>1, AllAsked
<1>3. ASSUME NEW n \in NodeSet
      PROVE  /\ captures'[n] \in [1 .. MaxBoots[n] -> StreamType]
             /\ evidence[n].boot \in 1 .. MaxBoots[n] /\ evidence[n].boot <= peer[n].boot
             /\ \A b \in 1 .. MaxBoots[n] : b # evidence[n].boot => captures'[n][b] = captures[n][b]
             /\ ~captures'[n][evidence[n].boot].open => captures'[n][evidence[n].boot].durable = Stream(n).durable
                                                        /\ ~Stream(n).open
             /\ \/ captures'[n][evidence[n].boot].durable = Stream(n).durable
                \/ ~Stream(n).open /\ captures'[n][evidence[n].boot].durable = evidence[n].produced
             /\ Stream(n) \in StreamType /\ evidence[n] \in EvidenceType
  <2>1. evidence[n].boot \in 1 .. MaxBoots[n] /\ evidence[n].boot <= peer[n].boot
    BY <1>2, NodeTypes DEF Truthful, StartupInv, CapturesSound, PeerType
  <2>2. Stream(n) \in StreamType /\ evidence[n] \in EvidenceType
    BY <2>1, NodeTypes DEF Stream
  <2>3. PICK c : /\ c \in {PrepareCapture(n), CreateCapture(n), Stream(n)}
                 /\ captures'[n] = [captures[n] EXCEPT ![evidence[n].boot] = c]
    OBVIOUS
  <2>4. /\ PrepareCapture(n) \in StreamType /\ PrepareCapture(n).open
        /\ PrepareCapture(n).durable = IF Stream(n).open THEN Stream(n).durable ELSE evidence[n].produced
    BY <2>2 DEF PrepareCapture, StreamType, EvidenceType
  <2>5. /\ CreateCapture(n) \in StreamType /\ CreateCapture(n).open = Stream(n).open
        /\ CreateCapture(n).durable = Stream(n).durable
    BY <2>2 DEF CreateCapture, StreamType
  <2>6. /\ c \in StreamType
        /\ ~c.open => c.durable = Stream(n).durable /\ ~Stream(n).open
        /\ c.durable = Stream(n).durable \/ (~Stream(n).open /\ c.durable = evidence[n].produced)
    BY <2>2, <2>3, <2>4, <2>5
  <2>7. captures[n] \in [1 .. MaxBoots[n] -> StreamType] BY DEF StartupInv, StartupTypes
  <2>8. captures'[n][evidence[n].boot] = c BY <2>1, <2>3, <2>7
  <2>9. QED BY <2>1, <2>2, <2>3, <2>6, <2>7, <2>8
<1>4. StartupTypes'
  <2>1. stage' \in Stages /\ stage' \notin {"runtime", "stream"} /\ turn' \in 1 .. Len(StartupNodes) + 1
    BY NodesInPlan DEF Stages
  <2>2. QED BY <1>3, <2>1 DEF StartupInv, StartupTypes
<1>5. CapturesSound'
  <2> SUFFICES ASSUME NEW n \in NodeSet
               PROVE  /\ peer[n].boot \in 1 .. MaxBoots[n]
                      /\ peer[n].retained <= peer[n].produced
                      /\ peer[n].released <= captures'[n][peer[n].boot].durable
                      /\ captures'[n][peer[n].boot].durable <= peer[n].produced
                      /\ \A b \in 1 .. MaxBoots[n] :
                           b > peer[n].boot \/ ~captures'[n][b].open => captures'[n][b].durable = 0
    BY DEF CapturesSound
  <2>1. /\ peer[n].boot \in 1 .. MaxBoots[n] /\ peer[n].boot \in Nat /\ peer[n].retained <= peer[n].produced
        /\ peer[n].released <= captures[n][peer[n].boot].durable
        /\ captures[n][peer[n].boot].durable <= peer[n].produced
        /\ \A b \in 1 .. MaxBoots[n] :
             b > peer[n].boot \/ ~captures[n][b].open => captures[n][b].durable = 0
    BY NodeTypes DEF StartupInv, CapturesSound, PeerType
  <2>2. Stream(n) = captures[n][evidence[n].boot] BY DEF Stream
  <2>3. CASE evidence[n].boot = peer[n].boot
    <3>1. evidence[n].produced <= peer[n].produced /\ Stream(n).durable <= evidence[n].produced
      BY <1>1, <1>2, <2>3 DEF Truthful, Session
    <3>2. /\ Stream(n).durable \in Nat /\ peer[n].produced \in Nat /\ peer[n].released \in Nat
          /\ evidence[n].produced \in Nat
      BY <1>3, NodeTypes DEF StreamType, PeerType, EvidenceType
    <3>3. /\ peer[n].released <= captures'[n][peer[n].boot].durable
          /\ captures'[n][peer[n].boot].durable <= peer[n].produced
      BY <1>3, <2>1, <2>2, <2>3, <3>1, <3>2
    <3>4. QED BY <1>3, <2>1, <2>2, <2>3, <3>3
  <2>4. CASE evidence[n].boot # peer[n].boot BY <1>3, <2>1, <2>2, <2>4
  <2>5. QED BY <2>3, <2>4
<1>6. EvidenceSound' /\ PartlyAsked' /\ RuntimeTold' /\ StageDone'
  BY DEF EvidenceSound, Asked, Asking, Preparing, Opened, PartlyAsked, RuntimeTold, StageDone
<1>7. QED BY <1>4, <1>5, <1>6 DEF StartupInv

LEMMA OpenCapturesKeeps == StartupInv /\ OpenCaptures => StartupInv'
<1> SUFFICES ASSUME StartupInv, OpenCaptures PROVE StartupInv' OBVIOUS
<1>1. stage = "prepare" /\ stage \in Preparing /\ UNCHANGED <<peer, plan, evidence, runtime, takeover>>
  BY DEF OpenCaptures, Preparing, Refused
<1>2. CASE stage' = "failed" /\ turn' = 1 /\ UNCHANGED captures
  BY <1>1, <1>2, NodesInPlan, StageMoves
     DEF Stages, Asking, Preparing, Opened, RuntimeTold, StageDone, StartupInv, StartupTypes
<1>3. CASE /\ captures' = [n \in NodeSet |-> [captures[n] EXCEPT ![evidence[n].boot] = PrepareCapture(n)]]
           /\ stage' = "reconcile" /\ turn' = 1
  <2>1. Asked = NodeSet /\ \A n \in NodeSet : Truthful(n) /\ evidence[n].boot = plan[n]
    BY <1>1, AllAsked
  <2>2. ASSUME NEW n \in NodeSet
        PROVE  /\ evidence[n].boot \in 1 .. MaxBoots[n] /\ evidence[n].boot <= peer[n].boot
               /\ PrepareCapture(n) \in StreamType /\ PrepareCapture(n).open
               /\ PrepareCapture(n).durable = IF Stream(n).open THEN Stream(n).durable
                                              ELSE evidence[n].produced
               /\ Stream(n) \in StreamType /\ evidence[n] \in EvidenceType
    <3>1. evidence[n].boot \in 1 .. MaxBoots[n] /\ evidence[n].boot <= peer[n].boot
      BY <2>1, NodeTypes DEF Truthful, StartupInv, CapturesSound, PeerType
    <3>2. Stream(n) \in StreamType /\ evidence[n] \in EvidenceType
      BY <3>1, NodeTypes DEF Stream
    <3>3. QED BY <3>1, <3>2 DEF PrepareCapture, StreamType, EvidenceType
  <2>3. ASSUME NEW n \in NodeSet
        PROVE  /\ captures'[n] \in [1 .. MaxBoots[n] -> StreamType]
               /\ captures'[n][evidence[n].boot] = PrepareCapture(n)
               /\ \A b \in 1 .. MaxBoots[n] : b # evidence[n].boot => captures'[n][b] = captures[n][b]
    <3>1. captures'[n] = [captures[n] EXCEPT ![evidence[n].boot] = PrepareCapture(n)]
      BY <1>3
    <3>2. captures[n] \in [1 .. MaxBoots[n] -> StreamType]
      BY DEF StartupInv, StartupTypes
    <3>3. QED BY <2>2, <3>1, <3>2
  <2>4. StartupTypes'
    <3>1. DOMAIN captures' = NodeSet /\ \A n \in NodeSet : captures'[n] \in [1 .. MaxBoots[n] -> StreamType]
      BY <1>3, <2>3
    <3>2. stage' \in Stages /\ stage' \notin {"runtime", "stream"} /\ turn' \in 1 .. Len(StartupNodes) + 1
      BY <1>3, NodesInPlan DEF Stages, Opened
    <3>3. QED BY <1>1, <3>1, <3>2 DEF StartupInv, StartupTypes
  <2>5. CapturesSound'
    <3> SUFFICES ASSUME NEW n \in NodeSet
                 PROVE  /\ peer[n].boot \in 1 .. MaxBoots[n]
                        /\ peer[n].retained <= peer[n].produced
                        /\ peer[n].released <= captures'[n][peer[n].boot].durable
                        /\ captures'[n][peer[n].boot].durable <= peer[n].produced
                        /\ \A b \in 1 .. MaxBoots[n] :
                             b > peer[n].boot \/ ~captures'[n][b].open => captures'[n][b].durable = 0
      BY <1>1 DEF CapturesSound
    <3>1. /\ peer[n].boot \in 1 .. MaxBoots[n] /\ peer[n].boot \in Nat /\ peer[n].retained <= peer[n].produced
          /\ peer[n].released <= captures[n][peer[n].boot].durable
          /\ captures[n][peer[n].boot].durable <= peer[n].produced
          /\ \A b \in 1 .. MaxBoots[n] :
               b > peer[n].boot \/ ~captures[n][b].open => captures[n][b].durable = 0
      BY NodeTypes DEF StartupInv, CapturesSound, PeerType
    <3>2. CASE evidence[n].boot = peer[n].boot
      <4>1. /\ evidence[n].released <= Stream(n).durable /\ Stream(n).durable <= evidence[n].produced
            /\ evidence[n].produced <= peer[n].produced
        BY <1>1, <2>1, <3>2 DEF Truthful, Session
      <4>2. Stream(n) = captures[n][peer[n].boot] BY <3>2 DEF Stream
      <4>3. PrepareCapture(n).durable \in Nat /\ Stream(n).durable \in Nat
            /\ peer[n].produced \in Nat /\ peer[n].released \in Nat /\ evidence[n].produced \in Nat
        BY <2>2, NodeTypes DEF StreamType, PeerType, EvidenceType
      <4>4. /\ peer[n].released <= PrepareCapture(n).durable
            /\ PrepareCapture(n).durable <= peer[n].produced
        BY <2>2, <3>1, <4>1, <4>2, <4>3
      <4>5. QED BY <2>2, <2>3, <3>1, <3>2, <4>4
    <3>3. CASE evidence[n].boot # peer[n].boot BY <2>2, <2>3, <3>1, <3>3
    <3>4. QED BY <3>2, <3>3
  <2>6. EvidenceSound'
    <3>1. Asked' = NodeSet BY <1>3 DEF Asked, Asking, Preparing, Opened
    <3> SUFFICES ASSUME NEW n \in NodeSet PROVE Truthful(n)' BY <3>1 DEF EvidenceSound
    <3>2. Truthful(n) /\ evidence[n].boot = plan[n] BY <2>1
    <3>3. Session(n)' = Session(n) /\ Stream(n)' = PrepareCapture(n)
      BY <1>1, <2>3 DEF Session, Stream
    <3>4. evidence[n].released <= Stream(n).durable /\ Stream(n).durable <= evidence[n].produced
          /\ evidence[n].released \in Nat /\ evidence[n].produced \in Nat /\ Stream(n).durable \in Nat
      BY <1>1, <2>2, <3>2 DEF Truthful, EvidenceType, StreamType
    <3>5. /\ evidence[n].released <= PrepareCapture(n).durable
          /\ PrepareCapture(n).durable <= evidence[n].produced
      BY <2>2, <3>4
    <3>6. QED BY <1>1, <2>2, <3>2, <3>3, <3>5 DEF Truthful
  <2>7. PartlyAsked' /\ RuntimeTold' /\ StageDone'
    BY <1>3 DEF PartlyAsked, RuntimeTold, StageDone
  <2>8. QED BY <2>4, <2>5, <2>6, <2>7 DEF StartupInv
<1>4. ASSUME NEW k \in DOMAIN StartupNodes, stage' = "failed", turn' = 1,
             captures' = [n \in NodeSet |-> [captures[n] EXCEPT ![evidence[n].boot] =
                    CASE \E i \in 1 .. k - 1 : n = StartupNodes[i] -> PrepareCapture(n)
                      [] n = StartupNodes[k] -> CreateCapture(n)
                      [] OTHER -> @]]
      PROVE  StartupInv'
  <2>1. ASSUME NEW n \in NodeSet
        PROVE  \E c : /\ c \in {PrepareCapture(n), CreateCapture(n), Stream(n)}
                      /\ captures'[n] = [captures[n] EXCEPT ![evidence[n].boot] = c]
    <3> DEFINE cut == CASE \E i \in 1 .. k - 1 : n = StartupNodes[i] -> PrepareCapture(n)
                        [] n = StartupNodes[k] -> CreateCapture(n)
                        [] OTHER -> captures[n][evidence[n].boot]
    <3>1. captures'[n] = [captures[n] EXCEPT ![evidence[n].boot] = cut] BY <1>4
    <3>2. cut \in {PrepareCapture(n), CreateCapture(n), Stream(n)} BY DEF Stream
    <3>3. QED BY <3>1, <3>2
  <2>2. QED BY <1>1, <1>4, <2>1, CutCaptures DEF hostVars
<1>5. QED BY <1>2, <1>3, <1>4 DEF OpenCaptures, Goes, Refused

(* A first file without header ends the start; nothing is touched. *)
LEMMA RefuseOriginKeeps == StartupInv /\ RefuseOrigin => StartupInv'
<1> SUFFICES ASSUME StartupInv, RefuseOrigin PROVE StartupInv' OBVIOUS
<1>1. /\ stage = "prepare" /\ stage \in Preparing /\ UNCHANGED <<peer, captures, plan, evidence, runtime, takeover>>
      /\ stage' = "TruncatedFileHeader" /\ turn' = 1
  BY DEF RefuseOrigin, Preparing, Refused
<1>2. PICK m \in NodeSet : OriginUnreadable(m) BY DEF RefuseOrigin
<1>3. OriginUnreadable(m)' /\ evidence'[m].boot \in 1 .. peer'[m].boot
  BY <1>1, <1>2, AllAsked DEF OriginUnreadable, Stream, Truthful
<1>4. StageDone' BY <1>1, <1>3 DEF StageDone
<1>5. RuntimeTold' BY <1>1 DEF RuntimeTold
<1>6. QED BY <1>1, <1>4, <1>5, NodesInPlan, StageMoves
     DEF Stages, Asking, Preparing, Opened, StartupInv, StartupTypes

(* A sample, or a gap, of a node joins its capture. *)
LEMMA Pulls ==
  ASSUME StartupInv, stage \in Opened \ Preparing, NEW m \in NodeSet, Persist(m)
  PROVE  /\ m \in NodeSet /\ evidence[m].boot = peer[m].boot /\ peer[m].boot \in 1 .. MaxBoots[m]
         /\ captures' = [captures EXCEPT ![m] = [captures[m] EXCEPT ![peer[m].boot] = Pulled(m)]]
         /\ Pulled(m) \in StreamType /\ Pulled(m).open
         /\ Stream(m).durable <= Pulled(m).durable /\ Pulled(m).durable <= peer[m].produced
<1>1. evidence[m].boot = peer[m].boot /\ Stream(m).durable < peer[m].produced
      /\ captures' = [captures EXCEPT ![m][evidence[m].boot] = Pulled(m)]
  BY DEF Persist, Session
<1>2. peer[m].boot \in 1 .. MaxBoots[m] /\ peer[m].retained <= peer[m].produced
  BY DEF StartupInv, CapturesSound
<1>3. Stream(m) \in StreamType /\ peer[m] \in PeerType
  BY <1>1, <1>2, NodeTypes DEF Stream
<1>4. Stream(m).open BY AllAsked DEF Truthful
<1>5. Stream(m).durable \in Nat /\ peer[m].produced \in Nat /\ peer[m].retained \in Nat
  BY <1>3 DEF StreamType, PeerType
<1>6. Pulled(m) = [Stream(m) EXCEPT !.durable = IF Stream(m).durable < peer[m].retained
                                                THEN peer[m].retained ELSE Stream(m).durable + 1]
  BY DEF Pulled
<1>7. /\ Pulled(m) \in StreamType /\ Pulled(m).open
      /\ Pulled(m).durable = IF Stream(m).durable < peer[m].retained
                             THEN peer[m].retained ELSE Stream(m).durable + 1
  BY <1>3, <1>4, <1>5, <1>6 DEF StreamType
<1>8. Stream(m).durable <= Pulled(m).durable /\ Pulled(m).durable <= peer[m].produced
  BY <1>1, <1>2, <1>5, <1>7
<1>9. QED BY <1>1, <1>2, <1>7, <1>8

LEMMA StartPersistKeeps ==
  ASSUME StartupInv, stage \in Opened \ Preparing, NEW m \in NodeSet, Persist(m),
         UNCHANGED <<peer, stage, turn, plan, evidence, runtime, takeover>>
  PROVE  StartupInv'
<1> DEFINE old == captures[m]
           grown == [captures[m] EXCEPT ![peer[m].boot] = Pulled(m)]
<1>1. /\ evidence[m].boot = peer[m].boot /\ peer[m].boot \in 1 .. MaxBoots[m]
      /\ captures' = [captures EXCEPT ![m] = grown]
      /\ Pulled(m) \in StreamType /\ Pulled(m).open
      /\ Stream(m).durable <= Pulled(m).durable /\ Pulled(m).durable <= peer[m].produced
  BY Pulls
<1>2. /\ DOMAIN captures = NodeSet /\ captures[m] \in [1 .. MaxBoots[m] -> StreamType]
  BY DEF StartupInv, StartupTypes
<1>3. /\ grown \in [1 .. MaxBoots[m] -> StreamType] /\ grown[peer[m].boot] = Pulled(m)
      /\ \A b \in 1 .. MaxBoots[m] : b # peer[m].boot => grown[b] = captures[m][b]
  BY <1>1, <1>2
<1>4. captures'[m] = grown /\ \A n \in NodeSet : n # m => captures'[n] = captures[n]
  BY <1>1, <1>2
<1>5. DOMAIN captures' = NodeSet BY <1>1, <1>2
<1> HIDE DEF grown
<1>6. StartupTypes'
  <2>1. \A n \in NodeSet : captures'[n] \in [1 .. MaxBoots[n] -> StreamType]
    BY <1>3, <1>4 DEF StartupInv, StartupTypes
  <2>2. QED BY <1>5, <2>1 DEF StartupInv, StartupTypes
<1>7. Stream(m) = captures[m][peer[m].boot] /\ Stream(m)' = Pulled(m)
  BY <1>1, <1>3, <1>4 DEF Stream
<1>8. \A n \in NodeSet : n # m => Stream(n)' = Stream(n) BY <1>4 DEF Stream
<1>9. \A n \in NodeSet : Session(n)' = Session(n) BY DEF Session
<1>10. Stream(m).durable \in Nat /\ Pulled(m).durable \in Nat /\ peer[m].released \in Nat
       /\ peer[m].boot \in Nat
  BY <1>1, <1>2, <1>7, NodeTypes DEF StreamType, PeerType
<1>11. CapturesSound'
  <2> SUFFICES ASSUME NEW n \in NodeSet
               PROVE  /\ peer[n].boot \in 1 .. MaxBoots[n]
                      /\ peer[n].retained <= peer[n].produced
                      /\ peer[n].released <= captures'[n][peer[n].boot].durable
                      /\ captures'[n][peer[n].boot].durable <= peer[n].produced
                      /\ \A b \in 1 .. MaxBoots[n] :
                           b > peer[n].boot \/ ~captures'[n][b].open => captures'[n][b].durable = 0
    BY DEF CapturesSound
  <2>1. /\ peer[n].boot \in 1 .. MaxBoots[n] /\ peer[n].retained <= peer[n].produced
        /\ peer[n].released <= captures[n][peer[n].boot].durable
        /\ captures[n][peer[n].boot].durable <= peer[n].produced
        /\ \A b \in 1 .. MaxBoots[n] :
             b > peer[n].boot \/ ~captures[n][b].open => captures[n][b].durable = 0
    BY DEF StartupInv, CapturesSound
  <2>2. CASE n # m BY <1>4, <2>1, <2>2
  <2>3. CASE n = m
    <3>1. peer[m].released <= Pulled(m).durable BY <1>1, <1>7, <1>10, <2>1, <2>3
    <3>2. \A b \in 1 .. MaxBoots[m] : b > peer[m].boot \/ ~grown[b].open => grown[b].durable = 0
      BY <1>1, <1>3, <1>10, <2>1, <2>3
    <3>3. QED BY <1>1, <1>3, <1>4, <2>1, <2>3, <3>1, <3>2
  <2>4. QED BY <2>2, <2>3
<1>12. EvidenceSound'
  <2>1. Asked' = Asked /\ stage' = stage /\ stage \notin Asking \cup Preparing
    BY DEF Asked, NodesDone, Asking, Preparing, Opened
  <2> SUFFICES ASSUME NEW n \in NodeSet, Truthful(n) PROVE Truthful(n)'
    BY <2>1, AllAsked DEF EvidenceSound
  <2>2. Stream(n)'.open BY <1>1, <1>7, <1>8 DEF Truthful
  <2>3. QED BY <1>9, <2>1, <2>2 DEF Truthful
<1>13. PartlyAsked' BY DEF PartlyAsked, Asking, Opened
<1>14. RuntimeTold' BY <1>9 DEF RuntimeTold, StartupInv
<1>15. StageDone'
  <2>1. \A n \in NodeSet : Stream(n).durable >= evidence[n].produced
                             => Stream(n)'.durable >= evidence[n].produced
    <3> SUFFICES ASSUME NEW n \in NodeSet, Stream(n).durable >= evidence[n].produced
                 PROVE  Stream(n)'.durable >= evidence[n].produced
      OBVIOUS
    <3>1. evidence[n].produced \in Nat BY NodeTypes DEF EvidenceType
    <3>2. QED BY <1>1, <1>7, <1>8, <1>10, <3>1
  <2>2. NodesDone' = NodesDone /\ NodesDone \subseteq NodeSet
    BY Turns DEF NodesDone, StartupInv, StartupTypes
  <2>3. stage' = stage /\ stage # "TruncatedFileHeader" BY DEF Opened, Preparing
  <2>4. QED BY <1>9, <2>1, <2>2, <2>3 DEF StageDone, StartupInv
<1>16. QED BY <1>6, <1>11, <1>12, <1>13, <1>14, <1>15 DEF StartupInv

LEMMA RecordKeeps ==
  ASSUME StartupInv, NEW m \in NodeSet, Record(m)
  PROVE  StartupInv'
<1>1. stage = "recording" /\ Persist(m)
      /\ UNCHANGED <<peer, stage, turn, plan, evidence, runtime, takeover>>
  BY DEF Record, hostVars
<1>2. stage \in Opened \ Preparing BY <1>1 DEF Opened, Preparing
<1>3. QED BY <1>1, <1>2, StartPersistKeeps

------------------------
(* The commands of the host. *)

(* What a command does to the node it goes to, and to no other. *)
LEMMA Executes ==
  ASSUME StartupInv, NEW m \in NodeSet, NEW states, states \subseteq RuntimeStates, Exchange(m, states)
  PROVE  /\ \E s \in states : peer' = [peer EXCEPT ![m].state = s]
         /\ peer'[m].state \in states
         /\ \A n \in NodeSet : /\ n # m => peer'[n] = peer[n]
                               /\ peer'[n].boot = peer[n].boot
<1>1. PICK s \in states : peer' = [peer EXCEPT ![m].state = s] BY DEF Exchange
<1>2. \A n \in NodeSet : peer'[n].boot = peer[n].boot /\ (n # m => peer'[n] = peer[n])
  BY <1>1 DEF StartupInv, StartupTypes, PeerType
<1>3. peer'[m].state = s BY <1>1 DEF StartupInv, StartupTypes, PeerType
<1>4. QED BY <1>1, <1>2, <1>3

LEMMA ReachableStates ==
  \A s \in RuntimeStates :
    /\ Started(s) \subseteq RuntimeStates /\ Stopped(s) \subseteq RuntimeStates
    /\ Exited(s) \subseteq RuntimeStates /\ {s} \cup Started(s) \subseteq RuntimeStates
BY DEF RuntimeStates, Started, Stopped, Exited

(* The host learns what a command has done. *)
LEMMA LearnsTrue ==
  ASSUME StartupInv, stage \in {"activate", "stop", "drain", "restart", "rollback"}, NEW m \in NodeSet,
         NEW states, states \subseteq RuntimeStates, Exchange(m, states), Learns(m),
         UNCHANGED evidence
  PROVE  /\ runtime' \in [NodeSet -> RuntimeStates \cup {None}]
         /\ runtime'[m] \in RuntimeStates /\ \A n \in NodeSet : n # m => runtime'[n] = runtime[n]
         /\ stage # "rollback" =>
              \A n \in NodeSet :
                /\ runtime'[n] \in RuntimeStates
                /\ Session(n)' /\ runtime'[n] = "Recording" => peer'[n].state = "Recording"
<1>1. /\ peer'[m].state \in RuntimeStates
      /\ \A n \in NodeSet : (n # m => peer'[n] = peer[n]) /\ peer'[n].boot = peer[n].boot
  BY Executes
<1>2. runtime' = [runtime EXCEPT ![m] = peer'[m].state] BY DEF Learns
<1>3. runtime \in [NodeSet -> RuntimeStates \cup {None}] BY DEF StartupInv, StartupTypes
<1>4. \A n \in NodeSet : runtime'[n] = IF n = m THEN peer'[m].state ELSE runtime[n]
  BY <1>2, <1>3
<1>5. runtime' \in [NodeSet -> RuntimeStates \cup {None}] BY <1>1, <1>2, <1>3
<1>6. \A n \in NodeSet : Session(n)' = Session(n) BY <1>1 DEF Session
<1>7. QED BY <1>1, <1>4, <1>5, <1>6 DEF StartupInv, RuntimeTold

(* Streams and sessions are not what a command changes. *)
LEMMA CommandsKeepStreams ==
  ASSUME StartupInv, NEW m \in NodeSet, NEW states, states \subseteq RuntimeStates, Exchange(m, states),
         UNCHANGED <<captures, evidence>>
  PROVE  \A n \in NodeSet : Session(n)' = Session(n) /\ Stream(n)' = Stream(n)
BY Executes DEF Session, Stream

LEMMA ActivateKeeps == StartupInv /\ Activate => StartupInv'
<1> SUFFICES ASSUME StartupInv, Activate PROVE StartupInv' OBVIOUS
<1>1. stage = "activate" /\ ~All /\ UNCHANGED <<captures, plan, evidence, takeover>>
  BY DEF Activate
<1>2. PICK m \in NodeSet : m = Me BY <1>1, CurrentNode
<1>3. /\ turn \in 1 .. Len(StartupNodes) + 1 /\ turn + 1 \in 1 .. Len(StartupNodes) + 1
      /\ 1 \in 1 .. Len(StartupNodes) + 1 /\ m \notin NodesDone /\ NodesDone \subseteq NodeSet
  BY <1>1, <1>2, CurrentNode, NodesInPlan, Turns
<1>4. stage \in Opened \ Preparing BY <1>1 DEF Opened, Preparing
<1>5. runtime \in [NodeSet -> RuntimeStates \cup {None}] /\ peer[m].state \in RuntimeStates
  BY NodeTypes DEF StartupInv, StartupTypes, PeerType
<1>6. CASE runtime[m] = "Recording"
  <2>1. stage' = stage /\ turn' = turn + 1 /\ UNCHANGED <<peer, runtime>>
    BY <1>2, <1>6 DEF Activate, Next1
  <2>2. NodesDone' = NodesDone \cup {m} BY <1>2, <1>3, <2>1, NextTurn
  <2>3. RuntimeTold' /\ StageDone'
    BY <1>1, <1>6, <2>1, <2>2, Untouched DEF RuntimeTold, StageDone, StartupInv
  <2>4. QED BY <1>1, <1>3, <1>4, <2>1, <2>3, LaterMoves
<1>7. CASE runtime[m] = "Faulted"
  <2>1. stage' = "rollback" /\ turn' = 1 /\ UNCHANGED <<peer, runtime>>
    BY <1>2, <1>7 DEF Activate, Goes
  <2>2. RuntimeTold' /\ StageDone' /\ stage' \in Opened \ Preparing
    BY <2>1 DEF RuntimeTold, StageDone, Opened, Preparing
  <2>3. QED BY <1>1, <1>3, <1>4, <2>1, <2>2, LaterMoves
<1>8. CASE runtime[m] \in {"Idle", "Maintenance"}
  <2> DEFINE states == IF runtime[m] = "Idle" THEN Started(peer[m].state) ELSE Exited(peer[m].state)
             missed == {peer[m].state} \cup Started(peer[m].state)
  <2>1. states \subseteq RuntimeStates /\ missed \subseteq RuntimeStates
    BY <1>5, ReachableStates
  <2>2. \/ /\ Exchange(m, states) /\ Learns(m)
           /\ IF runtime'[m] = (IF runtime[m] = "Idle" THEN "Recording" ELSE "Idle")
              THEN stage' = stage /\ turn' = IF runtime[m] = "Idle" THEN turn + 1 ELSE turn
              ELSE Goes("rollback")
        \/ Exchange(m, missed) /\ Misses(m) /\ Goes("rollback")
    BY <1>2, <1>8 DEF Activate
  <2> HIDE DEF states, missed
  <2>3. CASE /\ Exchange(m, states) /\ Learns(m)
             /\ IF runtime'[m] = (IF runtime[m] = "Idle" THEN "Recording" ELSE "Idle")
                THEN stage' = stage /\ turn' = IF runtime[m] = "Idle" THEN turn + 1 ELSE turn
                ELSE Goes("rollback")
    <3>1. /\ runtime' \in [NodeSet -> RuntimeStates \cup {None}]
          /\ \A n \in NodeSet : n # m => runtime'[n] = runtime[n]
          /\ \A n \in NodeSet :
               /\ runtime'[n] \in RuntimeStates
               /\ Session(n)' /\ runtime'[n] = "Recording" => peer'[n].state = "Recording"
      BY <1>1, <2>1, <2>3, LearnsTrue
    <3>2. /\ \A n \in NodeSet : Session(n)' = Session(n) /\ Stream(n)' = Stream(n)
          /\ \E s \in RuntimeStates : peer' = [peer EXCEPT ![m].state = s]
      BY <1>1, <2>1, <2>3, CommandsKeepStreams, Executes
    <3>3. /\ turn' \in 1 .. Len(StartupNodes) + 1
          /\ \/ stage' = "rollback"
             \/ stage' = stage /\ NodesDone' = NodesDone
             \/ stage' = stage /\ NodesDone' = NodesDone \cup {m} /\ runtime'[m] = "Recording"
      BY <1>2, <1>3, <2>3, NextTurn DEF Goes
    <3>4. RuntimeTold' BY <1>1, <3>1 DEF RuntimeTold
    <3>5. StageDone' BY <1>1, <1>3, <3>1, <3>2, <3>3 DEF StageDone, StartupInv
    <3>6. stage' \in Opened \ Preparing BY <1>1, <3>3 DEF Opened, Preparing
    <3>7. QED BY <1>1, <1>4, <3>1, <3>2, <3>3, <3>4, <3>5, <3>6, NodeMoves
  <2>4. CASE Exchange(m, missed) /\ Misses(m) /\ Goes("rollback")
    <3>1. \E s \in RuntimeStates : peer' = [peer EXCEPT ![m].state = s]
      BY <2>1, <2>4, Executes
    <3>2. stage' = "rollback" /\ turn' = 1 /\ UNCHANGED runtime BY <2>4 DEF Misses, Goes
    <3>3. RuntimeTold' /\ StageDone' /\ stage' \in Opened \ Preparing
      BY <3>2 DEF RuntimeTold, StageDone, Opened, Preparing
    <3>4. QED BY <1>1, <1>3, <1>4, <1>5, <3>1, <3>2, <3>3, NodeMoves
  <2>5. QED BY <2>2, <2>3, <2>4
<1>9. runtime[m] \in RuntimeStates BY <1>1 DEF StartupInv, RuntimeTold
<1>10. QED BY <1>6, <1>7, <1>8, <1>9 DEF RuntimeStates

LEMMA StopKeeps == StartupInv /\ Stop => StartupInv'
<1> SUFFICES ASSUME StartupInv, Stop PROVE StartupInv' OBVIOUS
<1> DEFINE next == IF stage = "stop" THEN "failed" ELSE "rolledback"
<1>1. stage \in {"stop", "rollback"} /\ ~All /\ UNCHANGED <<captures, plan, evidence, takeover>>
  BY DEF Stop
<1>2. PICK m \in NodeSet : m = Me BY <1>1, CurrentNode
<1>3. /\ turn + 1 \in 1 .. Len(StartupNodes) + 1 /\ 1 \in 1 .. Len(StartupNodes) + 1
      /\ stage \in Opened \ Preparing /\ next \in {"failed", "rolledback"}
  BY <1>1, CurrentNode, NodesInPlan DEF Opened, Preparing
<1>4. \/ /\ Exchange(m, Stopped(peer[m].state)) /\ Learns(m)
         /\ IF runtime'[m] = "Idle" THEN Next1 ELSE Goes(next)
      \/ Goes(next) /\ UNCHANGED <<peer, runtime>>
  BY <1>2 DEF Stop
<1> HIDE DEF next
<1>5. CASE Goes(next) /\ UNCHANGED <<peer, runtime>>
  <2>1. stage' \in {"failed", "rolledback"} /\ turn' = 1 BY <1>3, <1>5 DEF Goes
  <2>2. RuntimeTold' /\ StageDone' BY <2>1 DEF RuntimeTold, StageDone
  <2>3. QED BY <1>1, <1>3, <1>5, <2>1, <2>2, LaterMoves
<1>6. CASE /\ Exchange(m, Stopped(peer[m].state)) /\ Learns(m)
           /\ IF runtime'[m] = "Idle" THEN Next1 ELSE Goes(next)
  <2>1. Stopped(peer[m].state) \subseteq RuntimeStates
    BY NodeTypes, ReachableStates DEF PeerType
  <2>2. /\ runtime' \in [NodeSet -> RuntimeStates \cup {None}]
        /\ stage # "rollback" =>
             \A n \in NodeSet :
               /\ runtime'[n] \in RuntimeStates
               /\ Session(n)' /\ runtime'[n] = "Recording" => peer'[n].state = "Recording"
    BY <1>1, <1>6, <2>1, LearnsTrue
  <2>3. \E s \in RuntimeStates : peer' = [peer EXCEPT ![m].state = s]
    BY <1>6, <2>1, Executes
  <2>4. turn' \in 1 .. Len(StartupNodes) + 1 /\ (stage' = stage \/ stage' \in {"failed", "rolledback"})
    BY <1>3, <1>6 DEF Next1, Goes
  <2>5. RuntimeTold' /\ StageDone' BY <1>1, <2>2, <2>4 DEF RuntimeTold, StageDone
  <2>6. QED BY <1>1, <1>3, <2>2, <2>3, <2>4, <2>5, NodeMoves
<1>7. QED BY <1>4, <1>5, <1>6

LEMMA RestartKeeps == StartupInv /\ Restart => StartupInv'
<1> SUFFICES ASSUME StartupInv, Restart PROVE StartupInv' OBVIOUS
<1>1. stage = "restart" /\ ~All /\ UNCHANGED <<captures, plan, evidence, takeover>>
  BY DEF Restart
<1>2. PICK m \in NodeSet : m = Me BY <1>1, CurrentNode
<1> DEFINE states == Started(peer[m].state)
           missed == {peer[m].state} \cup Started(peer[m].state)
<1>3. /\ turn \in 1 .. Len(StartupNodes) + 1 /\ turn + 1 \in 1 .. Len(StartupNodes) + 1
      /\ 1 \in 1 .. Len(StartupNodes) + 1 /\ NodesDone \subseteq NodeSet /\ m \notin NodesDone
      /\ stage \in Opened \ Preparing
  BY <1>1, <1>2, CurrentNode, NodesInPlan, Turns DEF Opened, Preparing
<1>4. states \subseteq RuntimeStates /\ missed \subseteq RuntimeStates
  BY NodeTypes, ReachableStates DEF PeerType
<1>5. \/ /\ Exchange(m, states) /\ Learns(m)
         /\ IF runtime'[m] = "Recording" THEN Next1 ELSE Goes("rollback")
      \/ Exchange(m, missed) /\ Misses(m) /\ Goes("rollback")
  BY <1>2 DEF Restart
<1> HIDE DEF states, missed
<1>6. CASE Exchange(m, missed) /\ Misses(m) /\ Goes("rollback")
  <2>1. \E s \in RuntimeStates : peer' = [peer EXCEPT ![m].state = s]
    BY <1>4, <1>6, Executes
  <2>2. stage' = "rollback" /\ turn' = 1 /\ UNCHANGED runtime BY <1>6 DEF Misses, Goes
  <2>3. RuntimeTold' /\ StageDone' /\ stage' \in Opened \ Preparing
    BY <2>2 DEF RuntimeTold, StageDone, Opened, Preparing
  <2>4. runtime' \in [NodeSet -> RuntimeStates \cup {None}]
    BY <2>2 DEF StartupInv, StartupTypes
  <2>5. QED BY <1>1, <1>3, <2>1, <2>2, <2>3, <2>4, NodeMoves
<1>7. CASE /\ Exchange(m, states) /\ Learns(m)
           /\ IF runtime'[m] = "Recording" THEN Next1 ELSE Goes("rollback")
  <2>1. /\ runtime' \in [NodeSet -> RuntimeStates \cup {None}]
        /\ \A n \in NodeSet : n # m => runtime'[n] = runtime[n]
        /\ \A n \in NodeSet :
             /\ runtime'[n] \in RuntimeStates
             /\ Session(n)' /\ runtime'[n] = "Recording" => peer'[n].state = "Recording"
    BY <1>1, <1>4, <1>7, LearnsTrue
  <2>2. /\ \A n \in NodeSet : Session(n)' = Session(n) /\ Stream(n)' = Stream(n)
        /\ \E s \in RuntimeStates : peer' = [peer EXCEPT ![m].state = s]
    BY <1>1, <1>4, <1>7, CommandsKeepStreams, Executes
  <2>3. /\ turn' \in 1 .. Len(StartupNodes) + 1
        /\ \/ stage' = "rollback"
           \/ stage' = stage /\ NodesDone' = NodesDone \cup {m} /\ runtime'[m] = "Recording"
    BY <1>2, <1>3, <1>7, NextTurn DEF Goes, Next1
  <2>4. RuntimeTold' BY <1>1, <2>1 DEF RuntimeTold
  <2>5. StageDone' BY <1>1, <1>3, <2>1, <2>2, <2>3 DEF StageDone, StartupInv
  <2>6. stage' \in Opened \ Preparing BY <1>1, <2>3 DEF Opened, Preparing
  <2>7. QED BY <1>1, <1>3, <2>1, <2>2, <2>3, <2>4, <2>5, <2>6, NodeMoves
<1>8. QED BY <1>5, <1>6, <1>7

LEMMA DrainKeeps == StartupInv /\ Drain => StartupInv'
<1> SUFFICES ASSUME StartupInv, Drain PROVE StartupInv' OBVIOUS
<1>1. stage = "drain" /\ ~All /\ UNCHANGED <<peer, plan, evidence, runtime, takeover>>
  BY DEF Drain
<1>2. PICK m \in NodeSet : m = Me BY <1>1, CurrentNode
<1>3. /\ turn \in 1 .. Len(StartupNodes) + 1 /\ turn + 1 \in 1 .. Len(StartupNodes) + 1
      /\ 1 \in 1 .. Len(StartupNodes) + 1 /\ stage \in Opened \ Preparing
      /\ NodesDone \subseteq NodeSet
  BY <1>1, CurrentNode, NodesInPlan, Turns DEF Opened, Preparing
<1>4. CASE Persist(m) /\ UNCHANGED <<stage, turn>>
  BY <1>1, <1>3, <1>4, StartPersistKeeps
<1>5. CASE /\ Session(m) => Stream(m).durable = peer[m].produced
           /\ Next1 /\ UNCHANGED captures
  <2>1. stage' = stage /\ turn' = turn + 1 /\ NodesDone' = NodesDone \cup {m}
    BY <1>2, <1>3, <1>5, NextTurn DEF Next1
  <2>2. Session(m) => Stream(m).durable >= evidence[m].produced
    <3>1. Session(m) => evidence[m].produced <= peer[m].produced
      BY <1>3, AllAsked DEF Truthful
    <3>2. evidence[m].produced \in Nat /\ peer[m].produced \in Nat
      BY NodeTypes DEF EvidenceType, PeerType
    <3>3. QED BY <1>5, <3>1, <3>2
  <2>3. RuntimeTold' BY <1>1, <1>5, <2>1, Untouched DEF RuntimeTold, StartupInv
  <2>4. StageDone' BY <1>1, <1>3, <1>5, <2>1, <2>2, Untouched DEF StageDone, StartupInv
  <2>5. QED BY <1>1, <1>3, <1>5, <2>1, <2>3, <2>4, LaterMoves
<1>6. CASE Goes("failed") /\ UNCHANGED captures
  <2>1. stage' = "failed" /\ turn' = 1 BY <1>6 DEF Goes
  <2>2. RuntimeTold' /\ StageDone' BY <2>1 DEF RuntimeTold, StageDone
  <2>3. QED BY <1>1, <1>3, <1>6, <2>1, <2>2, LaterMoves
<1>7. QED BY <1>2, <1>4, <1>5, <1>6 DEF Drain

------------------------
(* What the nodes do on their own, and what a release does to one. *)
LEMMA PeerMoves ==
  ASSUME StartupInv, NEW m \in NodeSet, NEW p \in PeerType, peer' = [peer EXCEPT ![m] = p],
         UNCHANGED <<captures, stage, turn, plan, evidence, runtime, takeover>>,
         p.boot \in 1 .. MaxBoots[m], p.retained <= p.produced,
         \/ /\ p.boot = peer[m].boot /\ p.state = peer[m].state /\ peer[m].produced <= p.produced
            /\ p.released <= captures[m][p.boot].durable
         \/ p.boot = peer[m].boot + 1 /\ p.released = 0
  PROVE  StartupInv'
<1>1. peer'[m] = p /\ \A n \in NodeSet : n # m => peer'[n] = peer[n]
  BY DEF StartupInv, StartupTypes
<1>2. StartupTypes'
  <2>1. peer' \in [NodeSet -> PeerType] BY DEF StartupInv, StartupTypes
  <2>2. QED BY <2>1 DEF StartupInv, StartupTypes
<1>3. p.boot \in Nat /\ peer[m].boot \in Nat /\ peer[m].produced \in Nat /\ p.produced \in Nat
      /\ evidence[m].boot \in Nat /\ evidence[m].produced \in Nat
      /\ peer[m].boot <= p.boot
      /\ \A b \in 1 .. MaxBoots[m] : captures[m][b].durable \in Nat
  <2>1. peer[m] \in PeerType /\ evidence[m] \in EvidenceType
        /\ \A b \in 1 .. MaxBoots[m] : captures[m][b] \in StreamType
    BY NodeTypes
  <2>2. p.boot \in Nat /\ peer[m].boot \in Nat /\ peer[m].produced \in Nat /\ p.produced \in Nat
    BY <2>1 DEF PeerType
  <2>3. evidence[m].boot \in Nat /\ evidence[m].produced \in Nat
    BY <2>1 DEF EvidenceType
  <2>4. \A b \in 1 .. MaxBoots[m] : captures[m][b].durable \in Nat
    BY <2>1 DEF StreamType
  <2>5. peer[m].boot <= p.boot BY <2>2
  <2>6. QED BY <2>2, <2>3, <2>4, <2>5
<1>4. CapturesSound'
  <2> SUFFICES ASSUME NEW n \in NodeSet
               PROVE  /\ peer'[n].boot \in 1 .. MaxBoots[n]
                      /\ peer'[n].retained <= peer'[n].produced
                      /\ peer'[n].released <= captures[n][peer'[n].boot].durable
                      /\ captures[n][peer'[n].boot].durable <= peer'[n].produced
                      /\ \A b \in 1 .. MaxBoots[n] :
                           b > peer'[n].boot \/ ~captures[n][b].open => captures[n][b].durable = 0
    BY DEF CapturesSound
  <2>1. /\ peer[n].boot \in 1 .. MaxBoots[n] /\ peer[n].retained <= peer[n].produced
        /\ peer[n].released <= captures[n][peer[n].boot].durable
        /\ captures[n][peer[n].boot].durable <= peer[n].produced
        /\ \A b \in 1 .. MaxBoots[n] :
             b > peer[n].boot \/ ~captures[n][b].open => captures[n][b].durable = 0
    BY DEF StartupInv, CapturesSound
  <2>2. CASE n # m BY <1>1, <2>1, <2>2
  <2>3. CASE n = m /\ p.boot = peer[m].boot BY <1>1, <1>3, <2>1, <2>3
  <2>4. CASE n = m /\ p.boot = peer[m].boot + 1 /\ p.released = 0
    <3>1. captures[m][p.boot].durable = 0 BY <1>3, <2>1, <2>4
    <3>2. QED BY <1>1, <1>3, <2>1, <2>4, <3>1
  <2>5. QED BY <2>2, <2>3, <2>4
(* A session that is over does not come back: boots only go up. *)
<1>5. ASSUME NEW n \in NodeSet, evidence[n].boot \in 1 .. peer[n].boot
      PROVE  /\ Stream(n)' = Stream(n) /\ evidence[n].boot \in 1 .. peer'[n].boot
             /\ Session(n)' => /\ Session(n) /\ peer'[n].state = peer[n].state
                               /\ peer[n].produced <= peer'[n].produced
  <2>1. Stream(n)' = Stream(n) BY DEF Stream
  <2>2. peer[n].produced \in Nat BY NodeTypes DEF PeerType
  <2>3. CASE n # m BY <1>1, <1>5, <2>1, <2>2, <2>3 DEF Session
  <2>4. CASE n = m BY <1>1, <1>3, <1>5, <2>1, <2>4 DEF Session
  <2>5. QED BY <2>3, <2>4
<1>6. EvidenceSound'
  <2>1. Asked' = Asked /\ Asked \subseteq NodeSet
    BY Turns DEF Asked, NodesDone, StartupInv, StartupTypes
  <2> SUFFICES ASSUME NEW n \in NodeSet, Truthful(n) PROVE Truthful(n)'
    BY <2>1 DEF EvidenceSound, StartupInv
  <2>2. /\ Stream(n)' = Stream(n) /\ evidence[n].boot \in 1 .. peer'[n].boot
        /\ Session(n)' => /\ Session(n) /\ peer'[n].state = peer[n].state
                          /\ peer[n].produced <= peer'[n].produced
    BY <1>5 DEF Truthful
  <2>3. peer[n].produced \in Nat /\ evidence[n].produced \in Nat /\ peer'[n].produced \in Nat
    BY <1>1, <1>3, NodeTypes DEF PeerType, EvidenceType
  <2>4. Session(n)' => evidence[n].produced <= peer'[n].produced
    BY <2>2, <2>3 DEF Truthful
  <2>5. QED BY <2>2, <2>4 DEF Truthful
<1>7. PartlyAsked'
  <2> SUFFICES ASSUME stage \in {"runtime", "stream"} PROVE PartlyAsked'
    BY DEF PartlyAsked
  <2>1. ~All BY NodesInPlan DEF All, StartupInv, StartupTypes
  <2>2. PICK k \in NodeSet : k = Me BY <2>1, CurrentNode
  <2>3. k = Me' BY <2>2 DEF Me
  <2>4. evidence[k].boot \in 1 .. peer[k].boot BY <2>2 DEF StartupInv, PartlyAsked
  <2>5. evidence[k].boot \in 1 .. peer'[k].boot
        /\ (Session(k)' => Session(k) /\ peer'[k].state = peer[k].state)
    BY <1>5, <2>4
  <2>6. Session(Me)' = Session(k)' /\ Session(Me) = Session(k) BY <2>2, <2>3 DEF Session
  <2>7. QED BY <2>2, <2>3, <2>5, <2>6 DEF PartlyAsked, StartupInv
<1>8. stage \in Preparing \cup Opened =>
        \A n \in NodeSet : Session(n)' => Session(n) /\ peer'[n].state = peer[n].state
  BY <1>5, AllAsked DEF Truthful
<1>9. \A n \in NodeSet : Stream(n)' = Stream(n) BY DEF Stream
<1>10. RuntimeTold' BY <1>8 DEF RuntimeTold, StartupInv, Opened
<1>11. StageDone'
  <2>1. NodesDone' = NodesDone /\ NodesDone \subseteq NodeSet
    BY Turns DEF NodesDone, StartupInv, StartupTypes
  <2>2. \A n \in NodeSet : OriginUnreadable(n)' = OriginUnreadable(n)
    BY <1>9 DEF OriginUnreadable
  <2>3. stage = "TruncatedFileHeader" =>
          \E n \in NodeSet : OriginUnreadable(n)' /\ evidence'[n].boot \in 1 .. peer'[n].boot
    BY <1>5, <2>2 DEF StageDone, StartupInv
  <2>4. QED BY <1>8, <1>9, <2>1, <2>3 DEF StageDone, StartupInv, Opened
<1>12. QED BY <1>2, <1>4, <1>6, <1>7, <1>10, <1>11 DEF StartupInv

LEMMA StartReleaseKeeps ==
  ASSUME StartupInv, NEW m \in NodeSet, Release(m)
  PROVE  StartupInv'
<1> DEFINE p == [peer[m] EXCEPT !.released = Stream(m).durable]
<1>1. /\ stage \in {"recording", "drain"} /\ evidence[m].boot = peer[m].boot
      /\ peer' = [peer EXCEPT ![m].released = Stream(m).durable]
      /\ UNCHANGED <<captures, stage, turn, plan, evidence, runtime, takeover>>
  BY DEF Release, Session, hostVars
<1>2. peer' = [peer EXCEPT ![m] = p] BY <1>1
<1>3. /\ peer[m].boot \in 1 .. MaxBoots[m] /\ peer[m].retained <= peer[m].produced
      /\ Stream(m) = captures[m][peer[m].boot]
  BY <1>1 DEF StartupInv, CapturesSound, Stream
<1>4. Stream(m).durable \in Nat /\ peer[m] \in PeerType
  BY <1>3, NodeTypes DEF StreamType
<1>5. /\ p \in PeerType /\ p.boot = peer[m].boot /\ p.state = peer[m].state
      /\ p.produced = peer[m].produced /\ p.retained = peer[m].retained
      /\ p.released = Stream(m).durable
  BY <1>4 DEF PeerType
<1>6. p.released <= captures[m][p.boot].durable /\ peer[m].produced <= p.produced
  BY <1>3, <1>4, <1>5 DEF PeerType
<1> HIDE DEF p
<1>7. QED BY <1>1, <1>2, <1>3, <1>5, <1>6, PeerMoves

LEMMA ProduceKeeps ==
  ASSUME StartupInv, NEW m \in NodeSet, Produce(m)
  PROVE  StartupInv'
<1> DEFINE k == peer[m].produced + 1
           r == IF k > JournalCapacity /\ k - JournalCapacity > peer[m].retained
                THEN k - JournalCapacity ELSE peer[m].retained
           p == [peer[m] EXCEPT !.produced = k, !.retained = r]
<1>1. /\ UNCHANGED <<captures, stage, turn, plan, evidence, runtime, takeover>>
      /\ peer' = [peer EXCEPT ![m].produced = k,
                    ![m].retained = IF k > JournalCapacity /\ k - JournalCapacity > @
                                    THEN k - JournalCapacity ELSE @]
  BY DEF Produce, hostVars
<1>2. peer \in [NodeSet -> PeerType] /\ peer[m] \in PeerType
  BY DEF StartupInv, StartupTypes
<1>3. peer' = [peer EXCEPT ![m] = p] BY <1>1, <1>2 DEF PeerType
<1>4. /\ peer[m].boot \in 1 .. MaxBoots[m] /\ peer[m].retained <= peer[m].produced
      /\ peer[m].released <= captures[m][peer[m].boot].durable
  BY DEF StartupInv, CapturesSound
<1>5. JournalCapacity \in Nat \ {0} /\ k \in Nat /\ peer[m].produced \in Nat /\ peer[m].retained \in Nat
  BY <1>2, StartupAssumption DEF PeerType
<1>6. /\ p \in PeerType /\ p.boot = peer[m].boot /\ p.state = peer[m].state
      /\ p.produced = k /\ p.released = peer[m].released /\ p.retained = r
  <2>1. r \in Nat BY <1>5
  <2> HIDE DEF r, k
  <2>2. QED BY <1>2, <1>5, <2>1 DEF PeerType
<1>7. p.retained <= p.produced /\ peer[m].produced <= p.produced
  <2>1. r <= k /\ peer[m].produced <= k BY <1>4, <1>5
  <2> HIDE DEF p, k, r
  <2>2. QED BY <1>6, <2>1
<1> HIDE DEF p, k, r
<1>8. QED BY <1>1, <1>3, <1>4, <1>6, <1>7, PeerMoves

LEMMA StartupRebootKeeps ==
  ASSUME StartupInv, NEW m \in NodeSet, Reboot(m)
  PROVE  StartupInv'
<1> DEFINE p == Boot(m, peer[m].boot + 1)
<1>1. /\ peer[m].boot < MaxBoots[m] /\ peer' = [peer EXCEPT ![m] = p]
      /\ UNCHANGED <<captures, stage, turn, plan, evidence, runtime, takeover>>
  BY DEF Reboot, hostVars
<1>2. peer[m].boot \in Nat /\ MaxBoots[m] \in Nat BY NodeTypes DEF PeerType
<1>3. /\ p \in PeerType /\ p.boot = peer[m].boot + 1 /\ p.released = 0
      /\ p.retained = 0 /\ p.produced = 0
  <2>1. "Idle" \in RuntimeStates /\ peer[m].boot + 1 \in Nat BY <1>2 DEF RuntimeStates
  <2>2. QED BY <2>1 DEF Boot, PeerType
<1> HIDE DEF p
<1>4. p.boot \in 1 .. MaxBoots[m] /\ p.retained <= p.produced BY <1>1, <1>2, <1>3
<1>5. QED BY <1>1, <1>3, <1>4, PeerMoves

------------------------
LEMMA StartupStepKeeps == StartupInv /\ [StartupNext]_startupVars => StartupInv'
<1> SUFFICES ASSUME StartupInv, [StartupNext]_startupVars PROVE StartupInv' OBVIOUS
<1>1. CASE UNCHANGED startupVars
  <2>1. UNCHANGED <<peer, captures, stage, turn, plan, evidence, runtime, takeover>>
    BY <1>1 DEF startupVars, hostVars
  <2>2. StartupTypes' /\ CapturesSound'
    BY <2>1 DEF StartupInv, StartupTypes, CapturesSound
  <2>3. EvidenceSound'
    BY <2>1 DEF StartupInv, EvidenceSound, Truthful, Asked, NodesDone, Session, Stream
  <2>4. PartlyAsked' /\ RuntimeTold' /\ StageDone'
    BY <2>1 DEF StartupInv, PartlyAsked, RuntimeTold, StageDone, NodesDone, Session, Stream, Me, OriginUnreadable
  <2>5. QED BY <2>2, <2>3, <2>4 DEF StartupInv
<1>2. CASE \/ Discover \/ BootstrapIdentity \/ BootstrapRuntime \/ BootstrapStream \/ BootstrapFails
           \/ ValidateBootstrap \/ RefuseOrigin \/ OpenCaptures \/ ReconcileStreams
  BY <1>2, DiscoverKeeps, BootstrapIdentityKeeps, BootstrapRuntimeKeeps, BootstrapStreamKeeps,
     BootstrapFailsKeeps, ValidateBootstrapKeeps, RefuseOriginKeeps, OpenCapturesKeeps, ReconcileStreamsKeeps
<1>3. CASE \/ Activate \/ Assemble \/ Stop \/ StopEnds \/ Drain \/ DrainEnds
           \/ Restart \/ RestartEnds \/ Crash
  BY <1>3, ActivateKeeps, AssembleKeeps, StopKeeps, StopEndsKeeps, DrainKeeps, DrainEndsKeeps,
     RestartKeeps, RestartEndsKeeps, StartupCrashKeeps
<1>4. CASE \E n \in NodeSet : Record(n) \/ Release(n) \/ Produce(n) \/ Reboot(n)
  BY <1>4, RecordKeeps, StartReleaseKeeps, ProduceKeeps, StartupRebootKeeps
<1>5. QED BY <1>1, <1>2, <1>3, <1>4 DEF StartupNext

(* No start is refused for what an earlier one left behind, except over a
   capture file that never got its header: what a node said it had released is
   on disk and what is on disk it has produced, whatever crash, reboot or
   missed answer came between (inspect_capture_stream_origin,
   reconcile_existing_capture, assemble_recording_coordinator).  A boot whose
   start is refused has nothing on disk, and nothing of it was released. *)
THEOREM StartRefusalsLoseNothing == StartupSpec => []RefusedStartsLoseNothing
<1>1. ASSUME StartupInv PROVE RefusedStartsLoseNothing
  <2>1. stage \notin {"ReleasedBeyondDurable", "CaptureAheadOfNode", "NodeNotRecording",
                      "SessionIdentityMismatch"}
    BY <1>1 DEF StartupInv, StartupTypes, Stages, Asking, Preparing, Opened
  <2>2. stage = "TruncatedFileHeader" =>
          \E n \in NodeSet : /\ OriginUnreadable(n) /\ Stream(n).durable = 0
                             /\ Session(n) => peer[n].released = 0
    <3> SUFFICES ASSUME stage = "TruncatedFileHeader"
                 PROVE  \E n \in NodeSet : /\ OriginUnreadable(n) /\ Stream(n).durable = 0
                                           /\ Session(n) => peer[n].released = 0
      OBVIOUS
    <3>1. PICK n \in NodeSet : OriginUnreadable(n) /\ evidence[n].boot \in 1 .. peer[n].boot
      BY <1>1 DEF StartupInv, StageDone
    <3>2. /\ peer[n].boot \in 1 .. MaxBoots[n] /\ peer[n].released <= captures[n][peer[n].boot].durable
          /\ \A b \in 1 .. MaxBoots[n] : ~captures[n][b].open => captures[n][b].durable = 0
      BY <1>1 DEF StartupInv, CapturesSound
    <3>3. evidence[n].boot \in 1 .. MaxBoots[n] /\ peer[n].released \in Nat
      BY <1>1, <3>1, <3>2, NodeTypes DEF PeerType
    <3>4. Stream(n) = captures[n][evidence[n].boot] /\ ~Stream(n).open
      BY <3>1 DEF OriginUnreadable, Stream
    <3>5. Stream(n).durable = 0 BY <3>2, <3>3, <3>4
    <3>6. Session(n) => peer[n].released = 0 BY <3>2, <3>3, <3>4, <3>5 DEF Session
    <3>7. QED BY <3>1, <3>5, <3>6
  <2>3. QED BY <2>1, <2>2 DEF RefusedStartsLoseNothing
<1>2. StartupInit => StartupInv BY StartupBegins
<1>3. StartupInv /\ [StartupNext]_startupVars => StartupInv' BY StartupStepKeeps
<1>4. QED BY <1>1, <1>2, <1>3, PTL DEF StartupSpec

(* The step that ends a start. *)
LEMMA StartCompletes ==
  ASSUME StartupInv, StartupNext, stage # "recording", stage' = "recording"
  PROVE  \A n \in NodeSet : Session(n) => /\ Stream(n).durable >= evidence[n].produced
                                          /\ peer[n].state \in {"Recording", "Faulted"}
<1>1. ~\E n \in NodeSet : Record(n) \/ Release(n) \/ Produce(n) \/ Reboot(n)
  BY DEF Record, Release, Produce, Reboot, hostVars
<1>2. Assemble \/ RestartEnds
  <2>1. ~(Discover \/ BootstrapIdentity \/ BootstrapRuntime \/ BootstrapStream \/ BootstrapFails)
    BY DEF Discover, BootstrapIdentity, BootstrapRuntime, BootstrapStream, BootstrapFails, Goes, Refused
  <2>2. ~(ValidateBootstrap \/ RefuseOrigin \/ OpenCaptures \/ Stop \/ StopEnds \/ Drain \/ DrainEnds \/ Crash)
    BY DEF ValidateBootstrap, RefuseOrigin, OpenCaptures, Stop, StopEnds, Drain, DrainEnds, Crash, Goes, Refused, Next1
  <2>3. ~ReconcileStreams BY DEF ReconcileStreams, Goes, Refused, Reconciles
  <2>4. ~Activate
    <3> SUFFICES ASSUME Activate PROVE FALSE OBVIOUS
    <3>1. stage = "activate" /\ Me \in NodeSet BY CurrentNode DEF Activate
    <3>2. runtime[Me] \in RuntimeStates BY <3>1 DEF StartupInv, RuntimeTold
    <3>3. QED BY <3>1, <3>2 DEF Activate, Goes, Next1, RuntimeStates
  <2>5. ~Restart BY DEF Restart, Goes, Next1
  <2>6. QED BY <1>1, <2>1, <2>2, <2>3, <2>4, <2>5 DEF StartupNext
<1>3. /\ stage \in {"activate", "restart"} /\ All
      /\ stage = "activate" => ~takeover
  BY <1>2 DEF Assemble, RestartEnds, Goes
<1>4. NodesDone = NodeSet BY <1>3, Turns DEF StartupInv, StartupTypes
<1>5. QED BY <1>3, <1>4 DEF StartupInv, StageDone, RuntimeTold

(* A start that ends has what its nodes recorded before the host came, and
   every node still in its session records. *)
THEOREM StartsAreComplete == StartupSpec => StartedIsComplete
<1>1. StartupInit => StartupInv BY StartupBegins
<1>2. StartupInv /\ [StartupNext]_startupVars => StartupInv' BY StartupStepKeeps
<1>3. StartupInv /\ [StartupNext]_startupVars =>
        [stage # "recording" /\ stage' = "recording" =>
           \A n \in NodeSet : Session(n) => /\ Stream(n).durable >= evidence[n].produced
                                            /\ peer[n].state \in {"Recording", "Faulted"}]_startupVars
  BY StartCompletes
<1>4. QED BY <1>1, <1>2, <1>3, PTL DEF StartupSpec, StartedIsComplete
==============================================================================
