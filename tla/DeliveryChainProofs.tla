------------------------ MODULE DeliveryChainProofs ------------------------
(* The chain from the node's journal to the capture on the host's disk,
   for every ring, ledger, chunk and line size, any number of boots,
   crashes and lost, late or unanswered requests. *)
EXTENDS DeliveryChain, MeasurementJournalProofs, SequenceTheorems

------------------------
(* What a pull does to the journal and tells of it. *)

(* release_before moves the released cursor to the one it is given or not
   at all, drops retained data only up to it, and refuses only a cursor
   beyond what was delivered or lost. *)
LEMMA ReleaseCursor ==
  ASSUME NEW n, JournalInv(n), NEW cursor \in Nat
  PROVE  LET r == release_before(n, cursor)
             k == r.journal
         IN  /\ k.released \in {n.released, cursor}
             /\ k.retained_from \in {n.retained_from, k.released}
             /\ r.status = "Ok" => cursor <= k.released
             /\ r.status # "Ok" => cursor > release_limit(n)
<1> DEFINE open == invalidate_prepared_view(n)
           dropped == discard_retention_before(open, cursor, FALSE)
           base == dropped.journal
           kept == [open EXCEPT !.released = cursor]
           freed == [base EXCEPT !.released = cursor]
           r == release_before(n, cursor)
<1>0. r = IF cursor <= n.released THEN [status |-> "Ok", journal |-> open]
          ELSE IF cursor > release_limit(n)
               THEN [status |-> "BeyondDeliveredRange", journal |-> open]
          ELSE IF cursor <= n.retained_from
               THEN [status |-> "Ok", journal |-> kept]
          ELSE IF ~dropped.ok
               THEN [status |-> "BeyondDeliveredRange", journal |-> open]
          ELSE [status |-> "Ok", journal |-> freed]
  BY DEF release_before
<1> HIDE DEF open, dropped, base, kept, freed, r
<1>1. /\ JournalInv(open) /\ ~open.prepared_valid
      /\ open.retained_from = n.retained_from /\ open.produced = n.produced
      /\ open.released = n.released
  BY InvalidatePrepared DEF open
<1>2. /\ n.retained_from \in Nat /\ n.produced \in Nat /\ n.delivered \in Nat
      /\ n.released \in Nat
      /\ n.delivered <= n.produced /\ n.retained_from <= n.produced
  BY JournalParts
<1>3. CASE cursor <= n.released BY <1>0, <1>1, <1>2, <1>3 DEF r
<1>4. CASE ~(cursor <= n.released) /\ cursor > release_limit(n)
  BY <1>0, <1>1, <1>2, <1>4 DEF r
<1>5. CASE /\ ~(cursor <= n.released) /\ ~(cursor > release_limit(n))
           /\ cursor <= n.retained_from
  <2>1. /\ kept.released = cursor /\ kept.retained_from = n.retained_from
    BY <1>1 DEF kept, JournalInv, Journal
  <2> QED BY <1>0, <1>2, <1>5, <2>1 DEF r
<1>6. CASE /\ ~(cursor <= n.released) /\ ~(cursor > release_limit(n))
           /\ ~(cursor <= n.retained_from)
  <2>1. /\ open.retained_from <= cursor /\ cursor <= open.produced
    BY <1>1, <1>2, <1>6 DEF release_limit
  <2>2. /\ dropped.ok /\ JournalInv(base) /\ base.retained_from = cursor
    <3>1. FALSE \in BOOLEAN OBVIOUS
    <3> QED BY <1>1, <2>1, <3>1, DiscardRetention, ZenonT(60) DEF dropped, base
  <2>3. freed.released = cursor /\ freed.retained_from = cursor
    BY <2>2 DEF freed, JournalInv, Journal
  <2> QED BY <1>0, <1>2, <1>6, <2>2, <2>3 DEF r
<1> QED BY <1>3, <1>4, <1>5, <1>6

(* A read shows at most as many samples as it was asked for, and a gap to
   its end. *)
LEMMA ReadExtent ==
  ASSUME NEW n, JournalInv(n),
         NEW from \in n.retained_from..(n.produced - 1), NEW limit \in Nat \ {0}
  PROVE  LET v == prepare_read(n, from, limit).view
         IN  /\ v.status = "Samples" =>
                  /\ v.first.size + v.second.size = v.end_sequence - from
                  /\ v.end_sequence <= from + limit
             /\ v.status = "Gap" => v.gap.missing_count = v.end_sequence - from
<1> DEFINE open == invalidate_prepared_view(n)
           view(status, end) ==
             [status |-> status, first_sequence |-> from, end_sequence |-> end,
              retained_from |-> n.retained_from, produced |-> n.produced,
              first |-> NoSpan, second |-> NoSpan,
              gap |-> NoGap, continuity_break |-> NoBreak]
           in_gap == gap_containing(n.gaps, from)
           at_break == break_containing(n.continuity, from)
           g == CHOOSE x \in in_gap : TRUE
           b == CHOOSE x \in at_break : TRUE
           available == sample_end(n, from) - from
           count == IF available < limit THEN available ELSE limit
           offset == samples_between(n, n.retained_from, from)
           bounded == bounded_count(n, offset, count)
           start == sample_physical_index(n, offset)
           first_size == IF bounded < SampleCapacity - start
                         THEN bounded ELSE SampleCapacity - start
           chunk == [view("Samples", from + bounded)
                       EXCEPT !.first = [data |-> start, size |-> first_size],
                              !.second = [data |-> 0,
                                          size |-> bounded - first_size]]
           r == prepare_read(n, from, limit)
<1>1. /\ n.retained_from \in Nat /\ n.produced \in Nat /\ from \in Nat
      /\ n.retained_from <= from /\ from < n.produced
      /\ n.sample_head \in Nat /\ Ledgers(n)
      /\ \A i \in DOMAIN n.gaps : gap_end(n.gaps[i]) \in Nat
  BY JournalParts
<1>2. ~(limit = 0) /\ ~(from < n.retained_from) /\ ~(from > n.produced)
      /\ ~(from = n.produced)
  BY <1>1
<1>3. r = IF in_gap # {} THEN
            [view    |-> [view("Gap", gap_end(g)) EXCEPT !.gap = g],
             journal |-> prepare_through(open, gap_end(g))]
          ELSE IF at_break # {} THEN
            [view    |-> [view("ContinuityBreak", break_end(b))
                            EXCEPT !.continuity_break = b],
             journal |-> prepare_through(open, break_end(b))]
          ELSE IF \/ count = 0
                  \/ offset >= n.sample_size
                  \/ count > n.sample_size - offset
               THEN [view |-> view("InternalError", from), journal |-> open]
          ELSE [view |-> chunk, journal |-> prepare_through(open, from + bounded)]
  BY <1>2 DEF prepare_read
<1>4. \A st, end, x :
        LET v == [view(st, end) EXCEPT !.gap = x]
        IN  v.status = st /\ v.end_sequence = end /\ v.gap = x
  OBVIOUS
<1>5. \A st, end, x :
        LET v == [view(st, end) EXCEPT !.continuity_break = x]
        IN  v.status = st
  OBVIOUS
<1>6. /\ \A st, end : view(st, end).status = st
      /\ chunk.status = "Samples" /\ chunk.end_sequence = from + bounded
      /\ chunk.first.size = first_size
      /\ chunk.second.size = bounded - first_size
  OBVIOUS
<1>7. offset \in Nat
  <2>1. /\ Ledgers(n) /\ n.retained_from \in Nat /\ from \in Nat
        /\ n.produced \in Nat /\ n.retained_from <= from /\ from <= n.produced
    BY <1>1
  <2>2. samples_between(n, n.retained_from, from) \in Nat BY <2>1, SamplesSplit
  <2> QED BY <2>2
<1>8. start \in Nat /\ SampleCapacity \in Nat
  <2>1. n.sample_head + offset \in Int /\ SampleCapacity \in Nat \ {0}
    BY <1>1, <1>7, CapacityAssumption
  <2> HIDE DEF offset
  <2> QED BY <2>1, ModRange DEF sample_physical_index
<1>9. sample_end(n, from) \in Nat BY <1>1, SampleEnd
<1>10. from < sample_end(n, from) => count \in Nat /\ count > 0 /\ count <= limit
  BY <1>1, <1>9
<1> HIDE DEF open, view, chunk, r, offset, count, bounded, start, first_size
<1>11. CASE in_gap # {}
  <2>1. g \in in_gap BY <1>11
  <2> HIDE DEF g
  <2>2. PICK i \in DOMAIN n.gaps :
          /\ n.gaps[i].first_missing <= from /\ from < gap_end(n.gaps[i])
          /\ g = [first_missing |-> from,
                  missing_count |-> gap_end(n.gaps[i]) - from,
                  reason |-> n.gaps[i].reason]
    BY <2>1 DEF gap_containing
  <2>3. gap_end(g) = from + (gap_end(n.gaps[i]) - from)
        /\ g.missing_count = gap_end(n.gaps[i]) - from
    BY <2>2 DEF gap_end
  <2>4. r.view.status = "Gap" /\ r.view.end_sequence = gap_end(g) /\ r.view.gap = g
    <3>1. r.view = [view("Gap", gap_end(g)) EXCEPT !.gap = g] BY <1>3, <1>11
    <3> QED BY <1>4, <3>1
  <2> QED BY <1>1, <2>3, <2>4 DEF r
<1>12. CASE in_gap = {} /\ at_break # {}
  <2>1. r.view.status = "ContinuityBreak"
    <3>1. r.view = [view("ContinuityBreak", break_end(b))
                      EXCEPT !.continuity_break = b]
      BY <1>3, <1>12
    <3> QED BY <1>5, <3>1
  <2> QED BY <2>1 DEF r
<1>13. CASE in_gap = {} /\ at_break = {}
  <2>1. from < sample_end(n, from) BY <1>1, <1>13, SampleEndBehind
  <2>2. bounded \in 1..count
    <3>1. count \in Nat /\ count > 0 BY <1>10, <2>1
    <3> QED BY <3>1, BoundedCount DEF bounded
  <2>3. first_size \in Int BY <1>8, <1>10, <2>1, <2>2 DEF first_size
  <2>4. CASE r.view = chunk BY <1>1, <1>6, <1>10, <2>1, <2>2, <2>3, <2>4 DEF r
  <2>5. CASE r.view = view("InternalError", from) BY <1>6, <2>5 DEF r
  <2> QED BY <1>3, <1>13, <2>4, <2>5
<1> QED BY <1>11, <1>12, <1>13

------------------------
(* What the source gave a sequence, and what the journal shows of it. *)

(* What a stream's capture may hold of a sequence, but for its loss. *)
Cells ==
  {SampleOf(r) : r \in SampleRecords} \cup {GapOf(why) : why \in GapReason}
    \cup {BreakOf(why) : why \in ContinuityBreakReason}

(* The journal shows at q what the source gave it, and a sample with the
   time of its sequence. *)
ShowsCell(n, q, c) ==
  /\ \A why : GapAt(n, q, why) => c = GapOf(why)
  /\ \A why : BreakAt(n, q, why) => c = BreakOf(why)
  /\ SampleAt(n, q) => /\ c = SampleOf(StoredSample(n, q))
                       /\ StoredSample(n, q).device_time_us = q + 1

(* cells[q + 1] is what the source gave sequence q. *)
ContentTold(n, cells) ==
  \A q \in n.retained_from..(n.produced - 1) : ShowsCell(n, q, cells[q + 1])

(* A sequence that shows the same shows the same cell. *)
LEMMA CellKept ==
  ASSUME NEW n, NEW k, NEW q, NEW c, SameAt(n, k, q), ShowsCell(n, q, c)
  PROVE  ShowsCell(k, q, c)
<1>1. SampleAt(k, q) <=> SampleAt(n, q) BY SameSamples
<1> QED BY <1>1 DEF SameAt, ShowsCell

(* A new gap, break or sample shows the cell it was made of. *)
LEMMA CellShown ==
  ASSUME NEW k, NEW q
  PROVE  /\ \A why : ShowsGap(k, q, why) => ShowsCell(k, q, GapOf(why))
         /\ \A why : ShowsBreak(k, q, why) => ShowsCell(k, q, BreakOf(why))
         /\ \A x : ShowsSample(k, q, x) /\ x.device_time_us = q + 1
                     => ShowsCell(k, q, SampleOf(x))
<1>1. SampleAt(k, q) <=> /\ \A why : ~GapAt(k, q, why)
                         /\ \A why : ~BreakAt(k, q, why)
  BY SampleAtOtherwise
<1>2. ASSUME NEW why, ShowsGap(k, q, why) PROVE ShowsCell(k, q, GapOf(why))
  BY <1>1, <1>2 DEF ShowsGap, ShowsCell
<1>3. ASSUME NEW why, ShowsBreak(k, q, why) PROVE ShowsCell(k, q, BreakOf(why))
  BY <1>1, <1>3 DEF ShowsBreak, ShowsCell
<1>4. ASSUME NEW x, ShowsSample(k, q, x), x.device_time_us = q + 1
      PROVE  ShowsCell(k, q, SampleOf(x))
  BY <1>1, <1>4 DEF ShowsSample, ShowsCell
<1> QED BY <1>2, <1>3, <1>4

(* A step that keeps what retained sequences show and appends nothing. *)
LEMMA ToldKept ==
  ASSUME NEW n, JournalInv(n), NEW k, JournalInv(k), ContentKept(n, k),
         n.retained_from <= k.retained_from, k.produced = n.produced,
         NEW cells, ContentTold(n, cells)
  PROVE  ContentTold(k, cells)
<1>1. /\ n.retained_from \in Nat /\ n.produced \in Nat /\ k.retained_from \in Nat
  BY JournalParts
<1> SUFFICES ASSUME NEW q \in k.retained_from..(k.produced - 1)
             PROVE  ShowsCell(k, q, cells[q + 1])
  BY DEF ContentTold
<1>2. q \in n.retained_from..(n.produced - 1)
      /\ q \in k.retained_from..(n.produced - 1)
  BY <1>1
<1> QED BY <1>2, CellKept DEF ContentTold, ContentKept

(* A step that appends: the source gives the new sequences more cells. *)
LEMMA ToldAppended ==
  ASSUME NEW n, JournalInv(n), NEW k, JournalInv(k), ContentKept(n, k),
         n.retained_from <= k.retained_from, n.produced <= k.produced,
         NEW cells \in Seq(Cells), Len(cells) = n.produced,
         ContentTold(n, cells),
         NEW more \in Seq(Cells), Len(more) = k.produced - n.produced,
         \A q \in n.produced..(k.produced - 1) :
           ShowsCell(k, q, more[q - n.produced + 1])
  PROVE  ContentTold(k, cells \o more)
<1> DEFINE all == cells \o more
<1>1. /\ n.retained_from \in Nat /\ n.produced \in Nat
      /\ k.retained_from \in Nat /\ k.produced \in Nat
  BY JournalParts
<1>2. /\ \A i \in 1..Len(cells) : all[i] = cells[i]
      /\ \A i \in 1..Len(more) : all[Len(cells) + i] = more[i]
  OBVIOUS
<1> HIDE DEF all
<1> SUFFICES ASSUME NEW q \in k.retained_from..(k.produced - 1)
             PROVE  ShowsCell(k, q, all[q + 1])
  BY DEF ContentTold, all
<1>3. CASE q < n.produced
  <2>1. /\ q \in n.retained_from..(n.produced - 1)
        /\ q \in k.retained_from..(n.produced - 1) /\ q + 1 \in 1..Len(cells)
    BY <1>1, <1>3
  <2>2. SameAt(n, k, q) /\ ShowsCell(n, q, cells[q + 1])
    BY <2>1 DEF ContentTold, ContentKept
  <2> QED BY <1>2, <2>1, <2>2, CellKept
<1>4. CASE ~(q < n.produced)
  <2>1. /\ q \in n.produced..(k.produced - 1)
        /\ q - n.produced + 1 \in 1..Len(more)
        /\ Len(cells) + (q - n.produced + 1) = q + 1
    BY <1>1, <1>4
  <2> QED BY <1>2, <2>1
<1> QED BY <1>3, <1>4

(* A view that matches the journal tells the cells of its range, once and
   in order, and its samples have increasing times. *)
LEMMA ViewTold ==
  ASSUME NEW k, JournalInv(k), NEW cells \in Seq(Cells),
         Len(cells) = k.produced, ContentTold(k, cells),
         NEW view, view.first_sequence \in Nat,
         view.end_sequence \in (view.first_sequence + 1)..k.produced,
         view.status \in {"Samples", "Gap", "ContinuityBreak"},
         ReadMatches(k, view, ReadSamples(k, view)),
         view.status = "Samples" =>
           view.first.size + view.second.size
             = view.end_sequence - view.first_sequence,
         view.status = "Gap" =>
           view.gap.missing_count = view.end_sequence - view.first_sequence
  PROVE  LET data == view_data(k, view)
         IN  /\ data \in Seq(Cells)
             /\ Len(data) = view.end_sequence - view.first_sequence
             /\ \A i \in 1..Len(data) : data[i] = cells[view.first_sequence + i]
             /\ view.status = "Samples" => summarize_timing(k, view) = "Ok"
<1> DEFINE first == view.first_sequence
           size == view.end_sequence - view.first_sequence
           range == view.first_sequence..(view.end_sequence - 1)
           data == view_data(k, view)
<1>1. /\ k.retained_from \in Nat /\ k.produced \in Nat
      /\ size \in Nat \ {0} /\ first \in Nat /\ first + size <= k.produced
      /\ view.end_sequence \in Nat
  BY JournalParts
<1>2. \A q \in range : ShowsCell(k, q, cells[q + 1]) BY DEF ReadMatches, ContentTold
<1>3. \A i \in 1..size : /\ first + i - 1 \in range
                         /\ (first + i - 1) - first + 1 = i
                         /\ (first + i - 1) + 1 = first + i
                         /\ first + i \in 1..Len(cells)
                         /\ cells[first + i] \in Cells
  <2> SUFFICES ASSUME NEW i \in 1..size
               PROVE  /\ first + i - 1 \in range
                      /\ (first + i - 1) - first + 1 = i
                      /\ (first + i - 1) + 1 = first + i
                      /\ first + i \in 1..Len(cells)
                      /\ cells[first + i] \in Cells
    OBVIOUS
  <2>1. /\ first + i - 1 \in range /\ (first + i - 1) - first + 1 = i
        /\ (first + i - 1) + 1 = first + i
        /\ first + i \in 1..Len(cells)
    <3>1. \A a, b, c \in Nat : \A x \in 1..(b - a) :
            b <= c => /\ a + x - 1 \in a..(b - 1) /\ (a + x - 1) - a + 1 = x
                      /\ (a + x - 1) + 1 = a + x /\ a + x \in 1..c
      OBVIOUS
    <3>2. /\ view.end_sequence <= Len(cells) /\ Len(cells) \in Nat
          /\ i \in 1..(view.end_sequence - view.first_sequence)
      BY <1>1
    <3> QED BY <1>1, <3>1, <3>2, ZenonT(60)
  <2> HIDE DEF first
  <2> QED BY <2>1
<1>4. ASSUME data = [i \in 1..size |-> cells[first + i]]
      PROVE  /\ data \in Seq(Cells) /\ Len(data) = size
             /\ \A i \in 1..Len(data) : data[i] = cells[first + i]
  <2>1. \A i \in 1..size : cells[first + i] \in Cells BY <1>3
  <2> HIDE DEF data, size, first
  <2>2. data \in Seq(Cells) /\ Len(data) = size BY <1>1, <1>4, <2>1
  <2> QED BY <1>1, <1>4, <2>2
<1>5. CASE view.status = "Samples"
  <2> DEFINE at(i) == sample_at(k, view, i)
             samples == ReadSamples(k, view)
  <2>1. /\ view.first.size + view.second.size = size
        /\ samples = [i \in 1..size |-> at(i - 1)]
    BY <1>5 DEF ReadSamples
  <2>2. \A q \in range : SampleAt(k, q) /\ samples[q - first + 1] = StoredSample(k, q)
    BY <1>5 DEF ReadMatches
  <2>3. \A i \in 1..size : /\ samples[i] = at(i - 1)
                           /\ samples[i] = StoredSample(k, first + i - 1)
                           /\ cells[first + i] = SampleOf(samples[i])
                           /\ samples[i].device_time_us = first + i
    <3> SUFFICES ASSUME NEW i \in 1..size
                 PROVE  /\ samples[i] = at(i - 1)
                        /\ samples[i] = StoredSample(k, first + i - 1)
                        /\ cells[first + i] = SampleOf(samples[i])
                        /\ samples[i].device_time_us = first + i
      OBVIOUS
    <3>1. /\ first + i - 1 \in range /\ (first + i - 1) - first + 1 = i
          /\ (first + i - 1) + 1 = first + i
      BY <1>3
    <3>2. samples[i] = at(i - 1) BY <2>1
    <3> HIDE DEF samples, at, first, range, size
    <3>3. /\ samples[i] = StoredSample(k, first + i - 1)
          /\ SampleAt(k, first + i - 1)
      BY <2>2, <3>1
    <3>4. ShowsCell(k, first + i - 1, cells[(first + i - 1) + 1]) BY <1>2, <3>1
    <3>5. ShowsCell(k, first + i - 1, cells[first + i]) BY <3>1, <3>4
    <3> QED BY <3>1, <3>2, <3>3, <3>5 DEF ShowsCell
  <2>4. data = [i \in 1..size |-> SampleOf(at(i - 1))] BY <1>5, <2>1 DEF view_data
  <2>5. data = [i \in 1..size |-> cells[first + i]] BY <2>3, <2>4
  <2>6. \A i \in 0..(size - 1) : at(i).device_time_us = first + i + 1
    <3> SUFFICES ASSUME NEW i \in 0..(size - 1)
                 PROVE  at(i).device_time_us = first + i + 1
      OBVIOUS
    <3> HIDE DEF at, size, first, samples
    <3>1. i + 1 \in 1..size /\ (i + 1) - 1 = i /\ first + (i + 1) = first + i + 1
      BY SMTT(30), <1>1
    <3> QED BY <2>3, <3>1
  <2>7. summarize_timing(k, view) = "Ok"
    <3> DEFINE time(i) == at(i).device_time_us
    <3>1. summarize_timing(k, view) =
            IF size = 0 THEN "EmptyRange"
            ELSE IF time(size - 1) < time(0) THEN "ReversedAnchors"
            ELSE IF \E i \in 1..(size - 1) : time(i) < time(i - 1)
                 THEN "NonMonotonicSamples"
            ELSE IF /\ size > 1
                    /\ \A i \in 0..(size - 1) : at(i).timing_valid
                    /\ time(size - 1) = time(0)
                 THEN "InvalidValidAnchors"
            ELSE "Ok"
      BY <2>1 DEF summarize_timing
    <3> HIDE DEF at
    <3>2. \A i \in 0..(size - 1) : time(i) = first + i + 1 BY <2>6
    <3> HIDE DEF time, size, first
    <3>3. size - 1 \in 0..(size - 1) /\ 0 \in 0..(size - 1)
          /\ \A i \in 1..(size - 1) : i \in 0..(size - 1) /\ i - 1 \in 0..(size - 1)
      BY <1>1
    <3>4. time(size - 1) = first + (size - 1) + 1 /\ time(0) = first + 0 + 1
      BY <3>2, <3>3
    <3>5. ~(\E i \in 1..(size - 1) : time(i) < time(i - 1))
      <4> SUFFICES ASSUME NEW i \in 1..(size - 1), time(i) < time(i - 1)
                   PROVE  FALSE
        OBVIOUS
      <4>1. time(i) = first + i + 1 /\ time(i - 1) = first + (i - 1) + 1 BY <3>2, <3>3
      <4> QED BY <1>1, <4>1
    <3> QED BY <1>1, <3>1, <3>4, <3>5
  <2> HIDE DEF data, size, first
  <2> QED BY <1>4, <2>5, <2>7 DEF data, size, first
<1>6. CASE view.status = "Gap"
  <2>1. /\ view.gap.missing_count = size
        /\ \A q \in range : GapAt(k, q, view.gap.reason)
    BY <1>6 DEF ReadMatches
  <2>2. \A q \in range : cells[q + 1] = GapOf(view.gap.reason)
    BY <1>2, <2>1 DEF ShowsCell
  <2>3. data = [i \in 1..size |-> GapOf(view.gap.reason)] BY <1>6, <2>1 DEF view_data
  <2>4. \A i \in 1..size : cells[first + i] = GapOf(view.gap.reason)
    <3> HIDE DEF first, size, range
    <3> QED BY <1>3, <2>2
  <2>5. data = [i \in 1..size |-> cells[first + i]] BY <2>3, <2>4
  <2> HIDE DEF data, size, first
  <2> QED BY <1>4, <1>6, <2>5 DEF data, size, first
<1>7. CASE view.status = "ContinuityBreak"
  <2>1. /\ range = {first}
        /\ BreakAt(k, first, view.continuity_break.reason)
    BY <1>7 DEF ReadMatches
  <2>2. cells[first + 1] = BreakOf(view.continuity_break.reason)
    BY <1>2, <2>1 DEF ShowsCell
  <2>3. size = 1
    <3>1. view.end_sequence - 1 \in range BY <1>1
    <3> QED BY <1>1, <2>1, <3>1
  <2>4. data = <<BreakOf(view.continuity_break.reason)>> BY <1>7 DEF view_data
  <2>5. data = [i \in 1..size |-> cells[first + i]]
    <3>1. data = [i \in 1..1 |-> BreakOf(view.continuity_break.reason)] BY <2>4
    <3> QED BY <2>2, <2>3, <3>1
  <2> HIDE DEF data, size, first
  <2> QED BY <1>4, <1>7, <2>5 DEF data, size, first
<1> QED BY <1>5, <1>6, <1>7

(* mark_delivered accepts the end of the prepared range, and delivered
   reaches it. *)
LEMMA MarkReaches ==
  ASSUME NEW n, JournalInv(n), n.prepared_valid
  PROVE  LET r == mark_delivered(n, n.prepared_through)
         IN  r.status = "Ok" /\ n.prepared_through <= r.journal.delivered
<1> DEFINE end == n.prepared_through
           to == IF end > n.delivered THEN end ELSE n.delivered
           moved == [n EXCEPT !.delivered = to]
           r == mark_delivered(n, end)
<1>1. n \in Journal /\ end \in Nat /\ n.delivered \in Nat
  <2>1. n \in Journal /\ MaxSequence \in Nat BY CapacityAssumption DEF JournalInv
  <2> QED BY <2>1 DEF Journal, Sequence
<1>2. r = [status |-> "Ok", journal |-> invalidate_prepared_view(moved)]
  BY DEF mark_delivered
<1>3. end <= to BY <1>1
<1> HIDE DEF end, to
<1>4. moved.delivered = to BY <1>1 DEF Journal
<1>5. invalidate_prepared_view(moved).delivered = to
  BY <1>4 DEF invalidate_prepared_view
<1> QED BY <1>2, <1>3, <1>5 DEF end

(* Settling the chunk a fresh session handed out marks it delivered. *)
LEMMA SettleReaches ==
  ASSUME NEW n, JournalInv(n), NEW e, NEW plan,
         plan.decision \in Settleable, plan.journal = n, n.prepared_valid,
         plan.session = take_token(NewSession(e), n.prepared_through)
  PROVE  LET r == settle_response(plan)
         IN  /\ r.status = "Ok" /\ JournalInv(r.journal)
             /\ SameStore(n, r.journal)
             /\ r.journal.released = n.released
             /\ n.delivered <= r.journal.delivered
             /\ n.prepared_through <= r.journal.delivered
<1> DEFINE t == plan.session
           marked == mark_delivered(n, n.prepared_through)
           r == settle_response(plan)
<1>1. t.prepared_token = 1 /\ t.prepared_end = n.prepared_through
  BY DEF take_token, NewSession
<1>2. r = complete(n, t, t.prepared_token) BY DEF settle_response
<1>3. marked.status = "Ok" /\ n.prepared_through <= marked.journal.delivered
  BY MarkReaches
<1> HIDE DEF t, r
<1>4. r.status = "Ok" /\ r.journal = marked.journal BY <1>1, <1>2, <1>3 DEF complete
<1>5. /\ JournalInv(marked.journal) /\ marked.journal.released = n.released
      /\ n.delivered <= marked.journal.delivered
  BY MarkDeliveredKeeps
<1>6. SameStore(n, marked.journal) BY PreparedStore
<1> HIDE DEF marked
<1> QED BY <1>3, <1>4, <1>5, <1>6 DEF r

(* What the node made of a pull: the plan p, of a journal n that the
   settlement turned into k. *)
PullAnswered(n, k, p, e, command, cells) ==
  \/ p.decision = "StreamChanged" /\ command.boot_epoch # e /\ k = n
  \/ /\ p.decision = "InvalidRelease" /\ command.boot_epoch = e
     /\ command.release_before > release_limit(n)
  \/ /\ command.boot_epoch = e /\ command.release_before <= k.released
     /\ \/ p.decision = "NoData" /\ command.from = k.produced
        \/ p.decision = "RangeUnavailable" /\ command.from < k.retained_from
        \/ p.decision = "CursorAhead" /\ command.from > k.produced
        \/ LET data == view_data(p.journal, p.view)
           IN  /\ p.decision \in Settleable
               /\ p.view.first_sequence = command.from
               /\ k.retained_from <= command.from
               /\ data \in Seq(Cells) /\ Len(data) > 0
               /\ command.from + Len(data) <= k.produced
               /\ command.from + Len(data) <= k.delivered
               /\ p.decision = "SampleChunk" => Len(data) <= command.max_samples
               /\ \A i \in 1..Len(data) : data[i] = cells[command.from + i]

(* A pull in a fresh session is always answered and always settled: it
   releases what it may, drops nothing else, and tells the cells of the
   range it asked for or why there are none. *)
LEMMA PullServed ==
  ASSUME NEW n, JournalInv(n), NEW cells \in Seq(Cells),
         Len(cells) = n.produced, ContentTold(n, cells),
         NEW e \in Nat \ {0}, NEW command \in PullCommand,
         command.max_samples # 0, command.release_before <= command.from
  PROVE  LET p == prepare_pull(n, NewSession(e), command)
             r == settle_response(p)
             k == r.journal
         IN  /\ r.status = "Ok" /\ JournalInv(k) /\ ContentKept(n, k)
             /\ n.retained_from <= k.retained_from /\ k.produced = n.produced
             /\ n.delivered <= k.delivered /\ n.released <= k.released
             /\ k.released \in {n.released, command.release_before}
             /\ k.retained_from \in {n.retained_from, k.released}
             /\ p.journal.retained_from = k.retained_from
             /\ p.journal.produced = k.produced
             /\ p.journal.released = k.released
             /\ PullAnswered(n, k, p, e, command, cells)
<1> DEFINE session == NewSession(e)
           freed == release_before(n, command.release_before)
           requested == IF command.max_samples < MaxChunkSamples
                        THEN command.max_samples ELSE MaxChunkSamples
           read == prepare_read(freed.journal, command.from, requested)
           verdict == view_decision(read.journal, read.view)
           cancelled == cancel_prepared(read.journal)
           taken == take_token(session, read.view.end_sequence)
           p == prepare_pull(n, session, command)
           r == settle_response(p)
           k == r.journal
<1>0. /\ command.from \in Nat /\ command.release_before \in Nat
      /\ command.max_samples \in Nat \ {0} /\ MaxChunkSamples \in Nat \ {0}
      /\ requested \in Nat \ {0} /\ requested <= command.max_samples
      /\ ~(command.release_before > command.from)
  BY SessionAssumption DEF PullCommand
<1>1. session.prepared_token = 0 /\ session.boot_epoch = e
      /\ session.next_token = 1
  BY DEF NewSession
<1>2. p = IF command.boot_epoch # e
          THEN [decision |-> "StreamChanged", view |-> NoView, journal |-> n,
                session |-> session]
          ELSE IF freed.status # "Ok"
          THEN [decision |-> "InvalidRelease", view |-> NoView,
                journal |-> freed.journal, session |-> session]
          ELSE IF verdict \in {"NoData", "RangeUnavailable", "CursorAhead"}
          THEN [decision |-> verdict, view |-> read.view,
                journal |-> read.journal, session |-> session]
          ELSE IF verdict \notin Settleable
          THEN [decision |-> "InternalError", view |-> NoView,
                journal |-> cancelled, session |-> session]
          ELSE [decision |-> verdict, view |-> read.view,
                journal |-> read.journal, session |-> taken]
  BY <1>0, <1>1 DEF prepare_pull
<1>3. p.decision \notin Settleable => r = [status |-> "Ok", journal |-> p.journal]
  BY DEF settle_response
<1> HIDE DEF session, freed, requested, read, verdict, cancelled, taken, p, r, k
<1>4. /\ ReleaseKeeps(n, freed.journal) /\ JournalInv(freed.journal)
      /\ Undisturbed(n, freed.journal)
      /\ freed.journal.released \in {n.released, command.release_before}
      /\ freed.journal.retained_from \in
           {n.retained_from, freed.journal.released}
      /\ freed.status = "Ok" => command.release_before <= freed.journal.released
      /\ freed.status # "Ok" => command.release_before > release_limit(n)
  BY <1>0, ReleaseBeforeKeeps, ReleaseBeforeContent, ReleaseCursor
     DEF freed, ReleaseKeeps
<1>5. /\ n.produced \in Nat /\ n.retained_from \in Nat /\ n.delivered \in Nat
      /\ n.released \in Nat
      /\ freed.journal.retained_from \in Nat /\ freed.journal.produced \in Nat
      /\ freed.journal.delivered \in Nat /\ freed.journal.released \in Nat
  BY <1>4, JournalParts
<1>6. ContentTold(freed.journal, cells) BY <1>4, ToldKept DEF ReleaseKeeps, Undisturbed
<1>7. /\ ReadKeeps(freed.journal, read.journal) /\ JournalInv(read.journal)
      /\ SameStore(freed.journal, read.journal)
      /\ read.view.status \in {"Gap", "ContinuityBreak", "Samples"} =>
           /\ read.journal.prepared_valid
           /\ read.journal.prepared_through = read.view.end_sequence
  <2>1. /\ JournalInv(freed.journal) /\ command.from \in Nat /\ requested \in Nat
    BY <1>0, <1>4
  <2>2. SameStore(freed.journal, read.journal) BY <2>1, PrepareReadStore DEF read
  <2>3. /\ ReadKeeps(freed.journal, read.journal)
        /\ read.view.status \in {"Gap", "ContinuityBreak", "Samples"} =>
             /\ read.journal.prepared_valid
             /\ read.journal.prepared_through = read.view.end_sequence
    BY <2>1, PrepareReadKeeps DEF read
  <2> QED BY <2>2, <2>3 DEF ReadKeeps
<1>8. ContentTold(read.journal, cells) /\ Len(cells) = read.journal.produced
  <2>1. ContentKept(freed.journal, read.journal)
    BY <1>7, SameStoreUndisturbed DEF Undisturbed
  <2>2. /\ freed.journal.retained_from <= read.journal.retained_from
        /\ read.journal.produced = freed.journal.produced
    BY <1>5, <1>7 DEF SameStore
  <2>3. read.journal.produced = n.produced BY <1>4, <2>2 DEF ReleaseKeeps
  <2> QED BY <1>4, <1>6, <1>7, <2>1, <2>2, <2>3, ToldKept
(* What every outcome but StreamChanged leaves. *)
<1>9. ASSUME r.status = "Ok", JournalInv(k), SameStore(freed.journal, k),
             k.released = freed.journal.released,
             freed.journal.delivered <= k.delivered,
             p.journal \in {freed.journal, read.journal}
      PROVE  /\ r.status = "Ok" /\ JournalInv(k) /\ ContentKept(n, k)
             /\ n.retained_from <= k.retained_from /\ k.produced = n.produced
             /\ n.delivered <= k.delivered /\ n.released <= k.released
             /\ k.released \in {n.released, command.release_before}
             /\ k.retained_from \in {n.retained_from, k.released}
             /\ p.journal.retained_from = k.retained_from
             /\ p.journal.produced = k.produced
             /\ p.journal.released = k.released
  <2>1. Undisturbed(freed.journal, k) BY <1>9, SameStoreUndisturbed
  <2>2. k.retained_from = freed.journal.retained_from
        /\ k.produced = freed.journal.produced
    BY <1>9 DEF SameStore
  <2>3. /\ n.retained_from <= freed.journal.retained_from
        /\ freed.journal.produced = n.produced
        /\ freed.journal.delivered = n.delivered
        /\ n.released <= freed.journal.released
    BY <1>4 DEF ReleaseKeeps
  <2>4. Undisturbed(n, k)
    <3>1. freed.journal.retained_from <= k.retained_from
          /\ n.produced <= freed.journal.produced /\ k.retained_from \in Nat
      BY <1>5, <2>2, <2>3
    <3> QED BY <1>4, <1>5, <2>1, <3>1, UndisturbedCompose
  <2>5. /\ p.journal.retained_from = k.retained_from
        /\ p.journal.produced = k.produced
        /\ p.journal.released = k.released
    BY <1>7, <1>9, <2>2 DEF ReadKeeps
  <2> QED BY <1>4, <1>9, <2>2, <2>3, <2>4, <2>5 DEF Undisturbed
<1>10. CASE command.boot_epoch # e
  <2>1. p.decision = "StreamChanged" /\ p.journal = n BY <1>2, <1>10
  <2>2. r = [status |-> "Ok", journal |-> n] BY <1>3, <2>1 DEF Settleable
  <2>3. k = n /\ r.status = "Ok" BY <2>2 DEF k
  <2>4. ContentKept(n, n)
    <3>1. SameStore(n, n) BY DEF SameStore, CountersKept
    <3> QED BY <3>1, SameStoreUndisturbed DEF Undisturbed
  <2>5. PullAnswered(n, k, p, e, command, cells) BY <1>10, <2>1, <2>3 DEF PullAnswered
  <2>6. /\ n.retained_from <= n.retained_from /\ n.delivered <= n.delivered
        /\ n.released <= n.released
    BY <1>5
  <2> QED BY <2>1, <2>3, <2>4, <2>5, <2>6 DEF p, r, k, session
<1>11. CASE command.boot_epoch = e /\ freed.status # "Ok"
  <2>1. p.decision = "InvalidRelease" /\ p.journal = freed.journal BY <1>2, <1>11
  <2>2. r = [status |-> "Ok", journal |-> freed.journal] BY <1>3, <2>1 DEF Settleable
  <2>3. k = freed.journal /\ r.status = "Ok" BY <2>2 DEF k
  <2>4. SameStore(freed.journal, k) /\ freed.journal.delivered <= k.delivered
    BY <1>5, <2>3 DEF SameStore, CountersKept
  <2>5. PullAnswered(n, k, p, e, command, cells) BY <1>4, <1>11, <2>1 DEF PullAnswered
  <2> QED BY <1>4, <1>9, <2>1, <2>3, <2>4, <2>5 DEF p, r, k, session
<1>12. CASE /\ command.boot_epoch = e /\ freed.status = "Ok"
            /\ command.from \notin
                 freed.journal.retained_from..(freed.journal.produced - 1)
  <2>1. read.view.status = IF command.from < freed.journal.retained_from
                           THEN "RangeUnavailable"
                           ELSE IF command.from = freed.journal.produced
                           THEN "NoData" ELSE "AheadOfProduced"
    BY <1>0, <1>4, <1>12, ReadRefuses DEF read
  <2>2. verdict = IF command.from < freed.journal.retained_from
                  THEN "RangeUnavailable"
                  ELSE IF command.from = freed.journal.produced
                  THEN "NoData" ELSE "CursorAhead"
    BY <2>1 DEF verdict, view_decision
  <2>3. p.decision = verdict /\ p.journal = read.journal BY <1>2, <1>12, <2>2
  <2>4. r = [status |-> "Ok", journal |-> read.journal]
    BY <1>3, <2>2, <2>3 DEF Settleable
  <2>5. k = read.journal /\ r.status = "Ok" BY <2>4 DEF k
  <2>6. /\ k.released = freed.journal.released
        /\ freed.journal.delivered <= k.delivered
        /\ k.retained_from = freed.journal.retained_from
        /\ k.produced = freed.journal.produced
    BY <1>5, <1>7, <2>5 DEF ReadKeeps
  <2>7. PullAnswered(n, k, p, e, command, cells)
    <3>1. command.from < freed.journal.retained_from
          \/ command.from = freed.journal.produced
          \/ command.from > freed.journal.produced
      BY SMTT(30), <1>0, <1>5, <1>12
    <3>2. freed.journal.retained_from <= freed.journal.produced BY <1>4, JournalParts
    <3> QED BY <1>0, <1>4, <1>5, <1>12, <2>2, <2>3, <2>6, <3>1, <3>2 DEF PullAnswered
  <2> QED BY <1>7, <1>9, <2>3, <2>5, <2>6, <2>7 DEF p, r, k, session
<1>13. CASE /\ command.boot_epoch = e /\ freed.status = "Ok"
            /\ command.from \in
                 freed.journal.retained_from..(freed.journal.produced - 1)
  <2>1. /\ read.view.status \in {"Samples", "Gap", "ContinuityBreak"}
        /\ read.view.first_sequence = command.from
        /\ read.view.end_sequence \in
             (command.from + 1)..freed.journal.produced
        /\ ReadMatches(freed.journal, read.view,
                       ReadSamples(read.journal, read.view))
    BY <1>0, <1>4, <1>13, ReadShows DEF read
  <2>2. /\ read.view.status = "Samples" =>
             /\ read.view.first.size + read.view.second.size
                  = read.view.end_sequence - command.from
             /\ read.view.end_sequence <= command.from + requested
        /\ read.view.status = "Gap" =>
             read.view.gap.missing_count = read.view.end_sequence - command.from
    BY <1>0, <1>4, <1>13, ReadExtent DEF read
  <2>3. read.view.first_sequence \in
          read.view.first_sequence..(read.view.end_sequence - 1)
    BY SMTT(30), <1>0, <1>5, <2>1
  <2>4. ReadMatches(read.journal, read.view,
                    ReadSamples(read.journal, read.view))
    BY <1>7, <2>1, <2>3, MatchesStore
  <2>5. read.journal.produced = freed.journal.produced BY <1>7 DEF ReadKeeps
  <2> DEFINE data == view_data(read.journal, read.view)
  <2>6. /\ data \in Seq(Cells)
        /\ Len(data) = read.view.end_sequence - command.from
        /\ \A i \in 1..Len(data) : data[i] = cells[command.from + i]
        /\ read.view.status = "Samples" =>
             summarize_timing(read.journal, read.view) = "Ok"
    <3>1. /\ read.view.first_sequence \in Nat
          /\ read.view.end_sequence \in
               (read.view.first_sequence + 1)..read.journal.produced
          /\ read.view.status = "Samples" =>
               read.view.first.size + read.view.second.size
                 = read.view.end_sequence - read.view.first_sequence
          /\ read.view.status = "Gap" =>
               read.view.gap.missing_count
                 = read.view.end_sequence - read.view.first_sequence
      BY <1>0, <2>1, <2>2, <2>5
    <3>2. /\ view_data(read.journal, read.view) \in Seq(Cells)
          /\ Len(view_data(read.journal, read.view))
               = read.view.end_sequence - read.view.first_sequence
          /\ \A i \in 1..Len(view_data(read.journal, read.view)) :
               view_data(read.journal, read.view)[i]
                 = cells[read.view.first_sequence + i]
          /\ read.view.status = "Samples" =>
               summarize_timing(read.journal, read.view) = "Ok"
      BY <1>7, <1>8, <2>1, <2>4, <3>1, ViewTold
    <3> QED BY <2>1, <3>2
  <2> HIDE DEF data
  <2>7. /\ verdict \in Settleable
        /\ verdict = "SampleChunk" => read.view.status = "Samples"
    BY <2>1, <2>6 DEF verdict, view_decision, Settleable
  <2>8. /\ p.decision = verdict /\ p.journal = read.journal
        /\ p.view = read.view /\ p.session = taken
    BY <1>2, <1>13, <2>7 DEF Settleable
  <2>9. /\ r.status = "Ok" /\ JournalInv(k)
        /\ SameStore(read.journal, k) /\ k.released = read.journal.released
        /\ read.journal.delivered <= k.delivered
        /\ read.view.end_sequence <= k.delivered
    <3>1. /\ read.journal.prepared_valid
          /\ read.journal.prepared_through = read.view.end_sequence
      BY <1>7, <2>1
    <3>2. p.session = take_token(NewSession(e), read.journal.prepared_through)
      BY <2>8, <3>1 DEF taken, session
    <3>3. p.decision \in Settleable BY <2>7, <2>8
    <3>4. LET x == settle_response(p)
          IN  /\ x.status = "Ok" /\ JournalInv(x.journal)
              /\ SameStore(read.journal, x.journal)
              /\ x.journal.released = read.journal.released
              /\ read.journal.delivered <= x.journal.delivered
              /\ read.journal.prepared_through <= x.journal.delivered
      BY <1>7, <2>8, <3>1, <3>2, <3>3, SettleReaches
    <3> QED BY <3>1, <3>4 DEF r, k
  <2>10. SameStore(freed.journal, k) BY <1>7, <2>9 DEF SameStore, CountersKept
  <2>11. /\ k.released = freed.journal.released
         /\ freed.journal.delivered <= k.delivered
         /\ k.retained_from = freed.journal.retained_from
         /\ k.produced = freed.journal.produced
    BY <1>7, <2>9 DEF ReadKeeps, SameStore
  <2>12. PullAnswered(n, k, p, e, command, cells)
    <3>1. /\ Len(data) > 0 /\ command.from + Len(data) = read.view.end_sequence
          /\ read.view.end_sequence <= k.produced
          /\ k.retained_from <= command.from
          /\ command.release_before <= k.released
      <4>1. /\ read.view.end_sequence \in Nat
            /\ command.from < read.view.end_sequence
            /\ read.view.end_sequence <= freed.journal.produced
            /\ freed.journal.retained_from <= command.from
        <5>1. \A a, b \in Nat : \A x \in (a + 1)..b : x \in Nat /\ a < x /\ x <= b
          OBVIOUS
        <5>2. \A a, b \in Nat : \A x \in a..(b - 1) : a <= x OBVIOUS
        <5>3. /\ command.from \in Nat /\ freed.journal.produced \in Nat
              /\ freed.journal.retained_from \in Nat
          BY <1>0, <1>5
        <5> QED BY <1>13, <2>1, <5>1, <5>2, <5>3, ZenonT(30)
      <4>2. Len(data) = read.view.end_sequence - command.from BY <2>6
      <4> DEFINE size == Len(data)
                 first == command.from
                 last == read.view.end_sequence
      <4>3. size = last - first /\ first < last /\ first \in Nat /\ last \in Nat
        BY <1>0, <4>1, <4>2
      <4> HIDE DEF size, first, last
      <4>4. size > 0 /\ first + size = last BY <4>3
      <4>5. Len(data) > 0 /\ command.from + Len(data) = read.view.end_sequence
        BY <4>4 DEF size, first, last
      <4>6. command.release_before <= k.released BY <1>4, <1>13, <2>11
      <4>7. /\ read.view.end_sequence <= k.produced
            /\ k.retained_from <= command.from
        BY <2>11, <4>1
      <4> QED BY <4>5, <4>6, <4>7
    <3>2. verdict = "SampleChunk" => Len(data) <= command.max_samples
      BY SMTT(30), <1>0, <1>5, <2>1, <2>2, <2>6, <2>7
    <3> QED BY <1>13, <2>1, <2>6, <2>7, <2>8, <2>9, <3>1, <3>2
            DEF PullAnswered, data
  <2> QED BY <1>9, <2>8, <2>9, <2>10, <2>11, <2>12 DEF p, r, k, session
<1> QED BY <1>10, <1>11, <1>12, <1>13

------------------------
(* The inductive invariant. *)

(* What a capture may hold. *)
Slots == Cells \cup {Overflow}

Sessions ==
  [phase : {"Offline", "Ready", "AwaitingPull", "Persisting",
            "RecoveryRequired"},
   epoch : Nat, received : Nat, durable : Nat, released : Nat,
   pull : [from : Nat, release_before : Nat],
   pending : [first : Nat, data : Seq(Slots)]]

PullRequest ==
  [epoch : Epochs, from : Nat, release_before : Nat, current : BOOLEAN]

ChainTypes ==
  /\ JournalInv(j)
  /\ epoch \in Epochs
  /\ early \in BOOLEAN
  /\ requests \in Seq(PullRequest)
  /\ h \in Sessions
  /\ disk \in [Epochs -> [first : Nat, data : Seq(Slots), open : BOOLEAN]]
  /\ source \in [Epochs -> Seq(Cells)]
  /\ seen # NoState =>
       seen \in [epoch : Epochs, retained_from : Nat, produced : Nat,
                 released : Nat]

(* The journal shows what the source gave this boot, and a sequence it no
   longer retains was released or lost to overload. *)
SourceTold ==
  /\ Len(source[epoch]) = j.produced
  /\ \A e \in Epochs : e > epoch => source[e] = <<>>
  /\ ContentTold(j, source[epoch])
  /\ \A q \in 0..(j.retained_from - 1) :
       q < j.released \/ <<epoch, q>> \in overwritten

(* data holds, from first on, the cells of boot e or marks what was lost. *)
Holds(cells, lost, e, first, data) ==
  \A k \in 1..Len(data) :
    \/ data[k] = cells[first + k]
    \/ data[k] = Overflow /\ <<e, first + k - 1>> \in lost

CaptureTold(e, c, cells, lost) ==
  /\ ~c.open => c = NoCapture
  /\ durable_cursor(c) <= Len(cells)
  /\ Holds(cells, lost, e, c.first, c.data)

DiskTold ==
  /\ \A e \in Epochs : CaptureTold(e, disk[e], source[e], overwritten)
  /\ j.released <= durable_cursor(disk[epoch])

(* A pull on the line asks for no more than is durable, and the current
   one is the one the session waits for. *)
RequestTold(r) ==
  /\ r.epoch <= epoch
  /\ r.release_before <= durable_cursor(disk[r.epoch])
  /\ r.release_before <= r.from
  /\ r.current => /\ h.phase = "AwaitingPull" /\ r.epoch = h.epoch
                  /\ r.from = h.pull.from
                  /\ r.release_before = h.pull.release_before

RequestsTold ==
  /\ \A i \in DOMAIN requests : RequestTold(requests[i])
  /\ \A i, k \in DOMAIN requests :
       requests[i].current /\ requests[k].current => i = k
  /\ reply # NoReply => /\ h.phase = "AwaitingPull"
                        /\ \A i \in DOMAIN requests : ~requests[i].current

(* The answer that waits for the host tells the truth about its boot. *)
DataTold ==
  /\ reply.decision \in Settleable
  /\ reply.data \in Seq(Cells) /\ Len(reply.data) > 0
  /\ reply.first = h.pull.from /\ reply.retained_from <= reply.first
  /\ reply.first + Len(reply.data) <= reply.produced
  /\ reply.decision = "SampleChunk" => Len(reply.data) <= MaxSamples
  /\ \A i \in 1..Len(reply.data) :
       reply.data[i] = source[reply.epoch][reply.first + i]
  /\ ~early /\ reply.epoch = epoch =>
       reply.first + Len(reply.data) <= release_limit(j)

LossTold ==
  /\ reply.decision = "RangeUnavailable"
  /\ h.pull.from < reply.retained_from
  /\ \A q \in h.pull.from..(reply.retained_from - 1) :
       <<reply.epoch, q>> \in overwritten
  /\ ~early /\ reply.epoch = epoch => reply.retained_from <= release_limit(j)

ReplyTold ==
  /\ reply.epoch \in Epochs /\ reply.epoch <= epoch
  /\ reply.retained_from \in Nat /\ reply.produced \in Nat
  /\ reply.released \in Nat /\ reply.first \in Nat
  /\ valid_state(reply)
  /\ reply.produced <= Len(source[reply.epoch])
  /\ \/ reply.decision = "StreamChanged"
     \/ reply.decision = "InvalidRelease" /\ early /\ reply.epoch = h.epoch
     \/ /\ reply.epoch = h.epoch
        /\ reply.epoch = epoch => h.pull.release_before <= j.released
        /\ \/ reply.decision = "NoData" /\ h.pull.from = reply.produced
           \/ LossTold
           \/ DataTold

(* The session's cursors and its capture. *)
PendingTold ==
  /\ h.pending.first = h.durable /\ record_end(h.pending) = h.received
  /\ durable_cursor(disk[h.epoch]) \in {h.durable, h.received}
  /\ Holds(source[h.epoch], overwritten, h.epoch, h.pending.first,
           h.pending.data)

SessionTold ==
  /\ h.epoch \in Epochs /\ h.epoch <= epoch /\ disk[h.epoch].open
  /\ h.released <= h.durable
  /\ h.received <= Len(source[h.epoch])
  /\ h.epoch = epoch => h.released <= j.released
  /\ h.phase = "Persisting" => PendingTold
  /\ h.phase # "Persisting" =>
       /\ h.received = durable_cursor(disk[h.epoch])
       /\ h.durable = durable_cursor(disk[h.epoch])
  /\ h.phase = "AwaitingPull" =>
       h.pull = [from |-> h.received, release_before |-> h.durable]

(* What recovery has read may be old, but was true. *)
SeenTold ==
  /\ Recovering /\ seen.epoch <= epoch
  /\ valid_state(seen) /\ seen.produced <= Len(source[seen.epoch])
  /\ seen.epoch = epoch => seen.released <= j.released
  /\ seen.released <= durable_cursor(disk[seen.epoch])
  /\ disk[seen.epoch].open => durable_cursor(disk[seen.epoch]) <= seen.produced

(* When no boot records before its capture exists, the node never refuses
   the release of what is durable. *)
WithinLimit ==
  ~early =>
    /\ \A e \in Epochs : ~disk[e].open => source[e] = <<>>
    /\ durable_cursor(disk[epoch]) <= release_limit(j)
    /\ h.phase # "Offline" /\ h.epoch = epoch => h.received <= release_limit(j)

ChainInv ==
  /\ ChainTypes
  /\ SourceTold
  /\ DiskTold
  /\ RequestsTold
  /\ reply # NoReply => ReplyTold
  /\ h.phase # "Offline" => SessionTold
  /\ seen # NoState => SeenTold
  /\ WithinLimit

------------------------
(* The steps of the node. *)

(* The cursor of a capture is a number. *)
LEMMA CursorNat ==
  ASSUME NEW c \in [first : Nat, data : Seq(Slots), open : BOOLEAN]
  PROVE  /\ durable_cursor(c) \in Nat /\ c.first <= durable_cursor(c)
         /\ Len(c.data) \in Nat
  BY DEF durable_cursor

(* The numbers of a consistent state of the chain. *)
LEMMA ChainNumbers ==
  ASSUME ChainTypes
  PROVE  /\ j.retained_from \in Nat /\ j.produced \in Nat
         /\ j.delivered \in Nat /\ j.released \in Nat
         /\ j.released <= j.retained_from /\ j.retained_from <= j.produced
         /\ j.delivered <= j.produced
         /\ release_limit(j) \in Nat
         /\ epoch \in Nat \ {0} /\ MaxEpoch \in Nat
         /\ \A e \in Epochs : /\ e \in Nat \ {0} /\ durable_cursor(disk[e]) \in Nat
                              /\ Len(source[e]) \in Nat
         /\ h.received \in Nat /\ h.durable \in Nat /\ h.released \in Nat
         /\ h.pull.from \in Nat /\ h.pull.release_before \in Nat
<1>1. /\ j.retained_from \in Nat /\ j.produced \in Nat
      /\ j.delivered \in Nat /\ j.released \in Nat
      /\ j.released <= j.retained_from /\ j.retained_from <= j.produced
      /\ j.delivered <= j.produced
  BY JournalParts DEF ChainTypes
<1>2. release_limit(j) \in Nat BY <1>1 DEF release_limit
<1>3. \A e \in Epochs : durable_cursor(disk[e]) \in Nat BY CursorNat DEF ChainTypes
<1>4. \A e \in Epochs : source[e] \in Seq(Cells) BY DEF ChainTypes
<1>5. \A e \in Epochs : Len(source[e]) \in Nat BY <1>4
<1>6. /\ epoch \in Nat \ {0} /\ MaxEpoch \in Nat
      /\ \A e \in Epochs : e \in Nat \ {0}
  BY ChainAssumption DEF ChainTypes, Epochs
<1>7. /\ h.received \in Nat /\ h.durable \in Nat /\ h.released \in Nat
      /\ h.pull.from \in Nat /\ h.pull.release_before \in Nat
  BY DEF ChainTypes, Sessions
<1> QED BY <1>1, <1>2, <1>3, <1>5, <1>6, <1>7

(* The chain is in order when it starts. *)
LEMMA ChainInit == Init => ChainInv
<1> SUFFICES ASSUME Init PROVE ChainInv OBVIOUS
<1>1. /\ j = EmptyJournal /\ epoch = 1 /\ requests = <<>> /\ reply = NoReply
      /\ h = Offline /\ seen = NoState /\ overwritten = {}
      /\ disk = [e \in Epochs |-> NoCapture]
      /\ source = [e \in Epochs |-> <<>>]
      /\ early \in BOOLEAN /\ 1 \in Epochs
  BY ChainAssumption DEF Init, Epochs
<1>2. /\ j.retained_from = 0 /\ j.produced = 0 /\ j.delivered = 0
      /\ j.released = 0
  BY <1>1 DEF EmptyJournal
<1>3. /\ NoCapture \in [first : Nat, data : Seq(Slots), open : BOOLEAN]
      /\ Offline \in Sessions /\ <<>> \in Seq(Cells)
      /\ <<>> \in Seq(PullRequest)
      /\ durable_cursor(NoCapture) = 0 /\ Len(<<>>) = 0
  BY DEF NoCapture, Offline, Sessions, NoPull, NoRecord, durable_cursor
<1>4. ChainTypes BY <1>1, <1>3, EmptyJournalInv DEF ChainTypes
<1>5. SourceTold BY <1>1, <1>2, <1>3 DEF SourceTold, ContentTold
<1>6. DiskTold
  <2>1. CaptureTold(1, NoCapture, <<>>, {}) BY <1>3 DEF CaptureTold, Holds, NoCapture
  <2>2. \A e : CaptureTold(e, NoCapture, <<>>, {})
    BY <1>3 DEF CaptureTold, Holds, NoCapture
  <2> QED BY <1>1, <1>2, <1>3, <2>2 DEF DiskTold
<1>7. RequestsTold BY <1>1 DEF RequestsTold
<1>8. WithinLimit BY <1>1, <1>2, <1>3 DEF WithinLimit, release_limit, Offline
<1> QED BY <1>1, <1>4, <1>5, <1>6, <1>7, <1>8 DEF ChainInv, Offline

(* A longer source and more losses tell what was told before. *)
LEMMA HoldsStill ==
  ASSUME NEW cells \in Seq(Cells), NEW more \in Seq(Cells),
         NEW lost, NEW also, lost \subseteq also,
         Len(cells) <= Len(more), \A i \in 1..Len(cells) : more[i] = cells[i],
         NEW e, NEW first \in Nat, NEW data \in Seq(Slots),
         first + Len(data) <= Len(cells), Holds(cells, lost, e, first, data)
  PROVE  Holds(more, also, e, first, data)
<1>1. Len(data) \in Nat /\ Len(cells) \in Nat OBVIOUS
<1>2. \A k \in 1..Len(data) : first + k \in 1..Len(cells) BY <1>1
<1> QED BY <1>2 DEF Holds

(* What the node may do to a boot: the source gives more, overload takes
   more, and the journal's cursors move on. *)
NodeMoves ==
  /\ UNCHANGED <<epoch, h, seen, disk, early>>
  /\ source' \in [Epochs -> Seq(Cells)]
  /\ \A e \in Epochs : /\ Len(source[e]) <= Len(source'[e])
                       /\ \A i \in 1..Len(source[e]) : source'[e][i] = source[e][i]
  /\ overwritten \subseteq overwritten'
  /\ JournalInv(j')
  /\ j.released <= j'.released /\ j.delivered <= j'.delivered
  /\ j.retained_from <= j'.retained_from
  /\ j'.released <= durable_cursor(disk[epoch])
  /\ ~early => \A e \in Epochs : ~disk[e].open => source'[e] = <<>>

(* Then what is on disk, in the session, read by recovery or in an answer
   under way stays true. *)
LEMMA NodeMovesKeep ==
  ASSUME ChainInv, NodeMoves
  PROVE  /\ requests' \in Seq(PullRequest) => ChainTypes'
         /\ DiskTold'
         /\ h'.phase # "Offline" => SessionTold'
         /\ seen' # NoState => SeenTold'
         /\ WithinLimit'
         /\ reply' = reply /\ reply' # NoReply => ReplyTold'
<1> USE DEF ChainInv
<1>0. ChainTypes /\ DiskTold /\ WithinLimit OBVIOUS
<1>1. /\ epoch' = epoch /\ h' = h /\ seen' = seen /\ disk' = disk
      /\ early' = early
      /\ \A e \in Epochs :
           /\ Len(source[e]) <= Len(source'[e])
           /\ \A i \in 1..Len(source[e]) : source'[e][i] = source[e][i]
           /\ source[e] \in Seq(Cells) /\ source'[e] \in Seq(Cells)
           /\ Len(source[e]) \in Nat /\ Len(source'[e]) \in Nat
      /\ overwritten \subseteq overwritten'
      /\ j.released <= j'.released /\ j.delivered <= j'.delivered
      /\ j.retained_from <= j'.retained_from
      /\ j'.released <= durable_cursor(disk[epoch])
  BY <1>0 DEF NodeMoves, ChainTypes
<1>2. /\ j.retained_from \in Nat /\ j.delivered \in Nat /\ j.released \in Nat
      /\ release_limit(j) \in Nat /\ epoch \in Epochs
      /\ \A e \in Epochs : durable_cursor(disk[e]) \in Nat
      /\ h.received \in Nat /\ h.pull.release_before \in Nat
      /\ h.released \in Nat /\ h.pull.from \in Nat
  BY <1>0, ChainNumbers DEF ChainTypes
<1>3. /\ j'.retained_from \in Nat /\ j'.delivered \in Nat /\ j'.released \in Nat
  BY JournalParts DEF NodeMoves
<1>4. release_limit(j') \in Nat /\ release_limit(j) <= release_limit(j')
  BY <1>1, <1>2, <1>3 DEF release_limit
<1>5. requests' \in Seq(PullRequest) => ChainTypes'
  BY <1>0, <1>1 DEF ChainTypes, NodeMoves
<1>6. DiskTold'
  <2> SUFFICES ASSUME NEW e \in Epochs
               PROVE  CaptureTold(e, disk[e], source'[e], overwritten')
    BY <1>1 DEF DiskTold
  <2>1. /\ CaptureTold(e, disk[e], source[e], overwritten)
        /\ disk[e].first \in Nat /\ disk[e].data \in Seq(Slots)
    BY <1>0 DEF DiskTold, ChainTypes
  <2>2. Holds(source'[e], overwritten', e, disk[e].first, disk[e].data)
    <3>1. disk[e].first + Len(disk[e].data) <= Len(source[e])
      BY <2>1 DEF CaptureTold, durable_cursor
    <3>2. /\ source[e] \in Seq(Cells) /\ source'[e] \in Seq(Cells)
          /\ overwritten \subseteq overwritten'
          /\ Len(source[e]) <= Len(source'[e])
          /\ \A i \in 1..Len(source[e]) : source'[e][i] = source[e][i]
      BY <1>1
    <3>3. Holds(source[e], overwritten, e, disk[e].first, disk[e].data)
      BY <2>1 DEF CaptureTold
    <3> QED BY <2>1, <3>1, <3>2, <3>3, HoldsStill
  <2> QED BY <1>1, <1>2, <2>1, <2>2 DEF CaptureTold
<1>7. ASSUME h'.phase # "Offline" PROVE SessionTold'
  <2>1. SessionTold BY <1>1, <1>7
  <2>2. /\ h.epoch \in Epochs /\ h.epoch <= epoch /\ disk[h.epoch].open
        /\ h.released <= h.durable
        /\ h.received <= Len(source[h.epoch])
    BY <2>1 DEF SessionTold
  <2>3. h.phase = "Persisting" => PendingTold'
    <3> SUFFICES ASSUME h.phase = "Persisting" PROVE PendingTold' OBVIOUS
    <3>1. PendingTold BY <2>1 DEF SessionTold
    <3>2. /\ h.pending.first \in Nat /\ h.pending.data \in Seq(Slots)
          /\ h.pending.first + Len(h.pending.data) <= Len(source[h.epoch])
      BY <1>0, <2>2, <3>1 DEF PendingTold, record_end, ChainTypes, Sessions
    <3>3. Holds(source'[h.epoch], overwritten', h.epoch, h.pending.first,
                h.pending.data)
      <4>1. /\ source[h.epoch] \in Seq(Cells) /\ source'[h.epoch] \in Seq(Cells)
            /\ overwritten \subseteq overwritten'
            /\ Len(source[h.epoch]) <= Len(source'[h.epoch])
            /\ \A i \in 1..Len(source[h.epoch]) :
                 source'[h.epoch][i] = source[h.epoch][i]
        BY <1>1, <2>2
      <4>2. Holds(source[h.epoch], overwritten, h.epoch, h.pending.first,
                  h.pending.data)
        BY <3>1 DEF PendingTold
      <4> QED BY <3>2, <4>1, <4>2, HoldsStill
    <3> QED BY <1>1, <3>1, <3>3 DEF PendingTold
  <2>4. h.received <= Len(source'[h.epoch]) BY SMTT(30), <1>1, <1>2, <2>2
  <2>5. h.epoch = epoch => h.released <= j'.released
    BY <1>1, <1>2, <1>3, <2>1 DEF SessionTold
  <2> QED BY <1>1, <2>1, <2>2, <2>3, <2>4, <2>5 DEF SessionTold
<1>8. ASSUME seen' # NoState PROVE SeenTold'
  <2>1. SeenTold BY <1>1, <1>8
  <2>2. seen.epoch \in Epochs /\ seen.produced \in Nat /\ seen.released \in Nat
    BY <1>0, <1>1, <1>8 DEF ChainTypes
  <2>3. seen.produced <= Len(source'[seen.epoch]) BY <1>1, <2>1, <2>2 DEF SeenTold
  <2>4. seen.epoch = epoch => seen.released <= j'.released
    BY <1>1, <1>2, <1>3, <2>1, <2>2 DEF SeenTold
  <2> QED BY <1>1, <2>1, <2>3, <2>4 DEF SeenTold, Recovering
<1>9. WithinLimit' BY <1>0, <1>1, <1>2, <1>4 DEF WithinLimit, NodeMoves
<1>10. ASSUME reply' = reply, reply' # NoReply PROVE ReplyTold'
  <2>1. ReplyTold BY <1>10
  <2>2. /\ reply.epoch \in Epochs /\ reply.epoch <= epoch
        /\ reply.retained_from \in Nat /\ reply.produced \in Nat
        /\ reply.released \in Nat /\ reply.first \in Nat
        /\ valid_state(reply) /\ reply.produced <= Len(source[reply.epoch])
    BY <2>1 DEF ReplyTold
  <2>3. reply.produced <= Len(source'[reply.epoch]) BY <1>1, <2>2
  <2>4. LossTold => LossTold'
    <3> SUFFICES ASSUME LossTold PROVE LossTold' OBVIOUS
    <3>1. ~early /\ reply.epoch = epoch => reply.retained_from <= release_limit(j')
      BY <1>2, <1>4, <2>2 DEF LossTold
    <3> QED BY <1>1, <1>10, <3>1 DEF LossTold
  <2>5. DataTold => DataTold'
    <3> SUFFICES ASSUME DataTold PROVE DataTold' OBVIOUS
    <3>1. /\ reply.data \in Seq(Cells) /\ Len(reply.data) \in Nat
          /\ reply.first + Len(reply.data) <= reply.produced
          /\ \A i \in 1..Len(reply.data) :
               reply.data[i] = source[reply.epoch][reply.first + i]
          /\ ~early /\ reply.epoch = epoch =>
               reply.first + Len(reply.data) <= release_limit(j)
      BY DEF DataTold
    <3>2. \A i \in 1..Len(reply.data) :
            reply.first + i \in 1..Len(source[reply.epoch])
      BY SMTT(30), <1>1, <2>2, <3>1
    <3>3. \A i \in 1..Len(reply.data) :
            reply.data[i] = source'[reply.epoch][reply.first + i]
      BY <1>1, <2>2, <3>1, <3>2
    <3>4. ~early /\ reply.epoch = epoch =>
            reply.first + Len(reply.data) <= release_limit(j')
      BY <1>2, <1>4, <2>2, <3>1
    <3> QED BY <1>1, <1>10, <3>3, <3>4 DEF DataTold
  <2>6. h.pull.release_before <= j.released => h.pull.release_before <= j'.released
    BY <1>1, <1>2, <1>3
  <2> QED BY <1>1, <1>10, <2>1, <2>2, <2>3, <2>4, <2>5, <2>6 DEF ReplyTold
<1> QED BY <1>5, <1>6, <1>7, <1>8, <1>9, <1>10

(* An accepted event is told to the end of this boot's source. *)
LEMMA AppendedTold ==
  ASSUME ChainInv, NEW result, NEW events \in Seq(Cells), Recording,
         Appended(result, events), AppendKeeps(j, result.journal),
         LossExact(j, result.journal),
         Len(events) = result.journal.produced - j.produced,
         \A q \in j.produced..(result.journal.produced - 1) :
           ShowsCell(result.journal, q, events[q - j.produced + 1])
  PROVE  ChainInv'
<1> DEFINE k == result.journal
           cells == source[epoch]
<1>1. /\ ChainTypes /\ SourceTold /\ DiskTold /\ RequestsTold /\ WithinLimit
  BY DEF ChainInv
<1>2. /\ j' = k /\ source' = [source EXCEPT ![epoch] = @ \o events]
      /\ overwritten' = overwritten \cup
           {<<epoch, q>> : q \in j.retained_from..(k.retained_from - 1)}
      /\ UNCHANGED <<epoch, requests, reply, h, seen, disk, crashes, early>>
  BY DEF Appended
<1>3. /\ JournalInv(k) /\ j.retained_from <= k.retained_from
      /\ k.retained_from <= j.produced /\ j.produced <= k.produced
      /\ k.delivered = j.delivered /\ k.released = j.released
      /\ ContentKept(j, k)
  BY DEF AppendKeeps, LossExact
<1>4. /\ j.retained_from \in Nat /\ j.produced \in Nat /\ j.released \in Nat
      /\ j.delivered \in Nat /\ epoch \in Epochs /\ epoch \in Nat
      /\ cells \in Seq(Cells) /\ Len(cells) = j.produced /\ JournalInv(j)
      /\ source \in [Epochs -> Seq(Cells)]
      /\ k.retained_from \in Nat /\ k.produced \in Nat
  BY <1>1, <1>3, ChainNumbers, JournalParts DEF ChainTypes, SourceTold
<1> HIDE DEF k
<1>5. /\ cells \o events \in Seq(Cells)
      /\ Len(cells \o events) = Len(cells) + Len(events)
      /\ \A i \in 1..Len(cells) : (cells \o events)[i] = cells[i]
  <2>1. cells \in Seq(Cells) BY <1>4
  <2> HIDE DEF cells
  <2> QED BY <2>1
<1>6. /\ source'[epoch] = cells \o events
      /\ \A e \in Epochs : e # epoch => source'[e] = source[e]
      /\ source' \in [Epochs -> Seq(Cells)]
  BY <1>2, <1>4, <1>5
<1>7. NodeMoves
  <2>1. \A e \in Epochs :
          /\ Len(source[e]) <= Len(source'[e])
          /\ \A i \in 1..Len(source[e]) : source'[e][i] = source[e][i]
    <3> SUFFICES ASSUME NEW e \in Epochs
                 PROVE  /\ Len(source[e]) <= Len(source'[e])
                        /\ \A i \in 1..Len(source[e]) :
                             source'[e][i] = source[e][i]
      OBVIOUS
    <3>1. Len(events) \in Nat /\ Len(source[e]) \in Nat BY <1>4
    <3>2. CASE e = epoch BY <1>5, <1>6, <3>1, <3>2
    <3>3. CASE e # epoch BY <1>6, <3>1, <3>3
    <3> QED BY <3>2, <3>3
  <2>2. ~early => \A e \in Epochs : ~disk[e].open => source'[e] = <<>>
    <3> SUFFICES ASSUME ~early, NEW e \in Epochs, ~disk[e].open
                 PROVE  source'[e] = <<>>
      OBVIOUS
    <3>1. e # epoch BY DEF Recording
    <3>2. source[e] = <<>> BY <1>1 DEF WithinLimit
    <3> QED BY <1>6, <3>1, <3>2
  <2>3. j'.released <= durable_cursor(disk[epoch]) BY <1>1, <1>2, <1>3 DEF DiskTold
  <2>4. overwritten \subseteq overwritten' BY <1>2
  <2> QED BY <1>2, <1>3, <1>4, <1>6, <2>1, <2>2, <2>3, <2>4 DEF NodeMoves
<1>8. SourceTold'
  <2>1. Len(source'[epoch]) = k.produced BY <1>3, <1>4, <1>5, <1>6 DEF k
  <2>2. \A e \in Epochs : e > epoch => source'[e] = <<>>
    BY <1>1, <1>4, <1>6 DEF SourceTold
  <2>3. ContentTold(k, source'[epoch])
    <3>1. ContentTold(j, cells) BY <1>1 DEF SourceTold
    <3>2. /\ Len(events) = k.produced - j.produced
          /\ \A q \in j.produced..(k.produced - 1) :
               ShowsCell(k, q, events[q - j.produced + 1])
      BY DEF k
    <3> HIDE DEF cells
    <3>3. ContentTold(k, cells \o events) BY <1>3, <1>4, <3>1, <3>2, ToldAppended
    <3> QED BY <1>6, <3>3
  <2>4. \A q \in 0..(k.retained_from - 1) :
          q < k.released \/ <<epoch, q>> \in overwritten'
    <3> SUFFICES ASSUME NEW q \in 0..(k.retained_from - 1)
                 PROVE  q < k.released \/ <<epoch, q>> \in overwritten'
      OBVIOUS
    <3>1. CASE q < j.retained_from
      <4>1. q \in 0..(j.retained_from - 1) BY <1>4, <3>1
      <4> QED BY <1>1, <1>2, <1>3, <4>1 DEF SourceTold
    <3>2. CASE ~(q < j.retained_from)
      <4>1. q \in j.retained_from..(k.retained_from - 1) BY <1>4, <3>2
      <4> QED BY <1>2, <4>1
    <3> QED BY <3>1, <3>2
  <2> QED BY <1>2, <2>1, <2>2, <2>3, <2>4 DEF SourceTold
<1>9. RequestsTold' BY <1>1, <1>2 DEF RequestsTold, RequestTold
<1>10. requests' \in Seq(PullRequest) /\ reply' = reply BY <1>1, <1>2 DEF ChainTypes
<1> QED BY <1>7, <1>8, <1>9, <1>10, NodeMovesKeep DEF ChainInv

(* The source presents a sample, a loss or a break. *)
LEMMA ProduceStep == ChainInv /\ Produce => ChainInv'
<1> SUFFICES ASSUME ChainInv, Produce PROVE ChainInv' OBVIOUS
<1>1. JournalInv(j) /\ j.produced \in Nat BY JournalParts DEF ChainInv, ChainTypes
<1>2. CASE ProduceSample
  <2>1. PICK r \in SampleRecords :
          /\ Recording /\ r.device_time_us = j.produced + 1
          /\ Appended(append_sample(j, j.produced, r), <<SampleOf(r)>>)
    BY <1>2 DEF ProduceSample
  <2> DEFINE result == append_sample(j, j.produced, r)
             k == result.journal
  <2>2. result.status = "Ok" BY <2>1 DEF Appended
  <2>3. /\ AppendKeeps(j, k) /\ k.produced = j.produced + 1
        /\ LossExact(j, k) /\ ShowsSample(k, j.produced, r)
    BY <1>1, <2>2, AppendSampleKeeps, AppendSampleShows
  <2> HIDE DEF result, k
  <2>4. ShowsCell(k, j.produced, SampleOf(r)) BY <2>1, <2>3, CellShown
  <2>5. <<SampleOf(r)>> \in Seq(Cells) /\ Len(<<SampleOf(r)>>) = 1
        /\ <<SampleOf(r)>>[1] = SampleOf(r)
    BY DEF Cells
  <2>6. \A q \in j.produced..(k.produced - 1) :
          ShowsCell(k, q, <<SampleOf(r)>>[q - j.produced + 1])
    <3>1. \A q \in j.produced..(k.produced - 1) :
            q = j.produced /\ q - j.produced + 1 = 1
      BY <1>1, <2>3
    <3> QED BY <2>4, <2>5, <3>1
  <2>7. Len(<<SampleOf(r)>>) = k.produced - j.produced BY <1>1, <2>3, <2>5
  <2> QED BY <2>1, <2>3, <2>5, <2>6, <2>7, AppendedTold DEF k, result
<1>3. CASE ProduceGap
  <2> DEFINE g == [first_missing |-> j.produced, missing_count |-> 1,
                   reason |-> "SourceLoss"]
             c == GapOf("SourceLoss")
             result == append_gap(j, g)
             k == result.journal
  <2>1. Recording /\ Appended(result, <<c>>) BY <1>3 DEF ProduceGap
  <2>2. result.status = "Ok" BY <2>1 DEF Appended
  <2>3. g \in GapRecord /\ g.reason = "SourceLoss" /\ g.missing_count = 1
    BY <1>1 DEF GapRecord, GapReason
  <2> HIDE DEF g
  <2>4. /\ AppendKeeps(j, k) /\ k.produced = j.produced + 1
        /\ LossExact(j, k)
        /\ \A q \in j.produced..(k.produced - 1) : ShowsGap(k, q, "SourceLoss")
    BY <1>1, <2>2, <2>3, AppendGapKeeps, AppendGapShows
  <2>5. c \in Cells BY DEF Cells, GapReason
  <2> HIDE DEF result, k
  <2>6. \A q \in j.produced..(k.produced - 1) : ShowsCell(k, q, c)
    BY <2>4, CellShown DEF c
  <2> HIDE DEF c
  <2>7. <<c>> \in Seq(Cells) /\ Len(<<c>>) = 1 /\ <<c>>[1] = c BY <2>5
  <2>8. \A q \in j.produced..(k.produced - 1) :
          ShowsCell(k, q, <<c>>[q - j.produced + 1])
    <3>1. \A q \in j.produced..(k.produced - 1) : q - j.produced + 1 = 1 BY <1>1, <2>4
    <3> QED BY <2>6, <2>7, <3>1
  <2>9. Len(<<c>>) = k.produced - j.produced BY <1>1, <2>4, <2>7
  <2> QED BY <2>1, <2>4, <2>7, <2>8, <2>9, AppendedTold DEF k
<1>4. CASE ProduceBreak
  <2> DEFINE b == [at_sequence |-> j.produced, reason |-> "Unknown"]
             c == BreakOf("Unknown")
             result == append_continuity_break(j, b)
             k == result.journal
  <2>1. Recording /\ Appended(result, <<c>>) BY <1>4 DEF ProduceBreak
  <2>2. result.status = "Ok" BY <2>1 DEF Appended
  <2>3. b \in ContinuityBreakRecord /\ b.reason = "Unknown"
    BY <1>1 DEF ContinuityBreakRecord, ContinuityBreakReason
  <2> HIDE DEF b
  <2>4. /\ AppendKeeps(j, k) /\ k.produced = j.produced + 1
        /\ LossExact(j, k) /\ ShowsBreak(k, j.produced, "Unknown")
    BY <1>1, <2>2, <2>3, AppendBreakKeeps, AppendBreakShows
  <2>5. c \in Cells BY DEF Cells, ContinuityBreakReason
  <2> HIDE DEF result, k
  <2>6. ShowsCell(k, j.produced, c) BY <2>4, CellShown DEF c
  <2> HIDE DEF c
  <2>7. <<c>> \in Seq(Cells) /\ Len(<<c>>) = 1 /\ <<c>>[1] = c BY <2>5
  <2>8. \A q \in j.produced..(k.produced - 1) :
          ShowsCell(k, q, <<c>>[q - j.produced + 1])
    <3>1. \A q \in j.produced..(k.produced - 1) :
            q = j.produced /\ q - j.produced + 1 = 1
      BY <1>1, <2>4
    <3> QED BY <2>6, <2>7, <3>1
  <2>9. Len(<<c>>) = k.produced - j.produced BY <1>1, <2>4, <2>7
  <2> QED BY <2>1, <2>4, <2>7, <2>8, <2>9, AppendedTold DEF k
<1> QED BY <1>2, <1>3, <1>4 DEF Produce

(* The rest of a line that is not empty. *)
LEMMA TailParts ==
  ASSUME NEW S, NEW q \in Seq(S), q # <<>>
  PROVE  /\ Tail(q) \in Seq(S) /\ Head(q) = q[1] /\ Head(q) \in S
         /\ 1 \in DOMAIN q
         /\ \A i \in DOMAIN Tail(q) : /\ i + 1 \in DOMAIN q /\ i + 1 # 1
                                      /\ Tail(q)[i] = q[i + 1]
         /\ \A i, k \in DOMAIN Tail(q) : i + 1 = k + 1 => i = k
<1>1. Len(q) \in Nat /\ Len(q) > 0 /\ DOMAIN q = 1..Len(q) OBVIOUS
<1>2. Tail(q) \in Seq(S) /\ Len(Tail(q)) = Len(q) - 1 BY <1>1
<1>3. DOMAIN Tail(q) = 1..(Len(q) - 1) BY <1>1, <1>2
<1>4. \A i \in 1..(Len(q) - 1) : Tail(q)[i] = q[i + 1] BY <1>1
<1>5. \A i \in 1..(Len(q) - 1) : i + 1 \in 1..Len(q) /\ i + 1 # 1 /\ i \in Int BY <1>1
<1> QED BY <1>1, <1>2, <1>3, <1>4, <1>5

(* Without its oldest request the line is still in order. *)
LEMMA LineShorter ==
  ASSUME ChainTypes, RequestsTold, requests # <<>>,
         UNCHANGED <<epoch, h, disk>>, requests' = Tail(requests),
         \/ reply' = reply
         \/ Head(requests).current
  PROVE  requests' \in Seq(PullRequest) /\ RequestsTold'
<1>1. requests \in Seq(PullRequest) BY DEF ChainTypes
<1>2. /\ requests' \in Seq(PullRequest) /\ Head(requests) = requests[1]
      /\ 1 \in DOMAIN requests
      /\ \A i \in DOMAIN requests' : /\ i + 1 \in DOMAIN requests /\ i + 1 # 1
                                     /\ requests'[i] = requests[i + 1]
      /\ \A i, k \in DOMAIN requests' : i + 1 = k + 1 => i = k
  BY <1>1, TailParts
<1>3. \A i \in DOMAIN requests' : RequestTold(requests'[i]) BY <1>2 DEF RequestsTold
<1>4. \A i, k \in DOMAIN requests' :
        requests'[i].current /\ requests'[k].current => i = k
  <2>1. \A i, k \in DOMAIN requests :
          requests[i].current /\ requests[k].current => i = k
    BY DEF RequestsTold
  <2> QED BY <1>2, <2>1
<1>5. reply' # NoReply => /\ h'.phase = "AwaitingPull"
                          /\ \A i \in DOMAIN requests' : ~requests'[i].current
  <2>1. CASE reply' = reply BY <1>2, <2>1 DEF RequestsTold
  <2>2. CASE Head(requests).current BY <1>2, <2>2 DEF RequestsTold, RequestTold
  <2> QED BY <2>1, <2>2
<1>6. RequestsTold' BY <1>3, <1>4, <1>5 DEF RequestsTold, RequestTold
<1> QED BY <1>2, <1>6

(* The node serves the oldest request on the line, old or current. *)
LEMMA HandleStep == ChainInv /\ HandleRequest => ChainInv'
<1> SUFFICES ASSUME ChainInv, HandleRequest PROVE ChainInv' OBVIOUS
<1> DEFINE r == Head(requests)
           command == [boot_epoch |-> r.epoch, from |-> r.from,
                       release_before |-> r.release_before,
                       max_samples |-> MaxSamples]
           p == prepare_pull(j, NewSession(epoch), command)
           settled == settle_response(p)
           k == settled.journal
           cells == source[epoch]
           limit == release_limit(j)
<1>1. /\ ChainTypes /\ SourceTold /\ DiskTold /\ RequestsTold /\ WithinLimit
  BY DEF ChainInv
<1>2. /\ requests # <<>> /\ j' = k
      /\ reply' = (IF r.current /\ settled.status = "Ok" THEN answer(p)
                   ELSE reply)
      /\ requests' = Tail(requests)
      /\ UNCHANGED <<epoch, h, seen, disk, source, overwritten, crashes, early>>
  BY DEF HandleRequest, planned
<1>3. /\ r = requests[1] /\ r \in PullRequest /\ 1 \in DOMAIN requests
  BY <1>1, <1>2, TailParts DEF ChainTypes
<1>4. RequestTold(r) BY <1>1, <1>3 DEF RequestsTold
<1>5. /\ j.retained_from \in Nat /\ j.produced \in Nat /\ j.released \in Nat
      /\ j.delivered \in Nat /\ limit \in Nat
      /\ epoch \in Epochs /\ epoch \in Nat \ {0}
      /\ \A e \in Epochs : /\ e \in Nat \ {0} /\ durable_cursor(disk[e]) \in Nat
                           /\ Len(source[e]) \in Nat
      /\ cells \in Seq(Cells) /\ Len(cells) = j.produced /\ JournalInv(j)
      /\ source \in [Epochs -> Seq(Cells)]
      /\ ContentTold(j, cells)
  BY <1>1, ChainNumbers DEF ChainTypes, SourceTold
<1>6. /\ r.epoch \in Epochs /\ r.from \in Nat /\ r.release_before \in Nat
      /\ r.release_before <= r.from
      /\ r.release_before <= durable_cursor(disk[r.epoch])
  BY <1>3, <1>4 DEF PullRequest, RequestTold
<1>7. /\ command \in PullCommand /\ command.max_samples # 0
      /\ command.boot_epoch = r.epoch /\ command.from = r.from
      /\ command.release_before = r.release_before
      /\ command.max_samples = MaxSamples
  BY <1>5, <1>6, PullAssumption DEF PullCommand
<1> HIDE DEF command
<1>8. /\ settled.status = "Ok" /\ JournalInv(k) /\ ContentKept(j, k)
      /\ j.retained_from <= k.retained_from /\ k.produced = j.produced
      /\ j.delivered <= k.delivered /\ j.released <= k.released
      /\ k.released \in {j.released, r.release_before}
      /\ k.retained_from \in {j.retained_from, k.released}
      /\ p.journal.retained_from = k.retained_from
      /\ p.journal.produced = k.produced
      /\ p.journal.released = k.released
      /\ PullAnswered(j, k, p, epoch, command, cells)
  <2>1. command.release_before <= command.from BY <1>6, <1>7
  <2> HIDE DEF r, cells
  <2> QED BY <1>5, <1>7, <2>1, PullServed
<1>9. /\ k.retained_from \in Nat /\ k.produced \in Nat /\ k.released \in Nat
      /\ k.delivered \in Nat /\ k.released <= k.retained_from
      /\ k.retained_from <= k.produced
  BY <1>8, JournalParts
<1> HIDE DEF p, settled, k, r
<1>10. k.released <= durable_cursor(disk[epoch])
  <2>1. j.released <= durable_cursor(disk[epoch]) BY <1>1 DEF DiskTold
  <2>2. CASE r.epoch = epoch BY <1>6, <1>8, <2>1, <2>2
  <2>3. CASE r.epoch # epoch
    <3>1. k = j BY <1>7, <1>8, <2>3 DEF PullAnswered
    <3> QED BY <2>1, <3>1
  <2> QED BY <2>2, <2>3
<1>11. NodeMoves
  <2>1. \A e \in Epochs : /\ Len(source[e]) <= Len(source'[e])
                          /\ \A i \in 1..Len(source[e]) :
                               source'[e][i] = source[e][i]
    BY <1>2, <1>5
  <2>2. ~early => \A e \in Epochs : ~disk[e].open => source'[e] = <<>>
    BY <1>1, <1>2 DEF WithinLimit
  <2> QED BY <1>2, <1>5, <1>8, <1>10, <2>1, <2>2 DEF NodeMoves
<1>12. SourceTold'
  <2>1. ContentTold(k, cells)
    <3> HIDE DEF cells
    <3> QED BY <1>5, <1>8, ToldKept
  <2>2. \A q \in 0..(k.retained_from - 1) :
          q < k.released \/ <<epoch, q>> \in overwritten
    <3> SUFFICES ASSUME NEW q \in 0..(k.retained_from - 1), ~(q < k.released)
                 PROVE  <<epoch, q>> \in overwritten
      OBVIOUS
    <3>1. k.retained_from = j.retained_from /\ ~(q < j.released) BY <1>5, <1>8, <1>9
    <3> QED BY <1>1, <3>1 DEF SourceTold
  <2> QED BY <1>1, <1>2, <1>8, <2>1, <2>2 DEF SourceTold
<1>13. requests' \in Seq(PullRequest) /\ RequestsTold' BY <1>1, <1>2, LineShorter DEF r
<1>14. ASSUME reply' # NoReply PROVE ReplyTold'
  <2>1. CASE reply' = reply BY <1>11, <1>14, <2>1, NodeMovesKeep
  <2>2. CASE reply' = answer(p) /\ r.current
    <3>1. /\ h.phase = "AwaitingPull" /\ r.epoch = h.epoch
          /\ r.from = h.pull.from /\ r.release_before = h.pull.release_before
      BY <1>4, <2>2 DEF RequestTold
    <3>2. /\ SessionTold /\ h.received = durable_cursor(disk[h.epoch])
          /\ h.pull.from = h.received /\ h.received <= Len(source[h.epoch])
      BY <3>1 DEF ChainInv, SessionTold
    <3>3. /\ reply'.decision = p.decision /\ reply'.epoch = epoch
          /\ reply'.retained_from = k.retained_from
          /\ reply'.produced = k.produced /\ reply'.released = k.released
          /\ reply'.data = view_data(p.journal, p.view)
          /\ reply'.first = IF p.decision \in Settleable
                            THEN p.view.first_sequence ELSE 0
      BY <1>8, <2>2 DEF answer
    <3>4. valid_state(reply') BY <1>9, <3>3 DEF valid_state
    <3>5. reply'.produced <= Len(source'[reply'.epoch]) BY <1>2, <1>5, <1>8, <3>3
    <3>6. release_limit(k) \in Nat /\ k.retained_from <= release_limit(k)
          /\ k.delivered <= release_limit(k)
      BY <1>9 DEF release_limit
    <3>7. CASE p.decision = "StreamChanged"
      <4>1. reply'.first \in Nat BY <3>3, <3>7 DEF Settleable
      <4> QED BY SMTT(30), <1>2, <1>5, <1>9, <3>3, <3>4, <3>5, <3>7, <4>1 DEF ReplyTold
    <3>8. CASE /\ p.decision = "InvalidRelease" /\ r.epoch = epoch
               /\ r.release_before > limit
      <4>1. early
        <5> SUFFICES ASSUME ~early PROVE FALSE BY <1>1 DEF ChainTypes
        <5>1. durable_cursor(disk[epoch]) <= limit BY <1>1 DEF WithinLimit
        <5> HIDE DEF limit
        <5> QED BY <1>5, <1>6, <3>8, <5>1
      <4>2. reply'.first \in Nat BY <3>3, <3>8 DEF Settleable
      <4>3. /\ reply'.epoch \in Epochs /\ reply'.epoch <= epoch'
            /\ reply'.retained_from \in Nat /\ reply'.produced \in Nat
            /\ reply'.released \in Nat
        BY SMTT(30), <1>2, <1>5, <1>9, <3>3
      <4>4. /\ reply'.decision = "InvalidRelease" /\ early'
            /\ reply'.epoch = h'.epoch
        BY <1>2, <3>1, <3>3, <3>8, <4>1
      <4> QED BY <3>4, <3>5, <4>2, <4>3, <4>4 DEF ReplyTold
    <3>9. CASE /\ r.epoch = epoch /\ r.release_before <= k.released
               /\ p.decision = "NoData" /\ r.from = k.produced
      <4>1. reply'.first \in Nat BY <3>3, <3>9 DEF Settleable
      <4> QED BY SMTT(30), <1>2, <1>5, <1>9, <3>1, <3>3, <3>4, <3>5, <3>9, <4>1
              DEF ReplyTold
    <3>10. CASE /\ r.epoch = epoch /\ r.release_before <= k.released
                /\ p.decision = "RangeUnavailable" /\ r.from < k.retained_from
      <4>1. reply'.first \in Nat BY <3>3, <3>10 DEF Settleable
      <4>2. \A q \in r.from..(k.retained_from - 1) :
              <<epoch, q>> \in overwritten'
        <5> SUFFICES ASSUME NEW q \in r.from..(k.retained_from - 1)
                     PROVE  <<epoch, q>> \in overwritten'
          OBVIOUS
        <5>1. q \in 0..(k.retained_from - 1) /\ ~(q < k.released)
          BY <1>5, <1>6, <1>9, <1>10, <3>1, <3>2, <3>10
        <5> QED BY <1>2, <1>12, <5>1 DEF SourceTold
      <4>3. LossTold' BY <1>2, <3>1, <3>3, <3>6, <3>10, <4>2 DEF LossTold
      <4> QED BY <1>2, <1>5, <1>9, <3>1, <3>3, <3>4, <3>5, <3>10, <4>1, <4>3
              DEF ReplyTold
    <3>11. CASE /\ r.epoch = epoch /\ p.decision = "CursorAhead"
                /\ r.from > k.produced
      BY <1>5, <1>6, <1>8, <1>9, <3>1, <3>2, <3>11
    <3>12. CASE LET data == view_data(p.journal, p.view)
                IN  /\ r.epoch = epoch /\ r.release_before <= k.released
                    /\ p.decision \in Settleable
                    /\ p.view.first_sequence = r.from
                    /\ k.retained_from <= r.from
                    /\ data \in Seq(Cells) /\ Len(data) > 0
                    /\ r.from + Len(data) <= k.produced
                    /\ r.from + Len(data) <= k.delivered
                    /\ p.decision = "SampleChunk" => Len(data) <= MaxSamples
                    /\ \A i \in 1..Len(data) : data[i] = cells[r.from + i]
      <4> DEFINE data == view_data(p.journal, p.view)
      <4>1. reply'.first = r.from /\ reply'.data = data BY <3>3, <3>12
      <4>2. r.from + Len(data) <= release_limit(k)
        <5>1. Len(data) \in Nat BY <3>12
        <5> HIDE DEF data
        <5>2. r.from + Len(data) <= k.delivered BY <3>12 DEF data
        <5> QED BY <1>6, <1>9, <3>6, <5>1, <5>2
      <4> HIDE DEF data
      <4>3. /\ p.decision \in Settleable /\ k.retained_from <= r.from
            /\ data \in Seq(Cells) /\ Len(data) > 0
            /\ r.from + Len(data) <= k.produced
            /\ p.decision = "SampleChunk" => Len(data) <= MaxSamples
            /\ \A i \in 1..Len(data) : data[i] = source[epoch][r.from + i]
        BY <3>12 DEF data
      <4>4. DataTold'
        <5>1. \A i \in 1..Len(reply'.data) :
                reply'.data[i] = source'[reply'.epoch][reply'.first + i]
          BY <1>2, <3>3, <4>1, <4>3
        <5>2. reply'.first = h'.pull.from BY <1>2, <3>1, <4>1
        <5> QED BY <1>2, <3>3, <4>1, <4>2, <4>3, <5>1, <5>2 DEF DataTold
      <4>5. /\ reply'.epoch \in Epochs /\ reply'.epoch <= epoch'
            /\ reply'.retained_from \in Nat /\ reply'.produced \in Nat
            /\ reply'.released \in Nat /\ reply'.first \in Nat
        <5>1. reply'.first \in Nat BY <1>6, <4>1
        <5>2. reply'.epoch = epoch' /\ epoch \in Epochs /\ epoch' <= epoch'
          BY <1>2, <1>5, <3>3
        <5>3. /\ reply'.retained_from \in Nat /\ reply'.produced \in Nat
              /\ reply'.released \in Nat
          BY <1>9, <3>3
        <5> QED BY <1>2, <5>1, <5>2, <5>3
      <4>6. /\ reply'.epoch = h'.epoch
            /\ h'.pull.release_before <= j'.released
        BY <1>2, <3>1, <3>3, <3>12
      <4> QED BY <3>4, <3>5, <4>4, <4>5, <4>6 DEF ReplyTold
    <3> QED BY <1>7, <1>8, <3>7, <3>8, <3>9, <3>10, <3>11, <3>12
            DEF PullAnswered
  <2> QED BY <1>2, <2>1, <2>2
<1> QED BY <1>11, <1>12, <1>13, <1>14, NodeMovesKeep DEF ChainInv

(* A reboot forgets the journal and begins an epoch nothing is known of. *)
LEMMA RebootStep == ChainInv /\ NodeReboots => ChainInv'
<1> SUFFICES ASSUME ChainInv, NodeReboots PROVE ChainInv' OBVIOUS
<1>1. /\ ChainTypes /\ SourceTold /\ DiskTold /\ RequestsTold /\ WithinLimit
  BY DEF ChainInv
<1>2. /\ epoch < MaxEpoch /\ epoch' = epoch + 1 /\ j' = EmptyJournal
      /\ UNCHANGED <<requests, reply, h, seen, disk, source, overwritten,
                     crashes, early>>
  BY DEF NodeReboots
<1>3. /\ epoch \in Nat \ {0} /\ MaxEpoch \in Nat /\ epoch \in Epochs
      /\ \A e \in Epochs : /\ e \in Nat \ {0} /\ durable_cursor(disk[e]) \in Nat
                           /\ Len(source[e]) \in Nat
  BY <1>1, ChainNumbers DEF ChainTypes
<1>4. /\ epoch' \in Epochs /\ epoch' > epoch
      /\ \A e \in Epochs : e <= epoch => e <= epoch' /\ e # epoch'
      /\ \A e \in Epochs : e > epoch' => e > epoch
  BY <1>2, <1>3 DEF Epochs
<1>5. /\ j'.retained_from = 0 /\ j'.produced = 0 /\ j'.delivered = 0
      /\ j'.released = 0 /\ JournalInv(j')
  BY <1>2, EmptyJournalInv DEF EmptyJournal
<1>6. source[epoch'] = <<>> /\ Len(source[epoch']) = 0 BY <1>1, <1>4 DEF SourceTold
<1>7. durable_cursor(disk[epoch']) = 0
  <2>1. durable_cursor(disk[epoch']) <= Len(source[epoch'])
    BY <1>1, <1>4 DEF DiskTold, CaptureTold
  <2> QED BY <1>3, <1>4, <1>6, <2>1
<1>8. ChainTypes' BY <1>1, <1>2, <1>4, <1>5 DEF ChainTypes
<1>9. SourceTold' BY <1>1, <1>2, <1>4, <1>5, <1>6 DEF SourceTold, ContentTold
<1>10. DiskTold' BY <1>1, <1>2, <1>5, <1>7 DEF DiskTold
<1>11. RequestsTold'
  <2>1. \A i \in DOMAIN requests : requests[i].epoch \in Epochs
    <3>1. \A i \in DOMAIN requests : requests[i] \in PullRequest BY <1>1 DEF ChainTypes
    <3> QED BY <3>1 DEF PullRequest
  <2> QED BY <1>1, <1>2, <1>4, <2>1 DEF RequestsTold, RequestTold
<1>12. ASSUME reply' # NoReply PROVE ReplyTold'
  <2>1. ReplyTold BY <1>2, <1>12 DEF ChainInv
  <2>2. reply.epoch \in Epochs /\ reply.epoch <= epoch' /\ reply.epoch # epoch'
    BY <1>4, <2>1 DEF ReplyTold
  <2>3. (DataTold => DataTold') /\ (LossTold => LossTold')
    BY <1>2, <2>2 DEF DataTold, LossTold
  <2> QED BY <1>2, <2>1, <2>2, <2>3 DEF ReplyTold
<1>13. ASSUME h'.phase # "Offline" PROVE SessionTold'
  <2>1. SessionTold BY <1>2, <1>13 DEF ChainInv
  <2>2. h.epoch \in Epochs /\ h.epoch <= epoch' /\ h.epoch # epoch'
    BY <1>4, <2>1 DEF SessionTold
  <2> QED BY <1>2, <2>1, <2>2 DEF SessionTold, PendingTold
<1>14. ASSUME seen' # NoState PROVE SeenTold'
  <2>1. SeenTold /\ seen.epoch \in Epochs BY <1>1, <1>2, <1>14 DEF ChainInv, ChainTypes
  <2>2. seen.epoch <= epoch' /\ seen.epoch # epoch' BY <1>4, <2>1 DEF SeenTold
  <2> QED BY <1>2, <2>1, <2>2 DEF SeenTold, Recovering
<1>15. WithinLimit'
  <2>1. release_limit(j') = 0 BY <1>5 DEF release_limit
  <2>2. h.phase # "Offline" => h.epoch # epoch' BY <1>4 DEF ChainInv, SessionTold
  <2> QED BY <1>1, <1>2, <1>7, <2>1, <2>2 DEF WithinLimit
<1> QED BY <1>8, <1>9, <1>10, <1>11, <1>12, <1>13, <1>14, <1>15 DEF ChainInv

------------------------
(* The line and the host. *)

(* What the host and the line never touch: the node and its boots. *)
NodeStill == UNCHANGED <<j, epoch, source, overwritten, early>>

(* Of a step that is not the node's, it remains to show the rest. *)
LEMMA HostMovesKeep ==
  ASSUME ChainInv, NodeStill,
         requests' \in Seq(PullRequest), h' \in Sessions,
         disk' \in [Epochs -> [first : Nat, data : Seq(Slots), open : BOOLEAN]],
         seen' # NoState =>
           seen' \in [epoch : Epochs, retained_from : Nat, produced : Nat,
                      released : Nat],
         RequestsTold',
         reply' # NoReply => ReplyTold',
         h'.phase # "Offline" => SessionTold',
         seen' # NoState => SeenTold',
         DiskTold', WithinLimit'
  PROVE  ChainInv'
<1>1. ChainTypes' BY DEF ChainInv, ChainTypes, NodeStill
<1>2. SourceTold' BY DEF ChainInv, SourceTold, NodeStill
<1> QED BY <1>1, <1>2 DEF ChainInv

(* A capture that stays keeps what is told of it. *)
LEMMA DiskStill ==
  ASSUME ChainInv, NodeStill, disk' = disk
  PROVE  /\ disk' \in [Epochs -> [first : Nat, data : Seq(Slots),
                                  open : BOOLEAN]]
         /\ DiskTold'
         /\ h'.phase = "Offline" => WithinLimit'
         /\ h'.phase # "Offline" /\ h.phase # "Offline" /\ h'.epoch = h.epoch
              /\ h'.received = h.received => WithinLimit'
<1>1. ChainTypes /\ DiskTold /\ WithinLimit BY DEF ChainInv
<1> QED BY <1>1 DEF NodeStill, ChainTypes, DiskTold, WithinLimit

(* The host gives its current request up. *)
LEMMA ForgetTold ==
  ASSUME ChainInv, NodeStill, Forget,
         \A e \in Epochs : disk'[e] = disk[e]
  PROVE  requests' \in Seq(PullRequest) /\ RequestsTold' /\ reply' = NoReply
<1>1. /\ requests' = [k \in DOMAIN requests |->
                        [requests[k] EXCEPT !.current = FALSE]]
      /\ reply' = NoReply
  BY DEF Forget
<1>2. /\ requests \in Seq(PullRequest)
      /\ \A i \in DOMAIN requests : requests[i] \in PullRequest
  BY DEF ChainInv, ChainTypes
<1>3. \A i \in DOMAIN requests :
        LET r == requests[i]
            f == [r EXCEPT !.current = FALSE]
        IN  /\ f \in PullRequest /\ f.current = FALSE /\ f.epoch = r.epoch
            /\ f.from = r.from /\ f.release_before = r.release_before
            /\ r.epoch \in Epochs
  BY <1>2 DEF PullRequest
<1>4. /\ DOMAIN requests' = DOMAIN requests
      /\ \A i \in DOMAIN requests :
           /\ requests'[i] \in PullRequest /\ requests'[i].current = FALSE
           /\ requests'[i].epoch = requests[i].epoch
           /\ requests'[i].from = requests[i].from
           /\ requests'[i].release_before = requests[i].release_before
           /\ requests[i].epoch \in Epochs
  BY <1>1, <1>3
<1>5. requests' \in Seq(PullRequest)
  <2>1. DOMAIN requests = 1..Len(requests) /\ Len(requests) \in Nat BY <1>2
  <2>2. requests' \in [1..Len(requests) -> PullRequest] BY <1>1, <1>4, <2>1
  <2> QED BY <2>1, <2>2
<1>6. RequestsTold'
  <2>1. \A i \in DOMAIN requests : RequestTold(requests[i])
    BY DEF ChainInv, RequestsTold
  <2>2. \A i \in DOMAIN requests' :
          /\ requests'[i].epoch <= epoch'
          /\ requests'[i].release_before
               <= durable_cursor(disk'[requests'[i].epoch])
          /\ requests'[i].release_before <= requests'[i].from
          /\ ~requests'[i].current
    BY <1>4, <2>1 DEF RequestTold, NodeStill
  <2> QED BY <1>1, <2>2 DEF RequestsTold, RequestTold
<1> QED BY <1>1, <1>5, <1>6

(* A request is lost. *)
LEMMA LoseStep == ChainInv /\ LoseRequest => ChainInv'
<1> SUFFICES ASSUME ChainInv, LoseRequest PROVE ChainInv' OBVIOUS
<1>1. /\ requests # <<>> /\ requests' = Tail(requests)
      /\ UNCHANGED <<j, epoch, reply, h, seen, disk, source, overwritten,
                     crashes, early>>
  BY DEF LoseRequest
<1>2. ChainTypes /\ RequestsTold /\ DiskTold /\ WithinLimit BY DEF ChainInv
<1>3. requests' \in Seq(PullRequest) /\ RequestsTold' BY <1>1, <1>2, LineShorter
<1>4. h' \in Sessions /\ NodeStill /\ DiskTold' /\ WithinLimit'
  BY <1>1, <1>2, DiskStill DEF ChainTypes, NodeStill, WithinLimit
<1>5. /\ reply' # NoReply => ReplyTold'
      /\ h'.phase # "Offline" => SessionTold'
      /\ seen' # NoState => SeenTold'
  BY <1>1 DEF ChainInv, ReplyTold, LossTold, DataTold, SessionTold, PendingTold,
              SeenTold, Recovering
<1> QED BY <1>1, <1>2, <1>3, <1>4, <1>5, HostMovesKeep DEF ChainTypes

(* The host asks for what follows what it received. *)
LEMMA PullStep == ChainInv /\ Pull => ChainInv'
<1> SUFFICES ASSUME ChainInv, Pull PROVE ChainInv' OBVIOUS
<1> DEFINE request == [epoch |-> h.epoch, from |-> h.received,
                       release_before |-> h.durable, current |-> TRUE]
<1>1. /\ h.phase = "Ready" /\ h' = begin_pull(h)
      /\ requests' = Append(requests,
           [epoch |-> h'.epoch, from |-> h'.pull.from,
            release_before |-> h'.pull.release_before, current |-> TRUE])
      /\ UNCHANGED <<j, epoch, reply, seen, disk, source, overwritten, crashes,
                     early>>
  BY DEF Pull
<1>2. ChainTypes /\ RequestsTold /\ SessionTold BY <1>1 DEF ChainInv
<1>3. /\ h' = [h EXCEPT !.phase = "AwaitingPull",
                        !.pull = [from |-> h.received,
                                  release_before |-> h.durable]]
      /\ h \in Sessions
  BY <1>1, <1>2 DEF begin_pull, ChainTypes
<1>4. /\ h' \in Sessions /\ h'.phase = "AwaitingPull" /\ h'.epoch = h.epoch
      /\ h'.received = h.received /\ h'.durable = h.durable
      /\ h'.released = h.released /\ h'.pending = h.pending
      /\ h'.pull = [from |-> h.received, release_before |-> h.durable]
      /\ h.received \in Nat /\ h.durable \in Nat
  BY <1>3 DEF Sessions
<1>5. requests' = Append(requests, request) BY <1>1, <1>4
<1>6. /\ h.epoch \in Epochs /\ h.epoch <= epoch
      /\ h.received = durable_cursor(disk[h.epoch])
      /\ h.durable = durable_cursor(disk[h.epoch])
  BY <1>1, <1>2 DEF SessionTold
<1>7. /\ requests \in Seq(PullRequest) /\ request \in PullRequest
  BY <1>2, <1>4, <1>6 DEF ChainTypes, PullRequest
<1>8. /\ requests' \in Seq(PullRequest)
      /\ \A i \in DOMAIN requests' :
           \/ i \in DOMAIN requests /\ requests'[i] = requests[i]
           \/ i = Len(requests) + 1 /\ requests'[i] = request
  <2> HIDE DEF request
  <2> QED BY <1>5, <1>7
<1>9. reply = NoReply /\ \A i \in DOMAIN requests : ~requests[i].current
  BY <1>1, <1>2 DEF RequestsTold, RequestTold
<1>10. RequestsTold'
  <2>1. \A i \in DOMAIN requests' :
          /\ requests'[i].epoch <= epoch
          /\ requests'[i].release_before
               <= durable_cursor(disk[requests'[i].epoch])
          /\ requests'[i].release_before <= requests'[i].from
    BY <1>2, <1>4, <1>6, <1>8 DEF RequestsTold, RequestTold
  <2>2. \A i \in DOMAIN requests' : requests'[i].current =>
          requests'[i] = request /\ i = Len(requests) + 1
    BY <1>8, <1>9
  <2> QED BY <1>1, <1>4, <1>9, <2>1, <2>2 DEF RequestsTold, RequestTold
<1>11. NodeStill /\ disk' = disk BY <1>1 DEF NodeStill
<1>12. DiskTold' /\ WithinLimit' BY <1>1, <1>4, <1>11, DiskStill
<1>13. SessionTold' BY <1>1, <1>2, <1>4, <1>6 DEF SessionTold
<1>14. seen' = NoState BY <1>1 DEF ChainInv, SeenTold, Recovering
<1>15. reply' = NoReply BY <1>1, <1>9
<1> QED BY <1>2, <1>4, <1>8, <1>10, <1>11, <1>12, <1>13, <1>14, <1>15,
           HostMovesKeep DEF ChainTypes

(* The deadline passes, with or without an answer under way. *)
LEMMA UncertainStep == ChainInv /\ AttemptUncertain => ChainInv'
<1> SUFFICES ASSUME ChainInv, AttemptUncertain PROVE ChainInv' OBVIOUS
<1>1. /\ h.phase = "AwaitingPull" /\ h' = abandon_pull_for_retry(h) /\ Forget
      /\ UNCHANGED <<j, epoch, seen, disk, source, overwritten, crashes, early>>
  BY DEF AttemptUncertain
<1>2. ChainTypes /\ SessionTold BY <1>1 DEF ChainInv
<1>3. /\ h' \in Sessions /\ h'.phase = "Ready" /\ h'.epoch = h.epoch
      /\ h'.received = h.received /\ h'.durable = h.durable
      /\ h'.released = h.released
  BY <1>1, <1>2 DEF abandon_pull_for_retry, NoPull, Sessions, ChainTypes
<1>4. NodeStill /\ disk' = disk BY <1>1 DEF NodeStill
<1>5. DiskTold' /\ WithinLimit' BY <1>1, <1>3, <1>4, DiskStill
<1>6. requests' \in Seq(PullRequest) /\ RequestsTold' /\ reply' = NoReply
  BY <1>1, <1>4, ForgetTold
<1>7. SessionTold' BY <1>1, <1>2, <1>3 DEF SessionTold
<1>8. seen' = NoState BY <1>1 DEF ChainInv, SeenTold, Recovering
<1> QED BY <1>2, <1>3, <1>4, <1>5, <1>6, <1>7, <1>8, HostMovesKeep
        DEF ChainTypes

(* A session that stops waiting, with no request of its own on the line. *)
LEMMA AcceptSettles ==
  ASSUME ChainInv, Accept
  PROVE  /\ NodeStill /\ disk' = disk /\ reply' = NoReply /\ seen' = NoState
         /\ requests' \in Seq(PullRequest) /\ RequestsTold' /\ DiskTold'
         /\ ChainTypes /\ SessionTold /\ WithinLimit /\ ReplyTold
<1>1. /\ h.phase = "AwaitingPull" /\ reply # NoReply /\ reply' = NoReply
      /\ UNCHANGED <<j, epoch, requests, seen, disk, source, overwritten,
                     crashes, early>>
  BY DEF Accept
<1>2. /\ ChainTypes /\ SessionTold /\ WithinLimit /\ ReplyTold /\ RequestsTold
      /\ seen = NoState
  BY <1>1 DEF ChainInv, SeenTold, Recovering
<1>3. NodeStill /\ disk' = disk BY <1>1 DEF NodeStill
<1>4. RequestsTold'
  <2>1. \A i \in DOMAIN requests : ~requests[i].current BY <1>1, <1>2 DEF RequestsTold
  <2> QED BY <1>1, <1>2, <2>1 DEF RequestsTold, RequestTold
<1> QED BY <1>1, <1>2, <1>3, <1>4, DiskStill DEF ChainTypes

(* A record that is accounted for is exact, and pending. *)
LEMMA AccountTold ==
  ASSUME ChainInv, Accept, NEW data \in Seq(Slots),
         h' = account(h, h.pull.from, data),
         h.pull.from + Len(data) <= Len(source[h.epoch]),
         Holds(source[h.epoch], overwritten, h.epoch, h.pull.from, data),
         h.epoch = epoch => h.pull.release_before <= j.released,
         ~early /\ h.epoch = epoch =>
           h.pull.from + Len(data) <= release_limit(j)
  PROVE  ChainInv'
<1>1. /\ NodeStill /\ disk' = disk /\ reply' = NoReply /\ seen' = NoState
      /\ requests' \in Seq(PullRequest) /\ RequestsTold' /\ DiskTold'
      /\ ChainTypes /\ SessionTold /\ WithinLimit
  BY AcceptSettles
<1>2. /\ h.phase = "AwaitingPull" /\ h \in Sessions
      /\ h.received \in Nat /\ h.durable \in Nat /\ h.released \in Nat
      /\ Len(data) \in Nat
  BY <1>1 DEF Accept, ChainTypes, Sessions
<1>3. /\ h.epoch \in Epochs /\ h.epoch <= epoch /\ disk[h.epoch].open
      /\ h.released <= h.durable
      /\ h.received = durable_cursor(disk[h.epoch])
      /\ h.durable = durable_cursor(disk[h.epoch])
      /\ h.pull = [from |-> h.received, release_before |-> h.durable]
      /\ h.pull.from = h.received /\ h.pull.release_before = h.durable
  BY <1>1, <1>2 DEF SessionTold
<1>4. mark_released_ok(h) BY <1>2, <1>3 DEF mark_released_ok
<1>5. h' = [h EXCEPT !.phase = "Persisting",
                     !.received = h.received + Len(data),
                     !.released = h.durable, !.pull = NoPull,
                     !.pending = [first |-> h.received, data |-> data]]
  BY <1>3, <1>4 DEF account
<1>6. /\ h' \in Sessions /\ h'.phase = "Persisting" /\ h'.epoch = h.epoch
      /\ h'.received = h.received + Len(data) /\ h'.durable = h.durable
      /\ h'.released = h.durable
      /\ h'.pending = [first |-> h.received, data |-> data]
  <2> DEFINE end == h.received + Len(data)
             record == [first |-> h.received, data |-> data]
  <2>1. /\ end \in Nat /\ record \in [first : Nat, data : Seq(Slots)]
        /\ NoPull \in [from : Nat, release_before : Nat]
    BY <1>2 DEF NoPull
  <2>2. h' = [h EXCEPT !.phase = "Persisting", !.received = end,
                       !.released = h.durable, !.pull = NoPull,
                       !.pending = record]
    BY <1>5
  <2> HIDE DEF end, record
  <2>3. /\ h' \in Sessions /\ h'.phase = "Persisting" /\ h'.epoch = h.epoch
        /\ h'.received = end /\ h'.durable = h.durable
        /\ h'.released = h.durable /\ h'.pending = record
    BY ZenonT(30), <1>2, <2>1, <2>2 DEF Sessions
  <2> QED BY <2>3 DEF end, record
<1>7. PendingTold' BY <1>1, <1>3, <1>6 DEF PendingTold, record_end, NodeStill
<1>8. SessionTold' BY <1>1, <1>2, <1>3, <1>6, <1>7 DEF SessionTold, NodeStill
<1>9. WithinLimit' BY <1>1, <1>3, <1>6 DEF WithinLimit, NodeStill
<1> QED BY <1>1, <1>6, <1>8, <1>9, HostMovesKeep DEF ChainTypes

(* Every answer of the node is one the host can use. *)
LEMMA AcceptStep == ChainInv /\ Accept => ChainInv'
<1> SUFFICES ASSUME ChainInv, Accept PROVE ChainInv' OBVIOUS
<1>1. /\ NodeStill /\ disk' = disk /\ reply' = NoReply /\ seen' = NoState
      /\ requests' \in Seq(PullRequest) /\ RequestsTold' /\ DiskTold'
      /\ ChainTypes /\ SessionTold /\ WithinLimit /\ ReplyTold
  BY AcceptSettles
<1>2. h' = accept_response(h, reply) /\ h.phase = "AwaitingPull" BY DEF Accept
<1>3. /\ h \in Sessions /\ h.received \in Nat /\ h.durable \in Nat
      /\ h.released \in Nat /\ h.pull.from \in Nat
      /\ h.pull.release_before \in Nat
  BY <1>1 DEF ChainTypes, Sessions
<1>4. /\ h.epoch \in Epochs /\ h.released <= h.durable
      /\ h.received = durable_cursor(disk[h.epoch])
      /\ h.durable = durable_cursor(disk[h.epoch])
      /\ h.pull.from = h.received /\ h.pull.release_before = h.durable
      /\ mark_released_ok(h)
  BY <1>1, <1>2, <1>3 DEF SessionTold, mark_released_ok
<1>5. /\ reply.epoch \in Epochs
      /\ reply.retained_from \in Nat /\ reply.produced \in Nat
      /\ reply.first \in Nat /\ valid_state(reply)
      /\ reply.retained_from <= reply.produced
      /\ reply.produced <= Len(source[reply.epoch])
  BY <1>1 DEF ReplyTold, valid_state
<1>6. Len(source[h.epoch]) \in Nat /\ source[h.epoch] \in Seq(Cells)
  BY <1>1, <1>4, ChainNumbers DEF ChainTypes
<1>7. \/ reply.decision = "StreamChanged"
      \/ reply.decision = "InvalidRelease" /\ reply.epoch = h.epoch
      \/ /\ reply.epoch = h.epoch
         /\ reply.epoch = epoch => h.pull.release_before <= j.released
         /\ \/ reply.decision = "NoData" /\ h.pull.from = reply.produced
            \/ LossTold
            \/ DataTold
  BY <1>1 DEF ReplyTold
(* A session that kept its cursors, and perhaps learned of a release. *)
<1>8. ASSUME h' \in Sessions, h'.phase \in {"Ready", "RecoveryRequired"},
             h'.epoch = h.epoch, h'.received = h.received,
             h'.durable = h.durable,
             \/ h'.released = h.released
             \/ /\ h'.released = h.durable
                /\ h.epoch = epoch => h.durable <= j.released
      PROVE  ChainInv'
  <2>1. SessionTold' BY <1>1, <1>2, <1>3, <1>4, <1>8 DEF SessionTold, NodeStill
  <2>2. WithinLimit' BY <1>1, <1>2, <1>8 DEF WithinLimit, NodeStill
  <2> QED BY <1>1, <1>8, <2>1, <2>2, HostMovesKeep DEF ChainTypes
<1>9. CASE \/ reply.decision = "StreamChanged"
           \/ reply.decision = "InvalidRelease" /\ reply.epoch = h.epoch
  <2>1. h' = require_recovery(h)
    BY <1>2, <1>5, <1>9 DEF accept_response, invalid_release
  <2>2. /\ h' \in Sessions /\ h'.phase = "RecoveryRequired"
        /\ h'.epoch = h.epoch /\ h'.received = h.received
        /\ h'.durable = h.durable /\ h'.released = h.released
    BY <1>3, <2>1 DEF require_recovery, Sessions, NoPull
  <2> QED BY <1>8, <2>2
<1>10. CASE /\ reply.epoch = h.epoch
            /\ reply.epoch = epoch => h.pull.release_before <= j.released
            /\ reply.decision = "NoData" /\ h.pull.from = reply.produced
  <2>1. h' = accept_no_data(h, reply) BY <1>2, <1>10 DEF accept_response
  <2>2. h' = [h EXCEPT !.phase = "Ready", !.released = h.pull.release_before,
                       !.pull = NoPull]
    BY <1>4, <1>5, <1>10, <2>1 DEF accept_no_data
  <2>3. /\ h' \in Sessions /\ h'.phase = "Ready"
        /\ h'.epoch = h.epoch /\ h'.received = h.received
        /\ h'.durable = h.durable /\ h'.released = h.durable
    BY <1>3, <1>4, <2>2 DEF Sessions, NoPull
  <2> QED BY <1>4, <1>8, <1>10, <2>3
<1>11. CASE /\ reply.epoch = h.epoch
            /\ reply.epoch = epoch => h.pull.release_before <= j.released
            /\ LossTold
  <2> DEFINE size == reply.retained_from - h.pull.from
             data == [k \in 1..size |-> Overflow]
  <2>1. /\ reply.decision = "RangeUnavailable"
        /\ h.pull.from < reply.retained_from
        /\ \A q \in h.pull.from..(reply.retained_from - 1) :
             <<reply.epoch, q>> \in overwritten
        /\ ~early /\ reply.epoch = epoch =>
             reply.retained_from <= release_limit(j)
    BY <1>11 DEF LossTold
  <2>2. h' = accept_range_unavailable(h, reply) BY <1>2, <2>1 DEF accept_response
  <2>3. h' = account(h, h.pull.from, data)
    BY <1>5, <1>11, <2>1, <2>2 DEF accept_range_unavailable
  <2>4. size \in Nat /\ h.pull.from + size = reply.retained_from BY <1>3, <1>5, <2>1
  <2>5. \A k \in 1..size :
          h.pull.from + k - 1 \in h.pull.from..(reply.retained_from - 1)
    BY SMTT(30), <1>3, <1>5
  <2> HIDE DEF size
  <2>6. /\ data \in Seq(Slots) /\ Len(data) = size
        /\ \A k \in 1..size : data[k] = Overflow
    BY <2>4 DEF Slots
  <2> HIDE DEF data
  <2>7. Holds(source[h.epoch], overwritten, h.epoch, h.pull.from, data)
    BY <1>11, <2>1, <2>5, <2>6 DEF Holds
  <2>8. /\ h.pull.from + Len(data) <= Len(source[h.epoch])
        /\ ~early /\ h.epoch = epoch =>
             h.pull.from + Len(data) <= release_limit(j)
    BY <1>5, <1>6, <1>11, <2>1, <2>4, <2>6
  <2> QED BY <1>11, <2>3, <2>6, <2>7, <2>8, AccountTold
<1>12. CASE /\ reply.epoch = h.epoch
            /\ reply.epoch = epoch => h.pull.release_before <= j.released
            /\ DataTold
  <2>1. /\ reply.decision \in Settleable
        /\ reply.data \in Seq(Cells) /\ Len(reply.data) > 0
        /\ reply.first = h.pull.from /\ reply.retained_from <= reply.first
        /\ reply.first + Len(reply.data) <= reply.produced
        /\ reply.decision = "SampleChunk" => Len(reply.data) <= MaxSamples
        /\ \A i \in 1..Len(reply.data) :
             reply.data[i] = source[reply.epoch][reply.first + i]
        /\ ~early /\ reply.epoch = epoch =>
             reply.first + Len(reply.data) <= release_limit(j)
    BY <1>12 DEF DataTold
  <2>2. valid_range(h, reply) BY <1>5, <1>12, <2>1 DEF valid_range
  <2>3. h' = account(h, h.pull.from, reply.data)
    <3>1. CASE reply.decision = "SampleChunk"
      <4>1. h' = accept_chunk(h, reply) BY <1>2, <3>1 DEF accept_response
      <4> QED BY <2>1, <2>2, <3>1, <4>1 DEF accept_chunk
    <3>2. CASE reply.decision \in {"Gap", "ContinuityBreak"}
      <4>1. h' = accept_event(h, reply) BY <1>2, <3>2 DEF accept_response
      <4> QED BY <2>1, <2>2, <4>1 DEF accept_event
    <3> QED BY <2>1, <3>1, <3>2 DEF Settleable
  <2>4. reply.data \in Seq(Slots) /\ Len(reply.data) \in Nat BY <2>1 DEF Slots
  <2>5. Holds(source[h.epoch], overwritten, h.epoch, h.pull.from, reply.data)
    BY <1>12, <2>1 DEF Holds
  <2>6. /\ h.pull.from + Len(reply.data) <= Len(source[h.epoch])
        /\ ~early /\ h.epoch = epoch =>
             h.pull.from + Len(reply.data) <= release_limit(j)
    BY <1>3, <1>5, <1>6, <1>12, <2>1, <2>4
  <2> QED BY <1>12, <2>3, <2>4, <2>5, <2>6, AccountTold
<1> QED BY <1>7, <1>9, <1>10, <1>11, <1>12

(* The capture grows by the pending record. *)
LEMMA PersistStep == ChainInv /\ Persist => ChainInv'
<1> SUFFICES ASSUME ChainInv, Persist PROVE ChainInv' OBVIOUS
<1> DEFINE e == h.epoch
           c == disk[e]
           p == h.pending
           more == [c EXCEPT !.data = @ \o p.data]
<1>1. /\ h.phase = "Persisting" /\ p.first = durable_cursor(c)
      /\ disk' = [disk EXCEPT ![h.epoch].data = @ \o h.pending.data]
      /\ UNCHANGED <<j, epoch, requests, reply, h, seen, source, overwritten,
                     crashes, early>>
  BY DEF Persist
<1>2. /\ ChainTypes /\ DiskTold /\ RequestsTold /\ SessionTold /\ PendingTold
      /\ WithinLimit /\ reply = NoReply /\ seen = NoState
  BY <1>1 DEF ChainInv, SessionTold, RequestsTold, SeenTold, Recovering
<1>3. /\ e \in Epochs /\ c.open /\ p.first = h.durable
      /\ record_end(p) = h.received /\ h.received <= Len(source[e])
      /\ Holds(source[e], overwritten, e, p.first, p.data)
      /\ CaptureTold(e, c, source[e], overwritten)
  BY <1>2 DEF SessionTold, PendingTold, DiskTold
<1>4. /\ c \in [first : Nat, data : Seq(Slots), open : BOOLEAN]
      /\ p.first \in Nat /\ p.data \in Seq(Slots)
      /\ disk \in [Epochs -> [first : Nat, data : Seq(Slots), open : BOOLEAN]]
      /\ \A x \in Epochs : durable_cursor(disk[x]) \in Nat
  BY <1>2, <1>3, ChainNumbers DEF ChainTypes, Sessions
<1> HIDE DEF e, c, p
<1>5. /\ c.first \in Nat /\ c.data \in Seq(Slots)
      /\ Len(c.data) \in Nat /\ Len(p.data) \in Nat
  BY <1>4
<1>6. /\ c.data \o p.data \in Seq(Slots)
      /\ Len(c.data \o p.data) = Len(c.data) + Len(p.data)
      /\ \A k \in 1..Len(c.data) : (c.data \o p.data)[k] = c.data[k]
      /\ \A k \in 1..Len(p.data) : (c.data \o p.data)[Len(c.data) + k] = p.data[k]
  <2> DEFINE a == c.data
             b == p.data
  <2>1. a \in Seq(Slots) /\ b \in Seq(Slots) BY <1>4
  <2> HIDE DEF a, b
  <2>2. /\ a \o b \in Seq(Slots) /\ Len(a \o b) = Len(a) + Len(b)
        /\ \A k \in 1..Len(a) : (a \o b)[k] = a[k]
        /\ \A k \in 1..Len(b) : (a \o b)[Len(a) + k] = b[k]
    BY <2>1
  <2> QED BY <2>2 DEF a, b
<1>7. /\ more.first = c.first /\ more.data = c.data \o p.data
      /\ more.open = c.open
      /\ more \in [first : Nat, data : Seq(Slots), open : BOOLEAN]
  BY <1>4, <1>6
<1> HIDE DEF more
<1>8. /\ disk'[e] = more
      /\ \A x \in Epochs : x # e => disk'[x] = disk[x]
      /\ disk' \in [Epochs -> [first : Nat, data : Seq(Slots), open : BOOLEAN]]
  BY <1>1, <1>3, <1>4, <1>7 DEF more, e, c, p
<1>9. /\ durable_cursor(more) = h.received
      /\ durable_cursor(c) = c.first + Len(c.data)
      /\ durable_cursor(c) <= durable_cursor(more)
  <2>1. /\ durable_cursor(more) = c.first + Len(c.data \o p.data)
        /\ durable_cursor(c) = c.first + Len(c.data)
        /\ record_end(p) = p.first + Len(p.data)
    BY <1>7 DEF durable_cursor, record_end
  <2>2. \A a, b, d, x \in Nat :
          x = a + b => a + (b + d) = x + d /\ x <= a + (b + d)
    OBVIOUS
  <2>3. durable_cursor(c) \in Nat BY <1>4, CursorNat
  <2>4. /\ c.first + (Len(c.data) + Len(p.data)) = durable_cursor(c) + Len(p.data)
        /\ durable_cursor(c) <= c.first + (Len(c.data) + Len(p.data))
    BY <1>5, <2>1, <2>2, <2>3, ZenonT(30)
  <2>5. p.first = durable_cursor(c) /\ record_end(p) = h.received BY <1>1, <1>3 DEF p
  <2> HIDE DEF durable_cursor, record_end
  <2> QED BY <1>6, <2>1, <2>4, <2>5
<1>10. \A x \in Epochs : /\ durable_cursor(disk[x]) <= durable_cursor(disk'[x])
                         /\ disk'[x].open = disk[x].open
  <2> TAKE x \in Epochs
  <2>1. CASE x = e BY <1>7, <1>8, <1>9, <2>1 DEF c
  <2>2. CASE x # e
    <3>1. disk'[x] = disk[x] /\ durable_cursor(disk[x]) \in Nat BY <1>4, <1>8, <2>2
    <3>2. \A a \in Nat : a <= a OBVIOUS
    <3> QED BY <3>1, <3>2
  <2> QED BY <2>1, <2>2
<1>11. CaptureTold(e, more, source[e], overwritten)
  <2>1. Holds(source[e], overwritten, e, more.first, more.data)
    <3> SUFFICES ASSUME NEW k \in 1..Len(more.data)
                 PROVE  \/ more.data[k] = source[e][more.first + k]
                        \/ /\ more.data[k] = Overflow
                           /\ <<e, more.first + k - 1>> \in overwritten
      BY DEF Holds
    <3>1. CASE k <= Len(c.data)
      <4>1. k \in 1..Len(c.data) /\ more.data[k] = c.data[k] BY <1>5, <1>6, <1>7, <3>1
      <4> QED BY <1>3, <1>7, <4>1 DEF CaptureTold, Holds
    <3>2. CASE ~(k <= Len(c.data))
      <4> DEFINE i == k - Len(c.data)
      <4>1. /\ i \in 1..Len(p.data) /\ Len(c.data) + i = k
            /\ p.first + i = more.first + k
            /\ p.first + i - 1 = more.first + k - 1
        <5> DEFINE a == c.first
                   b == Len(c.data)
                   d == Len(p.data)
                   x == p.first
        <5>1. /\ k \in 1..(b + d) /\ ~(k <= b) /\ x = a + b
              /\ a \in Nat /\ b \in Nat /\ d \in Nat /\ x \in Nat
          BY <1>1, <1>4, <1>5, <1>6, <1>7, <1>9, <3>2
        <5> HIDE DEF a, b, d, x
        <5>2. /\ k - b \in 1..d /\ b + (k - b) = k
              /\ x + (k - b) = a + k /\ x + (k - b) - 1 = a + k - 1
          BY <5>1
        <5> QED BY <1>7, <5>2 DEF a, b, d, x
      <4> HIDE DEF i
      <4>2. more.data[k] = p.data[i] BY <1>6, <1>7, <4>1
      <4> QED BY <1>3, <4>1, <4>2 DEF Holds
    <3> QED BY <3>1, <3>2
  <2> QED BY <1>3, <1>7, <1>9, <2>1 DEF CaptureTold
<1>12. DiskTold'
  <2>1. \A x \in Epochs : CaptureTold(x, disk'[x], source[x], overwritten)
    BY <1>2, <1>8, <1>11 DEF DiskTold
  <2>2. j.released <= durable_cursor(disk'[epoch])
    <3>1. /\ epoch \in Epochs /\ j.released \in Nat
          /\ j.released <= durable_cursor(disk[epoch])
      BY <1>2, ChainNumbers DEF DiskTold, ChainTypes
    <3>2. durable_cursor(disk'[epoch]) \in Nat BY <1>8, <3>1, CursorNat
    <3> QED BY <1>4, <1>10, <3>1, <3>2
  <2> QED BY <1>1, <2>1, <2>2 DEF DiskTold
<1>13. RequestsTold'
  <2>1. \A i \in DOMAIN requests :
          /\ requests[i].epoch \in Epochs /\ requests[i].release_before \in Nat
    <3>1. \A i \in DOMAIN requests : requests[i] \in PullRequest BY <1>2 DEF ChainTypes
    <3> QED BY <3>1 DEF PullRequest
  <2>2. \A x \in Epochs : durable_cursor(disk'[x]) \in Nat BY <1>8, CursorNat
  <2>3. \A i \in DOMAIN requests :
          requests[i].release_before <= durable_cursor(disk'[requests[i].epoch])
    BY <1>2, <1>4, <1>10, <2>1, <2>2 DEF RequestsTold, RequestTold
  <2> QED BY <1>1, <1>2, <2>3 DEF RequestsTold, RequestTold
<1>14. SessionTold'
  <2>1. PendingTold' BY <1>1, <1>2, <1>8, <1>9 DEF PendingTold, e
  <2> QED BY <1>1, <1>2, <1>7, <1>8, <2>1 DEF SessionTold, e, c
<1>15. WithinLimit'
  <2>1. ASSUME ~early PROVE durable_cursor(disk'[epoch]) <= release_limit(j)
    BY <1>1, <1>2, <1>8, <1>9, <2>1 DEF WithinLimit, ChainTypes, e
  <2> QED BY <1>1, <1>2, <1>10, <2>1 DEF WithinLimit
<1> QED BY <1>1, <1>2, <1>8, <1>12, <1>13, <1>14, <1>15, HostMovesKeep
        DEF ChainTypes, NodeStill

(* A receipt confirms what the capture shows. *)
LEMMA ConfirmStep == ChainInv /\ Confirm => ChainInv'
<1> SUFFICES ASSUME ChainInv, Confirm PROVE ChainInv' OBVIOUS
<1>1. /\ h.phase = "Persisting" /\ h' = confirm_durable(h)
      /\ durable_cursor(disk[h.epoch]) = record_end(h.pending)
      /\ UNCHANGED <<j, epoch, requests, reply, seen, disk, source,
                     overwritten, crashes, early>>
  BY DEF Confirm
<1>2. /\ ChainTypes /\ SessionTold /\ PendingTold /\ RequestsTold
      /\ reply = NoReply /\ seen = NoState /\ NodeStill
  BY <1>1 DEF ChainInv, SessionTold, RequestsTold, SeenTold, Recovering,
              NodeStill
<1>3. /\ h \in Sessions /\ h.received \in Nat /\ h.durable \in Nat
      /\ h.released \in Nat /\ h.epoch \in Epochs
      /\ durable_cursor(disk[h.epoch]) \in Nat
  BY <1>2, ChainNumbers DEF ChainTypes, SessionTold
<1>4. record_end(h.pending) = h.received /\ h.durable <= h.received
  <2>1. /\ record_end(h.pending) = h.pending.first + Len(h.pending.data)
        /\ h.pending.first = h.durable /\ record_end(h.pending) = h.received
    BY <1>2 DEF record_end, PendingTold
  <2>2. Len(h.pending.data) \in Nat
    <3>1. h.pending.data \in Seq(Slots) BY <1>3 DEF Sessions
    <3> QED BY <3>1
  <2> QED BY <1>3, <2>1, <2>2
<1>5. h' = [h EXCEPT !.phase = "Ready", !.durable = h.received,
                     !.pending = NoRecord]
  BY <1>1, <1>3, <1>4 DEF confirm_durable
<1>6. /\ h' \in Sessions /\ h'.phase = "Ready" /\ h'.epoch = h.epoch
      /\ h'.received = h.received /\ h'.durable = h.received
      /\ h'.released = h.released
  <2>1. NoRecord \in [first : Nat, data : Seq(Slots)] BY DEF NoRecord
  <2> QED BY <1>3, <1>5, <2>1 DEF Sessions
<1>7. SessionTold'
  <2>1. h.released <= h.received BY <1>2, <1>3, <1>4 DEF SessionTold
  <2> QED BY <1>1, <1>2, <1>4, <1>6, <2>1 DEF SessionTold, NodeStill
<1>8. DiskTold' /\ WithinLimit' BY <1>1, <1>2, <1>6, DiskStill
<1>9. RequestsTold'
  <2>1. \A i \in DOMAIN requests : RequestTold(requests[i])'
    BY <1>1, <1>2 DEF RequestsTold, RequestTold
  <2> QED BY <1>1, <1>2, <2>1 DEF RequestsTold
<1> QED BY <1>1, <1>2, <1>6, <1>7, <1>8, <1>9, HostMovesKeep DEF ChainTypes

(* A request that is not the current one is not the session's. *)
LEMMA SessionLeaves ==
  ASSUME ChainInv, NodeStill, requests' = requests, disk' = disk,
         reply' = reply, h.phase # "AwaitingPull"
  PROVE  requests' \in Seq(PullRequest) /\ RequestsTold' /\ reply' = NoReply
<1>1. /\ RequestsTold /\ requests \in Seq(PullRequest)
      /\ reply = NoReply
  BY DEF ChainInv, ChainTypes, RequestsTold
<1>2. \A i \in DOMAIN requests : RequestTold(requests[i]) /\ ~requests[i].current
  BY <1>1 DEF RequestsTold, RequestTold
<1>3. \A i \in DOMAIN requests : RequestTold(requests[i])'
  <2> TAKE i \in DOMAIN requests
  <2>1. requests'[i] = requests[i] /\ epoch' = epoch /\ disk' = disk BY DEF NodeStill
  <2>2. ~requests'[i].current BY <1>2, <2>1
  <2>3. /\ requests'[i].epoch <= epoch'
        /\ requests'[i].release_before
             <= durable_cursor(disk'[requests'[i].epoch])
        /\ requests'[i].release_before <= requests'[i].from
    BY <1>2, <2>1 DEF RequestTold
  <2> QED BY <2>2, <2>3 DEF RequestTold
<1> QED BY <1>1, <1>2, <1>3 DEF RequestsTold

(* Maintenance takes a session that has nothing under way. *)
LEMMA QuiesceStep == ChainInv /\ Quiesce => ChainInv'
<1> SUFFICES ASSUME ChainInv, Quiesce PROVE ChainInv' OBVIOUS
<1>1. /\ h.phase = "Ready" /\ h' = [h EXCEPT !.phase = "RecoveryRequired"]
      /\ UNCHANGED <<j, epoch, requests, reply, seen, disk, source,
                     overwritten, crashes, early>>
  BY DEF Quiesce
<1>2. /\ ChainTypes /\ SessionTold /\ seen = NoState /\ NodeStill
      /\ h \in Sessions
  BY <1>1 DEF ChainInv, ChainTypes, SeenTold, Recovering, NodeStill
<1>3. /\ h' \in Sessions /\ h'.phase = "RecoveryRequired"
      /\ h'.epoch = h.epoch /\ h'.received = h.received
      /\ h'.durable = h.durable /\ h'.released = h.released
  BY <1>1, <1>2 DEF Sessions
<1>4. requests' \in Seq(PullRequest) /\ RequestsTold' /\ reply' = NoReply
  BY <1>1, <1>2, SessionLeaves
<1>5. SessionTold' BY <1>1, <1>2, <1>3 DEF SessionTold, NodeStill
<1>6. DiskTold' /\ WithinLimit' BY <1>1, <1>2, <1>3, DiskStill
<1> QED BY <1>1, <1>2, <1>3, <1>4, <1>5, <1>6, HostMovesKeep DEF ChainTypes

(* The host crashes: its session and what it had read are gone. *)
LEMMA CrashStep == ChainInv /\ HostCrashes => ChainInv'
<1> SUFFICES ASSUME ChainInv, HostCrashes PROVE ChainInv' OBVIOUS
<1>1. /\ h' = Offline /\ seen' = NoState /\ Forget /\ NodeStill /\ disk' = disk
  BY DEF HostCrashes, NodeStill
<1>2. requests' \in Seq(PullRequest) /\ RequestsTold' /\ reply' = NoReply
  BY <1>1, ForgetTold
<1>3. h' \in Sessions /\ h'.phase = "Offline"
  BY <1>1 DEF Offline, Sessions, NoPull, NoRecord
<1>4. /\ DiskTold' /\ WithinLimit'
      /\ disk' \in [Epochs -> [first : Nat, data : Seq(Slots), open : BOOLEAN]]
  BY <1>1, <1>3, DiskStill
<1> QED BY <1>1, <1>2, <1>3, <1>4, HostMovesKeep

(* Recovery reads the node's account, or drops what it read. *)
LEMMA ReadStep == ChainInv /\ (ReadNodeState \/ RecoveryFails) => ChainInv'
<1> SUFFICES ASSUME ChainInv, ReadNodeState \/ RecoveryFails PROVE ChainInv' OBVIOUS
<1>1. /\ Recovering /\ seen' \in {NoState, stream_state(epoch, j)}
      /\ UNCHANGED <<j, epoch, requests, reply, h, disk, source, overwritten,
                     crashes, early>>
  BY DEF ReadNodeState, RecoveryFails
<1>2. /\ ChainTypes /\ SourceTold /\ DiskTold /\ NodeStill /\ h \in Sessions
      /\ epoch \in Epochs
      /\ h.phase # "AwaitingPull" /\ WithinLimit
  BY <1>1 DEF ChainInv, ChainTypes, Recovering, NodeStill
<1>3. requests' \in Seq(PullRequest) /\ RequestsTold' /\ reply' = NoReply
  BY <1>1, <1>2, SessionLeaves
<1>4. /\ DiskTold' /\ WithinLimit' BY <1>1, <1>2 DEF DiskTold, WithinLimit
<1>5. h'.phase # "Offline" => SessionTold'
  BY <1>1, <1>2 DEF ChainInv, SessionTold, PendingTold
<1>6. /\ j.retained_from \in Nat /\ j.produced \in Nat /\ j.released \in Nat
      /\ j.released <= j.retained_from /\ j.retained_from <= j.produced
      /\ epoch \in Nat /\ Len(source[epoch]) = j.produced
      /\ j.released <= durable_cursor(disk[epoch])
      /\ durable_cursor(disk[epoch]) <= j.produced
  BY <1>2, ChainNumbers DEF SourceTold, DiskTold, CaptureTold
<1>7. ASSUME seen' # NoState
      PROVE  /\ seen' \in [epoch : Epochs, retained_from : Nat, produced : Nat,
                           released : Nat]
             /\ SeenTold'
  <2>1. /\ seen' = stream_state(epoch, j) /\ seen'.epoch = epoch
        /\ seen'.retained_from = j.retained_from
        /\ seen'.produced = j.produced /\ seen'.released = j.released
    BY <1>1, <1>7 DEF stream_state
  <2>2. seen' \in [epoch : Epochs, retained_from : Nat, produced : Nat,
                   released : Nat]
    BY <1>2, <1>6, <2>1 DEF stream_state
  <2>3. /\ valid_state(seen') /\ epoch <= epoch /\ j.released <= j.released
        /\ j.produced <= j.produced
    BY <1>6, <2>1 DEF valid_state
  <2>4. SeenTold' BY <1>1, <1>2, <1>6, <2>1, <2>3 DEF SeenTold, Recovering
  <2> QED BY <2>2, <2>4
<1> QED BY <1>1, <1>2, <1>3, <1>4, <1>5, <1>7, HostMovesKeep DEF ChainTypes

(* The capture of a boot begins where the node stands, with nothing in it. *)
LEMMA CreateStep == ChainInv /\ CreateCapture => ChainInv'
<1> SUFFICES ASSUME ChainInv, CreateCapture PROVE ChainInv' OBVIOUS
<1> DEFINE e == seen.epoch
           fresh == [first |-> seen.produced, data |-> <<>>, open |-> TRUE]
           Capture == [first : Nat, data : Seq(Slots), open : BOOLEAN]
<1>1. /\ Recovering /\ seen # NoState /\ ~disk[e].open
      /\ disk' = [disk EXCEPT ![e] = fresh]
      /\ UNCHANGED <<j, epoch, requests, reply, h, seen, source, overwritten,
                     crashes, early>>
  BY DEF CreateCapture
<1>2. /\ ChainTypes /\ DiskTold /\ RequestsTold /\ SeenTold /\ WithinLimit
      /\ NodeStill /\ h.phase \in {"Offline", "RecoveryRequired"}
      /\ h.phase # "Offline" => SessionTold
      /\ reply = NoReply
  BY <1>1 DEF ChainInv, NodeStill, Recovering, RequestsTold
<1>3. /\ e \in Epochs /\ seen.produced \in Nat
      /\ seen \in [epoch : Epochs, retained_from : Nat, produced : Nat,
                   released : Nat]
      /\ disk \in [Epochs -> Capture] /\ epoch \in Epochs
      /\ \A x \in Epochs : durable_cursor(disk[x]) \in Nat
      /\ \A x \in Epochs : Len(source[x]) \in Nat
      /\ j.released \in Nat /\ release_limit(j) \in Nat
  BY <1>1, <1>2, ChainNumbers DEF ChainTypes
<1>4. /\ fresh \in Capture /\ fresh.open /\ durable_cursor(fresh) = seen.produced
      /\ fresh.data = <<>>
  BY <1>3 DEF durable_cursor
<1> HIDE DEF fresh
<1>5. /\ disk' \in [Epochs -> Capture] /\ disk'[e] = fresh
      /\ \A x \in Epochs : x # e => disk'[x] = disk[x]
  BY <1>1, <1>3, <1>4
<1>6. durable_cursor(disk[e]) = 0
  BY <1>1, <1>2, <1>3 DEF DiskTold, CaptureTold, NoCapture, durable_cursor
<1>7. seen.produced <= Len(source[e]) BY <1>2 DEF SeenTold
<1>8. \A x \in Epochs : durable_cursor(disk[x]) <= durable_cursor(disk'[x])
  <2> TAKE x \in Epochs
  <2>1. CASE x = e BY <1>3, <1>4, <1>5, <1>6, <2>1
  <2>2. CASE x # e
    <3>1. disk'[x] = disk[x] /\ durable_cursor(disk[x]) \in Nat BY <1>3, <1>5, <2>2
    <3>2. \A a \in Nat : a <= a OBVIOUS
    <3> QED BY <3>1, <3>2
  <2> QED BY <2>1, <2>2
<1>9. \A x \in Epochs : durable_cursor(disk'[x]) \in Nat BY <1>5, CursorNat
<1>10. DiskTold'
  <2>1. CaptureTold(e, fresh, source[e], overwritten)
    BY <1>4, <1>7 DEF CaptureTold, Holds
  <2>2. \A x \in Epochs : CaptureTold(x, disk'[x], source[x], overwritten)
    BY <1>2, <1>5, <2>1 DEF DiskTold
  <2>3. j.released <= durable_cursor(disk'[epoch])
    BY <1>2, <1>3, <1>8, <1>9 DEF DiskTold
  <2> QED BY <1>2, <2>2, <2>3 DEF DiskTold, NodeStill
<1>11. RequestsTold'
  <2>1. \A i \in DOMAIN requests :
          /\ requests[i].epoch \in Epochs /\ requests[i].release_before \in Nat
    <3>1. \A i \in DOMAIN requests : requests[i] \in PullRequest BY <1>2 DEF ChainTypes
    <3> QED BY <3>1 DEF PullRequest
  <2>2. \A i \in DOMAIN requests :
          requests[i].release_before <= durable_cursor(disk'[requests[i].epoch])
    <3> TAKE i \in DOMAIN requests
    <3> DEFINE before == durable_cursor(disk[requests[i].epoch])
               after == durable_cursor(disk'[requests[i].epoch])
    <3>1. requests[i].release_before <= before BY <1>2 DEF RequestsTold, RequestTold
    <3>2. /\ before \in Nat /\ after \in Nat /\ before <= after
          /\ requests[i].release_before \in Nat
      BY <1>3, <1>8, <1>9, <2>1
    <3> HIDE DEF before, after
    <3>3. requests[i].release_before <= after BY <3>1, <3>2
    <3> QED BY <3>3 DEF after
  <2> QED BY <1>1, <1>2, <2>2 DEF RequestsTold, RequestTold
<1>12. ASSUME h'.phase # "Offline" PROVE SessionTold'
  <2>1. SessionTold /\ h.phase = "RecoveryRequired" /\ h.epoch \in Epochs
        /\ disk[h.epoch].open
    BY <1>1, <1>2, <1>12 DEF SessionTold
  <2>2. h.epoch # e /\ disk'[h.epoch] = disk[h.epoch] BY <1>1, <1>5, <2>1
  <2> QED BY <1>1, <2>1, <2>2 DEF SessionTold
<1>13. SeenTold'
  <2>1. seen.produced <= seen.produced /\ seen.released <= seen.produced
    BY <1>2, <1>3 DEF SeenTold, valid_state
  <2> QED BY <1>1, <1>2, <1>4, <1>5, <2>1 DEF SeenTold, Recovering
<1>14. WithinLimit'
  <2>1. ASSUME ~early PROVE seen.produced = 0 /\ source[e] = <<>>
    <3>1. source[e] = <<>> BY <1>1, <1>2, <1>3, <2>1 DEF WithinLimit
    <3>2. Len(source[e]) = 0 BY <3>1
    <3> QED BY <1>3, <1>7, <3>1, <3>2
  <2>2. ASSUME ~early PROVE durable_cursor(disk'[epoch]) <= release_limit(j)
    <3>1. CASE epoch = e BY <1>3, <1>4, <1>5, <2>1, <2>2, <3>1
    <3>2. CASE epoch # e BY <1>2, <1>3, <1>5, <2>2, <3>2 DEF WithinLimit
    <3> QED BY <3>1, <3>2
  <2>3. ASSUME NEW x \in Epochs, ~early, ~disk'[x].open PROVE source[x] = <<>>
    <3>1. x # e /\ ~disk[x].open BY <1>4, <1>5, <2>3
    <3> QED BY <1>2, <2>3, <3>1 DEF WithinLimit
  <2>4. ASSUME ~early PROVE
          h.phase # "Offline" /\ h.epoch = epoch => h.received <= release_limit(j)
    BY <1>2, <2>4 DEF WithinLimit
  <2>5. UNCHANGED <<j, epoch, h, source, early>> BY <1>1
  <2> QED BY <2>2, <2>3, <2>4, <2>5 DEF WithinLimit
<1>15. requests' \in Seq(PullRequest) /\ h' \in Sessions /\ reply' = NoReply
       /\ seen' \in [epoch : Epochs, retained_from : Nat, produced : Nat,
                     released : Nat]
  BY <1>1, <1>2, <1>3 DEF ChainTypes
<1> QED BY <1>2, <1>5, <1>10, <1>11, <1>12, <1>13, <1>14, <1>15, HostMovesKeep

(* Recovery rebuilds the session from the capture and the node's account. *)
LEMMA ReconcileStep == ChainInv /\ Reconcile => ChainInv'
<1> SUFFICES ASSUME ChainInv, Reconcile PROVE ChainInv' OBVIOUS
<1> DEFINE e == seen.epoch
           proved == durable_cursor(disk[e])
<1>1. /\ Recovering /\ seen # NoState /\ disk[e].open /\ seen' = NoState
      /\ h' = reconcile(e, IF h.phase = "RecoveryRequired" /\ h.epoch = e
                           THEN h.durable ELSE proved, seen)
      /\ UNCHANGED <<j, epoch, requests, reply, disk, source, overwritten,
                     crashes, early>>
  BY DEF Reconcile
<1>2. /\ ChainTypes /\ DiskTold /\ SeenTold /\ WithinLimit
      /\ NodeStill /\ h.phase \in {"Offline", "RecoveryRequired"}
      /\ h.phase # "Offline" => SessionTold
  BY <1>1 DEF ChainInv, NodeStill, Recovering
<1>3. /\ seen \in [epoch : Epochs, retained_from : Nat, produced : Nat,
                   released : Nat]
      /\ e \in Epochs /\ e \in Nat /\ proved \in Nat /\ seen.released \in Nat
      /\ seen.produced \in Nat /\ Len(source[e]) \in Nat
      /\ j.released \in Nat
  BY <1>1, <1>2, ChainNumbers DEF ChainTypes
<1>4. h.phase = "RecoveryRequired" /\ h.epoch = e => h.durable = proved
  BY <1>2 DEF SessionTold
<1>5. /\ valid_state(seen) /\ e <= epoch /\ seen.released <= proved
      /\ proved <= seen.produced /\ seen.produced <= Len(source[e])
      /\ e = epoch => seen.released <= j.released
  BY <1>1, <1>2 DEF SeenTold
<1> HIDE DEF proved
<1>6. h' = recovered(e, proved, seen.released) BY <1>1, <1>4, <1>5 DEF reconcile
<1>7. /\ h' \in Sessions /\ h'.phase = "Ready" /\ h'.epoch = e
      /\ h'.received = proved /\ h'.durable = proved
      /\ h'.released = seen.released
  BY <1>3, <1>5, <1>6 DEF recovered, Sessions, NoPull, NoRecord
<1>8. requests' \in Seq(PullRequest) /\ RequestsTold' /\ reply' = NoReply
  BY <1>1, <1>2, SessionLeaves
<1>9. proved <= Len(source[e]) BY <1>3, <1>5
<1>10. SessionTold' BY <1>1, <1>3, <1>5, <1>7, <1>9 DEF SessionTold, proved
<1>11. DiskTold' /\ WithinLimit'
  BY <1>1, <1>2, <1>7 DEF DiskTold, WithinLimit, NodeStill, proved
<1>12. disk' \in [Epochs -> [first : Nat, data : Seq(Slots), open : BOOLEAN]]
  BY <1>1, <1>2 DEF ChainTypes
<1> QED BY <1>1, <1>2, <1>7, <1>8, <1>10, <1>11, <1>12, HostMovesKeep

------------------------
(* The theorems. *)

(* Every step of the node, the line and the host keeps the chain in order. *)
LEMMA ChainNext == ChainInv /\ [Next]_vars => ChainInv'
<1> SUFFICES ASSUME ChainInv, [Next]_vars PROVE ChainInv' OBVIOUS
<1>1. CASE Produce BY <1>1, ProduceStep
<1>2. CASE HandleRequest BY <1>2, HandleStep
<1>3. CASE Host BY <1>3, PullStep, AcceptStep, PersistStep, ConfirmStep, ReadStep,
     CreateStep, ReconcileStep DEF Host
<1>4. CASE DeadlinePasses BY <1>4, UncertainStep DEF DeadlinePasses
<1>5. CASE Faults BY <1>5, LoseStep, UncertainStep, QuiesceStep, ReadStep, CrashStep,
     RebootStep DEF Faults
<1>6. CASE UNCHANGED vars
  <2>1. UNCHANGED <<j, epoch, requests, reply, h, seen, disk, source,
                    overwritten, crashes, early>>
    BY <1>6 DEF vars
  <2>2. ChainTypes /\ NodeStill /\ disk' = disk BY <2>1 DEF ChainInv, NodeStill
  <2>3. DiskTold' /\ WithinLimit' /\ RequestsTold'
    BY <2>1 DEF ChainInv, DiskTold, WithinLimit, RequestsTold, RequestTold
  <2>4. /\ reply' # NoReply => ReplyTold'
        /\ h'.phase # "Offline" => SessionTold'
        /\ seen' # NoState => SeenTold'
    BY <2>1 DEF ChainInv, ReplyTold, LossTold, DataTold, SessionTold,
                PendingTold, SeenTold, Recovering
  <2> QED BY <2>1, <2>2, <2>3, <2>4, HostMovesKeep DEF ChainTypes
<1> QED BY <1>1, <1>2, <1>3, <1>4, <1>5, <1>6 DEF Next

(* The inductive invariant: the journal, the answer and the requests on
   the line, the session, what recovery read and the captures never
   contradict each other or what the source gave each boot. *)
THEOREM ChainInOrder == Spec => []ChainInv
  BY ChainInit, ChainNext, PTL DEF Spec

(* The cursors of the two halves: what the node released is on disk, and
   no cursor of the host's session claims more than the next link shows. *)
LEMMA InvDurability == ChainInv => DurabilityChain
<1> SUFFICES ASSUME ChainInv PROVE DurabilityChain OBVIOUS
<1>1. /\ ChainTypes /\ DiskTold /\ SourceTold
      /\ h.phase # "Offline" => SessionTold
  BY DEF ChainInv
<1>2. ASSUME h.phase # "Offline"
      PROVE  /\ h.released <= h.durable
             /\ h.durable <= durable_cursor(disk[h.epoch])
             /\ durable_cursor(disk[h.epoch]) <= h.received
             /\ h.epoch = epoch => h.released <= j.released
             /\ h.epoch = epoch => h.received <= j.produced
  <2>1. /\ SessionTold /\ h.epoch \in Epochs
        /\ h.durable \in Nat /\ h.received \in Nat /\ h.released \in Nat
        /\ durable_cursor(disk[h.epoch]) \in Nat
    BY <1>1, <1>2, ChainNumbers DEF SessionTold
  <2>2. h.durable <= h.received
    <3>1. CASE h.phase = "Persisting"
      <4>1. /\ record_end(h.pending) = h.pending.first + Len(h.pending.data)
            /\ h.pending.first = h.durable
            /\ record_end(h.pending) = h.received
        BY <2>1, <3>1 DEF SessionTold, PendingTold, record_end
      <4>2. Len(h.pending.data) \in Nat
        <5>1. h.pending.data \in Seq(Slots) BY <1>1 DEF ChainTypes, Sessions
        <5> QED BY <5>1
      <4> QED BY <2>1, <4>1, <4>2
    <3>2. CASE h.phase # "Persisting" BY <2>1, <3>2 DEF SessionTold
    <3> QED BY <3>1, <3>2
  <2>3. durable_cursor(disk[h.epoch]) \in {h.durable, h.received}
    BY <2>1 DEF SessionTold, PendingTold
  <2>4. h.epoch = epoch => h.released <= j.released /\ h.received <= j.produced
    BY <1>1, <2>1 DEF SessionTold, SourceTold
  <2> QED BY <2>1, <2>2, <2>3, <2>4 DEF SessionTold
<1> QED BY <1>1, <1>2 DEF DurabilityChain, DiskTold

(* Every capture on disk holds what the source gave each boot, once and in
   order, or a mark for what overload really took, and the journal never
   releases what is not there: whatever is lost, late, repeated, rebooted
   or crashed between the node's ring and the host's write-ahead log. *)
THEOREM CapturesAreExact == Spec => []CaptureExact
<1>1. ChainInv => CaptureExact
  <2> SUFFICES ASSUME ChainInv PROVE CaptureExact OBVIOUS
  <2>1. DurabilityChain BY InvDurability
  <2>2. ASSUME NEW e \in Epochs, NEW k \in DOMAIN disk[e].data
        PROVE  LET q == disk[e].first + k - 1
               IN  \/ disk[e].data[k] = source[e][q + 1]
                   \/ disk[e].data[k] = Overflow /\ <<e, q>> \in overwritten
    <3>1. /\ Holds(source[e], overwritten, e, disk[e].first, disk[e].data)
          /\ disk[e] \in [first : Nat, data : Seq(Slots), open : BOOLEAN]
      BY DEF ChainInv, ChainTypes, DiskTold, CaptureTold
    <3>2. disk[e].data \in Seq(Slots) /\ disk[e].first \in Nat BY <3>1
    <3>3. k \in 1..Len(disk[e].data) /\ k \in Nat BY <3>2
    <3>4. (disk[e].first + k - 1) + 1 = disk[e].first + k BY <3>2, <3>3
    <3> QED BY <3>1, <3>3, <3>4 DEF Holds
  <2> QED BY <2>1, <2>2 DEF CaptureExact
<1> QED BY <1>1, ChainInOrder, PTL

(* The two halves agree on the protocol: no answer the node can give fails
   the host's validation, recovery never finds the two accounts apart, a
   pending record continues its capture, and a release is refused only
   when the capture began in the middle of a recording. *)
THEOREM HalvesAgree == Spec => []ProtocolAgrees
<1>1. ChainInv => ProtocolAgrees
  <2> SUFFICES ASSUME ChainInv PROVE ProtocolAgrees OBVIOUS
  <2>1. h.phase # "Failed" BY DEF ChainInv, ChainTypes, Sessions
  <2>2. /\ reply.decision \notin {"CursorAhead", "InvalidRequest",
                                  "InternalError", "Busy"}
        /\ reply.decision = "InvalidRelease" => early
    <3>1. CASE reply = NoReply BY <3>1 DEF NoReply
    <3>2. CASE reply # NoReply
      BY <3>2 DEF ChainInv, ReplyTold, LossTold, DataTold, Settleable
    <3> QED BY <3>1, <3>2
  <2>3. h.phase = "Persisting" =>
          durable_cursor(disk[h.epoch]) \in {h.pending.first,
                                             record_end(h.pending)}
    BY DEF ChainInv, SessionTold, PendingTold
  <2> QED BY <2>1, <2>2, <2>3 DEF ProtocolAgrees
<1> QED BY <1>1, ChainInOrder, PTL

=============================================================================
