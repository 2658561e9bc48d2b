---------------------- MODULE MeasurementJournalProofs ----------------------
(* What the journal's operators, and those of the delivery session that
   exposes it, preserve, for every capacity and every width of the
   sequence space and of the token counter. *)
EXTENDS DeliverySession, FiniteSetTheorems, WellFoundedInduction, TLAPS

(* The ring index of MeasurementJournal stays inside the ring. *)
LEMMA ModRange ==
  ASSUME NEW a \in Int, NEW n \in Nat \ {0}
  PROVE  a % n \in 0..(n - 1)
  OBVIOUS

(* A non-empty set of naturals has a least element; the loops of the
   ledgers that stop at a first match rest on it. *)
LEMMA LeastNat ==
  ASSUME NEW S \in SUBSET Nat, S # {}
  PROVE  \E n \in S : \A m \in S : n <= m
<1> DEFINE T == {1..n : n \in S}
<1>1. T \subseteq FiniteSubsetsOf(Nat) /\ T # {}
  <2>1. ASSUME NEW n \in S PROVE 1..n \in FiniteSubsetsOf(Nat)
    BY FS_Interval DEF FiniteSubsetsOf
  <2> QED BY <2>1
<1>2. PICK x \in T : \A y \in T : ~ (<<y, x>> \in StrictSubsetOrdering(Nat))
  BY <1>1, FS_StrictSubsetOrderingWellFounded, WFMin
<1>3. PICK n \in S : x = 1..n OBVIOUS
<1>4. ASSUME NEW m \in S, m < n PROVE FALSE
  <2>1. 1..m \subseteq 1..n /\ 1..m # 1..n
    <3>1. n \in 1..n /\ n \notin 1..m BY <1>4
    <3> QED BY <1>4, <3>1
  <2>2. <<1..m, 1..n>> \in StrictSubsetOrdering(Nat) BY <2>1 DEF StrictSubsetOrdering
  <2> QED BY <1>2, <1>3, <2>2
<1> QED BY <1>4

(* A loop over 1..len that stops at the first index in Hit has a stopping
   point: it passed no hit, and the next index, if any, is one. *)
LEMMA FirstHit ==
  ASSUME NEW len \in Nat, NEW Hit
  PROVE  \E n \in 0..len : /\ \A k \in 1..n : k \notin Hit
                           /\ n < len => n + 1 \in Hit
<1>1. CASE \A k \in 1..len : k \notin Hit BY <1>1
<1>2. CASE \E k \in 1..len : k \in Hit
  <2> DEFINE S == {k \in 1..len : k \in Hit}
  <2>1. S \in SUBSET Nat /\ S # {} BY <1>2
  <2>2. PICK m \in S : \A k \in S : m <= k BY <2>1, LeastNat
  <2>3. /\ m - 1 \in 0..len /\ (m - 1) + 1 = m
        /\ \A k \in 1..(m - 1) : k \notin Hit
    BY <2>2
  <2> QED BY <2>2, <2>3
<1> QED BY <1>1, <1>2

(* GapLedger::discard_before pops exactly the leading records that end at
   or before the cursor. *)
LEMMA GapsPopped ==
  ASSUME NEW gaps \in Seq(GapRecord), NEW cursor \in Nat
  PROVE  /\ gaps_popped(gaps, cursor) \in 0..Len(gaps)
         /\ \A k \in 1..gaps_popped(gaps, cursor) : gap_end(gaps[k]) <= cursor
         /\ gaps_popped(gaps, cursor) < Len(gaps) =>
              gap_end(gaps[gaps_popped(gaps, cursor) + 1]) > cursor
<1> DEFINE Hit == {k \in 1..Len(gaps) : gap_end(gaps[k]) > cursor}
<1>0. /\ Len(gaps) \in Nat
      /\ \A k \in 1..Len(gaps) : gap_end(gaps[k]) \in Int
  <2>1. Len(gaps) \in Nat /\ \A k \in 1..Len(gaps) : gaps[k] \in GapRecord OBVIOUS
  <2>2. \A r \in GapRecord : gap_end(r) \in Int BY DEF gap_end, GapRecord
  <2> QED BY <2>1, <2>2
<1>1. PICK n \in 0..Len(gaps) : /\ \A k \in 1..n : k \notin Hit
                                /\ n < Len(gaps) => n + 1 \in Hit
  <2> HIDE DEF Hit
  <2> QED BY <1>0, FirstHit
<1>2. \A k \in 1..n : gap_end(gaps[k]) <= cursor BY <1>0, <1>1
<1>3. n < Len(gaps) => gap_end(gaps[n + 1]) > cursor BY <1>1
<1> QED BY <1>2, <1>3 DEF gaps_popped

(* ContinuityLedger::discard_before pops exactly the leading breaks before
   the cursor. *)
LEMMA BreaksPopped ==
  ASSUME NEW breaks \in Seq(ContinuityBreakRecord), NEW cursor \in Nat
  PROVE  /\ breaks_popped(breaks, cursor) \in 0..Len(breaks)
         /\ \A k \in 1..breaks_popped(breaks, cursor) :
              break_end(breaks[k]) <= cursor
         /\ breaks_popped(breaks, cursor) < Len(breaks) =>
              break_end(breaks[breaks_popped(breaks, cursor) + 1]) > cursor
<1> DEFINE Hit == {k \in 1..Len(breaks) : break_end(breaks[k]) > cursor}
<1>0. /\ Len(breaks) \in Nat
      /\ \A k \in 1..Len(breaks) : break_end(breaks[k]) \in Int
  <2>1. Len(breaks) \in Nat /\ \A k \in 1..Len(breaks) : breaks[k] \in ContinuityBreakRecord
    OBVIOUS
  <2>2. \A r \in ContinuityBreakRecord : break_end(r) \in Int
    BY DEF break_end, ContinuityBreakRecord
  <2> QED BY <2>1, <2>2
<1>1. PICK n \in 0..Len(breaks) : /\ \A k \in 1..n : k \notin Hit
                                  /\ n < Len(breaks) => n + 1 \in Hit
  <2> HIDE DEF Hit
  <2> QED BY <1>0, FirstHit
<1>2. \A k \in 1..n : break_end(breaks[k]) <= cursor BY <1>0, <1>1
<1>3. n < Len(breaks) => break_end(breaks[n + 1]) > cursor BY <1>1
<1> QED BY <1>2, <1>3 DEF breaks_popped
------------------------
(* Ledgers after discard_before. *)

(* A trimmed gap keeps its end and starts at the cursor at the earliest. *)
LEMMA GapTrimmed ==
  ASSUME NEW g \in GapRecord, NEW cursor \in Nat,
         gap_end(g) > cursor, g.missing_count > 0
  PROVE  /\ gap_trimmed(g, cursor) \in GapRecord
         /\ gap_end(gap_trimmed(g, cursor)) = gap_end(g)
         /\ gap_trimmed(g, cursor).first_missing >= g.first_missing
         /\ gap_trimmed(g, cursor).first_missing >= cursor
         /\ \/ gap_trimmed(g, cursor).first_missing = g.first_missing
            \/ gap_trimmed(g, cursor).first_missing = cursor
         /\ gap_trimmed(g, cursor).missing_count > 0
         /\ gap_trimmed(g, cursor).reason = g.reason
<1>1. /\ g.first_missing \in Nat /\ g.missing_count \in Nat
      /\ g.reason \in GapReason
      /\ g.first_missing + g.missing_count > cursor
  BY DEF GapRecord, gap_end
<1>2. CASE g.first_missing < cursor
  <2>1. gap_trimmed(g, cursor) =
          [g EXCEPT !.missing_count = gap_end(g) - cursor,
                    !.first_missing = cursor]
    BY <1>2 DEF gap_trimmed
  <2>2. /\ gap_trimmed(g, cursor).first_missing = cursor
        /\ gap_trimmed(g, cursor).missing_count = gap_end(g) - cursor
        /\ gap_trimmed(g, cursor).reason = g.reason
    BY <2>1 DEF GapRecord
  <2>3. gap_end(g) - cursor \in Nat /\ gap_end(g) - cursor > 0 BY <1>1 DEF gap_end
  <2>4. gap_trimmed(g, cursor) \in GapRecord BY <2>1, <2>3 DEF GapRecord
  <2>5. gap_end(gap_trimmed(g, cursor)) = gap_end(g) BY <2>2, <2>3, <1>1 DEF gap_end
  <2> QED BY <1>1, <1>2, <2>2, <2>3, <2>4, <2>5
<1>3. CASE ~(g.first_missing < cursor) BY <1>1, <1>3 DEF gap_trimmed
<1> QED BY <1>2, <1>3

(* `after' covers, from the cursor on, what `gaps' covered: each of its
   records is the rest of one of theirs, and each of theirs that reaches
   past the cursor has its rest in it. *)
GapsRest(gaps, after, cursor) ==
  /\ \A i \in DOMAIN after : \E k \in DOMAIN gaps :
       /\ gaps[k].first_missing <= after[i].first_missing
       /\ gap_end(after[i]) = gap_end(gaps[k])
       /\ after[i].reason = gaps[k].reason
  /\ \A k \in DOMAIN gaps : gap_end(gaps[k]) > cursor =>
       \E i \in DOMAIN after :
         /\ gap_end(after[i]) = gap_end(gaps[k])
         /\ after[i].reason = gaps[k].reason
         /\ \/ after[i].first_missing = gaps[k].first_missing
            \/ after[i].first_missing <= cursor

(* `after' holds exactly the breaks at or after the cursor. *)
BreaksRest(breaks, after, cursor) ==
  /\ \A i \in DOMAIN after : \E k \in DOMAIN breaks : after[i] = breaks[k]
  /\ \A k \in DOMAIN breaks : breaks[k].at_sequence >= cursor =>
       \E i \in DOMAIN after : after[i] = breaks[k]

(* The gap ledger after a discard holds the rest of its ranges: ordered,
   at or after the cursor, and covering the same positions from there on. *)
LEMMA GapDiscard ==
  ASSUME NEW gaps \in Seq(GapRecord), NEW low \in Nat, NEW high \in Nat,
         NEW cursor \in Nat, GapsWithin(gaps, low, high)
  PROVE  LET after == gap_discard_before(gaps, cursor)
         IN  /\ after \in Seq(GapRecord)
             /\ GapsWithin(after, cursor, high)
             /\ Len(after) <= Len(gaps)
             /\ gaps # <<>> /\ gap_end(gaps[1]) <= cursor =>
                  Len(after) < Len(gaps)
             /\ GapsRest(gaps, after, cursor)
<1> DEFINE n == gaps_popped(gaps, cursor)
           after == gap_discard_before(gaps, cursor)
<1>1. /\ n \in 0..Len(gaps)
      /\ \A k \in 1..n : gap_end(gaps[k]) <= cursor
      /\ n < Len(gaps) => gap_end(gaps[n + 1]) > cursor
  BY GapsPopped
<1>2. /\ Len(gaps) \in Nat /\ DOMAIN gaps = 1..Len(gaps)
      /\ \A k \in 1..Len(gaps) : gaps[k] \in GapRecord
  OBVIOUS
<1>3. \A k \in 1..Len(gaps) :
        /\ gaps[k].first_missing \in Nat /\ gaps[k].missing_count \in Nat
        /\ gap_end(gaps[k]) \in Nat
  BY <1>2 DEF GapRecord, gap_end
<1> HIDE DEF n
<1>4. /\ after = [k \in 1..(Len(gaps) - n) |->
                   IF k = 1 THEN gap_trimmed(gaps[n + 1], cursor)
                   ELSE gaps[n + k]]
  BY DEF gap_discard_before, n
<1>6. ASSUME n < Len(gaps)
      PROVE  /\ gap_trimmed(gaps[n + 1], cursor) \in GapRecord
             /\ gap_end(gap_trimmed(gaps[n + 1], cursor)) = gap_end(gaps[n + 1])
             /\ gap_trimmed(gaps[n + 1], cursor).first_missing
                  >= gaps[n + 1].first_missing
             /\ gap_trimmed(gaps[n + 1], cursor).first_missing >= cursor
             /\ \/ gap_trimmed(gaps[n + 1], cursor).first_missing
                      = gaps[n + 1].first_missing
                \/ gap_trimmed(gaps[n + 1], cursor).first_missing = cursor
             /\ gap_trimmed(gaps[n + 1], cursor).missing_count > 0
             /\ gap_trimmed(gaps[n + 1], cursor).reason = gaps[n + 1].reason
  <2>1. /\ gaps[n + 1] \in GapRecord /\ gap_end(gaps[n + 1]) > cursor
        /\ gaps[n + 1].missing_count > 0
    BY <1>6, <1>1, <1>2 DEF GapsWithin
  <2> QED BY <2>1, GapTrimmed
<1>7. \A k \in 1..(Len(gaps) - n) : after[k] \in GapRecord BY <1>1, <1>2, <1>4, <1>6
<1>8. /\ after \in Seq(GapRecord) /\ Len(after) = Len(gaps) - n
      /\ DOMAIN after = 1..(Len(gaps) - n)
  BY <1>1, <1>2, <1>4, <1>7
<1>9. \A k \in 1..(Len(gaps) - n) :
        /\ n + k \in 1..Len(gaps)
        /\ gap_end(after[k]) = gap_end(gaps[n + k])
        /\ after[k].first_missing >= gaps[n + k].first_missing
        /\ after[k].first_missing >= cursor
        /\ after[k].missing_count > 0
        /\ after[k].reason = gaps[n + k].reason
        /\ \/ after[k].first_missing = gaps[n + k].first_missing
           \/ after[k].first_missing <= cursor
  <2> SUFFICES ASSUME NEW k \in 1..(Len(gaps) - n)
               PROVE  /\ n + k \in 1..Len(gaps)
                      /\ gap_end(after[k]) = gap_end(gaps[n + k])
                      /\ after[k].first_missing >= gaps[n + k].first_missing
                      /\ after[k].first_missing >= cursor
                      /\ after[k].missing_count > 0
                      /\ after[k].reason = gaps[n + k].reason
                      /\ \/ after[k].first_missing = gaps[n + k].first_missing
                         \/ after[k].first_missing <= cursor
    OBVIOUS
  <2>0. n + k \in 1..Len(gaps) BY <1>1, <1>2
  <2>1. CASE k = 1 BY <2>0, <2>1, <1>1, <1>2, <1>3, <1>4, <1>6
  <2>2. CASE k # 1
    <3>1. after[k] = gaps[n + k] /\ n + 1 \in 1..Len(gaps) /\ n + 1 < n + k
      BY <2>0, <2>2, <1>1, <1>2, <1>4
    <3>2. gap_end(gaps[n + 1]) <= gaps[n + k].first_missing
      BY <2>0, <3>1, <1>2 DEF GapsWithin
    <3>3. gap_end(gaps[n + 1]) > cursor BY <1>1, <3>1
    <3> QED BY <2>0, <3>1, <3>2, <3>3, <1>2, <1>3 DEF GapsWithin
  <2> QED BY <2>1, <2>2
<1> HIDE DEF after
<1>10. GapsWithin(after, cursor, high)
  <2>1. Len(after) <= GapCapacity BY <1>8, <1>1, <1>2, CapacityAssumption DEF GapsWithin
  <2>2. \A i \in DOMAIN after : /\ after[i].missing_count > 0
                                /\ cursor <= after[i].first_missing
                                /\ gap_end(after[i]) <= high
    BY <1>2, <1>7, <1>8, <1>9 DEF GapsWithin, GapRecord
  <2>3. \A i, k \in DOMAIN after :
          i < k => gap_end(after[i]) <= after[k].first_missing
    <3> SUFFICES ASSUME NEW i \in DOMAIN after, NEW k \in DOMAIN after, i < k
                 PROVE  gap_end(after[i]) <= after[k].first_missing
      OBVIOUS
    <3>1. /\ n + i \in DOMAIN gaps /\ n + k \in DOMAIN gaps /\ n + i < n + k
      BY <1>1, <1>2, <1>8, <1>9
    <3>2. gap_end(gaps[n + i]) <= gaps[n + k].first_missing BY <3>1 DEF GapsWithin
    <3>3. after[k].first_missing \in Nat BY <1>7, <1>8 DEF GapRecord
    <3> QED BY <3>1, <3>2, <3>3, <1>2, <1>3, <1>8, <1>9
  <2> QED BY <2>1, <2>2, <2>3 DEF GapsWithin
<1>11. gaps # <<>> /\ gap_end(gaps[1]) <= cursor => Len(after) < Len(gaps)
  <2> SUFFICES ASSUME gaps # <<>>, gap_end(gaps[1]) <= cursor
               PROVE  Len(after) < Len(gaps)
    OBVIOUS
  <2>1. 1 \in 1..Len(gaps) OBVIOUS
  <2>2. n # 0 BY <2>1, <1>1, <1>3
  <2> QED BY <2>2, <1>1, <1>2, <1>8
<1>12. \A k \in DOMAIN gaps : gap_end(gaps[k]) > cursor =>
         \E i \in DOMAIN after :
           /\ gap_end(after[i]) = gap_end(gaps[k])
           /\ after[i].reason = gaps[k].reason
           /\ \/ after[i].first_missing = gaps[k].first_missing
              \/ after[i].first_missing <= cursor
  <2> SUFFICES ASSUME NEW k \in DOMAIN gaps, gap_end(gaps[k]) > cursor
               PROVE  \E i \in DOMAIN after :
                        /\ gap_end(after[i]) = gap_end(gaps[k])
                        /\ after[i].reason = gaps[k].reason
                        /\ \/ after[i].first_missing = gaps[k].first_missing
                           \/ after[i].first_missing <= cursor
    OBVIOUS
  <2>1. k > n BY <1>1, <1>2, <1>3
  <2>2. k - n \in DOMAIN after /\ n + (k - n) = k BY <2>1, <1>1, <1>2, <1>8
  <2> QED BY <2>2, <1>8, <1>9
<1>13. \A i \in DOMAIN after : \E k \in DOMAIN gaps :
         /\ gaps[k].first_missing <= after[i].first_missing
         /\ gap_end(after[i]) = gap_end(gaps[k])
         /\ after[i].reason = gaps[k].reason
  BY <1>2, <1>3, <1>7, <1>8, <1>9 DEF GapRecord
<1>14. Len(after) <= Len(gaps) BY <1>1, <1>2, <1>8
<1>15. GapsRest(gaps, after, cursor) BY <1>12, <1>13 DEF GapsRest
<1> QED BY <1>8, <1>10, <1>11, <1>14, <1>15 DEF after

(* The continuity ledger after a discard holds exactly its breaks at or
   after the cursor. *)
LEMMA BreakDiscard ==
  ASSUME NEW breaks \in Seq(ContinuityBreakRecord), NEW low \in Nat,
         NEW high \in Nat, NEW cursor \in Nat, BreaksWithin(breaks, low, high)
  PROVE  LET after == break_discard_before(breaks, cursor)
         IN  /\ after \in Seq(ContinuityBreakRecord)
             /\ BreaksWithin(after, cursor, high)
             /\ Len(after) <= Len(breaks)
             /\ breaks # <<>> /\ break_end(breaks[1]) <= cursor =>
                  Len(after) < Len(breaks)
             /\ BreaksRest(breaks, after, cursor)
<1> DEFINE n == breaks_popped(breaks, cursor)
           after == break_discard_before(breaks, cursor)
<1>1. /\ n \in 0..Len(breaks)
      /\ \A k \in 1..n : break_end(breaks[k]) <= cursor
      /\ n < Len(breaks) => break_end(breaks[n + 1]) > cursor
  BY BreaksPopped
<1>2. /\ Len(breaks) \in Nat /\ DOMAIN breaks = 1..Len(breaks)
      /\ \A k \in 1..Len(breaks) : breaks[k] \in ContinuityBreakRecord
  OBVIOUS
<1>3. \A k \in 1..Len(breaks) :
        /\ breaks[k].at_sequence \in Nat
        /\ break_end(breaks[k]) = breaks[k].at_sequence + 1
  BY <1>2 DEF ContinuityBreakRecord, break_end
<1> HIDE DEF n
<1>4. after = [k \in 1..(Len(breaks) - n) |-> breaks[n + k]]
  BY DEF break_discard_before, n
<1>5. \A k \in 1..(Len(breaks) - n) :
        /\ n + k \in 1..Len(breaks) /\ after[k] = breaks[n + k]
  BY <1>1, <1>2, <1>4
<1>6. /\ after \in Seq(ContinuityBreakRecord) /\ Len(after) = Len(breaks) - n
      /\ DOMAIN after = 1..(Len(breaks) - n)
  BY <1>1, <1>2, <1>4, <1>5
<1> HIDE DEF after
<1>7. \A k \in (n + 1)..Len(breaks) : breaks[k].at_sequence >= cursor
  <2> SUFFICES ASSUME NEW k \in (n + 1)..Len(breaks)
               PROVE  breaks[k].at_sequence >= cursor
    OBVIOUS
  <2>1. /\ n + 1 \in 1..Len(breaks) /\ k \in 1..Len(breaks)
        /\ breaks[n + 1].at_sequence + 1 > cursor
    BY <1>1, <1>2, <1>3
  <2>2. CASE k = n + 1 BY <2>1, <2>2, <1>3
  <2>3. CASE k > n + 1 BY SMTT(30), <2>1, <2>3, <1>2, <1>3 DEF BreaksWithin
  <2> QED BY <2>2, <2>3, <1>1
<1>8. BreaksWithin(after, cursor, high)
  <2>1. Len(after) <= ContinuityCapacity
    BY <1>6, <1>1, <1>2, CapacityAssumption DEF BreaksWithin
  <2>2. \A i \in DOMAIN after : /\ cursor <= after[i].at_sequence
                                /\ break_end(after[i]) <= high
    <3> SUFFICES ASSUME NEW i \in DOMAIN after
                 PROVE  /\ cursor <= after[i].at_sequence
                        /\ break_end(after[i]) <= high
      OBVIOUS
    <3>1. /\ n + i \in (n + 1)..Len(breaks) /\ n + i \in DOMAIN breaks
          /\ after[i] = breaks[n + i]
      BY <1>1, <1>2, <1>5, <1>6
    <3> QED BY <3>1, <1>2, <1>3, <1>7 DEF BreaksWithin
  <2>3. \A i, k \in DOMAIN after :
          i < k => after[i].at_sequence < after[k].at_sequence
    <3> SUFFICES ASSUME NEW i \in DOMAIN after, NEW k \in DOMAIN after, i < k
                 PROVE  after[i].at_sequence < after[k].at_sequence
      OBVIOUS
    <3>1. /\ n + i \in DOMAIN breaks /\ n + k \in DOMAIN breaks /\ n + i < n + k
          /\ after[i] = breaks[n + i] /\ after[k] = breaks[n + k]
      BY <1>1, <1>2, <1>5, <1>6
    <3> QED BY <3>1 DEF BreaksWithin
  <2> QED BY <2>1, <2>2, <2>3 DEF BreaksWithin
<1>9. breaks # <<>> /\ break_end(breaks[1]) <= cursor => Len(after) < Len(breaks)
  <2> SUFFICES ASSUME breaks # <<>>, break_end(breaks[1]) <= cursor
               PROVE  Len(after) < Len(breaks)
    OBVIOUS
  <2>1. 1 \in 1..Len(breaks) OBVIOUS
  <2>2. n # 0 BY <2>1, <1>1, <1>3
  <2> QED BY <2>2, <1>1, <1>2, <1>6
<1>10. \A i \in DOMAIN after : \E k \in DOMAIN breaks : after[i] = breaks[k]
  BY <1>2, <1>5, <1>6
<1>11. \A k \in DOMAIN breaks : breaks[k].at_sequence >= cursor =>
         \E i \in DOMAIN after : after[i] = breaks[k]
  <2> SUFFICES ASSUME NEW k \in DOMAIN breaks, breaks[k].at_sequence >= cursor
               PROVE  \E i \in DOMAIN after : after[i] = breaks[k]
    OBVIOUS
  <2>1. k > n BY <1>1, <1>2, <1>3
  <2>0. k \in 1..Len(breaks) /\ n \in Nat /\ Len(breaks) \in Nat BY <1>1, <1>2
  <2>2. k - n \in 1..(Len(breaks) - n) /\ n + (k - n) = k BY <2>0, <2>1
  <2> QED BY <2>2, <1>5, <1>6
<1>12. Len(after) <= Len(breaks) BY <1>1, <1>2, <1>6
<1>13. BreaksRest(breaks, after, cursor) BY <1>10, <1>11 DEF BreaksRest
<1> QED BY <1>6, <1>8, <1>9, <1>12, <1>13 DEF after

------------------------
(* Counting the samples between two cursors. *)

(* Position q is neither in a gap nor a break. *)
SampleAt(j, q) ==
  /\ \A i \in DOMAIN j.gaps :
       ~(j.gaps[i].first_missing <= q /\ q < gap_end(j.gaps[i]))
  /\ \A i \in DOMAIN j.continuity : j.continuity[i].at_sequence # q

SamplePositions(j, begin, end) == {q \in begin..(end - 1) : SampleAt(j, q)}

(* With disjoint ledgers samples_between counts the positions that are
   neither gap nor break. *)
LEMMA SamplesBetweenCounts ==
  ASSUME NEW j, j.gaps \in Seq(GapRecord),
         j.continuity \in Seq(ContinuityBreakRecord),
         LedgersDisjoint(j.gaps, j.continuity),
         NEW begin \in Nat, NEW end \in Nat, begin <= end
  PROVE  /\ samples_between(j, begin, end) =
              Cardinality(SamplePositions(j, begin, end))
         /\ samples_between(j, begin, end) \in Nat
         /\ IsFiniteSet(SamplePositions(j, begin, end))
<1> DEFINE All == begin..(end - 1)
           G == gap_positions(j, begin, end)
           B == break_positions(j, begin, end)
<1>1. IsFiniteSet(All) /\ Cardinality(All) = end - begin
  <2>1. /\ begin \in Int /\ end - 1 \in Int
        /\ (IF begin > end - 1 THEN 0 ELSE (end - 1) - begin + 1) = end - begin
    OBVIOUS
  <2> QED BY <2>1, FS_Interval
<1>2. G \subseteq All /\ B \subseteq All BY DEF gap_positions, break_positions
<1>3. G \cap B = {}
  <2> SUFFICES ASSUME NEW q \in G, q \in B PROVE FALSE OBVIOUS
  <2>1. PICK i \in DOMAIN j.gaps :
          j.gaps[i].first_missing <= q /\ q < gap_end(j.gaps[i])
    BY DEF gap_positions
  <2>2. PICK k \in DOMAIN j.continuity : j.continuity[k].at_sequence = q
    BY DEF break_positions
  <2>3. q \in Int /\ j.gaps[i] \in GapRecord BY <1>2
  <2>4. \/ j.continuity[k].at_sequence < j.gaps[i].first_missing
        \/ gap_end(j.gaps[i]) <= j.continuity[k].at_sequence
    BY <2>1, <2>2 DEF LedgersDisjoint
  <2>5. j.gaps[i].first_missing \in Nat /\ gap_end(j.gaps[i]) \in Nat
    BY SMTT(30), <2>3 DEF GapRecord, gap_end
  <2> QED BY <2>1, <2>2, <2>3, <2>4, <2>5
<1> HIDE DEF All, G, B
<1>4. /\ IsFiniteSet(All \ G)
      /\ Cardinality(All \ G) = Cardinality(All) - Cardinality(G)
  <2>1. All \cap G = G BY <1>2
  <2>2. /\ IsFiniteSet(All \ G)
        /\ Cardinality(All \ G) = Cardinality(All) - Cardinality(All \cap G)
    BY <1>1, FS_Difference
  <2> QED BY <2>1, <2>2
<1>5. /\ IsFiniteSet((All \ G) \ B)
      /\ Cardinality((All \ G) \ B) = Cardinality(All \ G) - Cardinality(B)
  <2>1. (All \ G) \cap B = B BY <1>2, <1>3
  <2>2. /\ IsFiniteSet((All \ G) \ B)
        /\ Cardinality((All \ G) \ B) =
             Cardinality(All \ G) - Cardinality((All \ G) \cap B)
    BY <1>4, FS_Difference
  <2> QED BY <2>1, <2>2
<1>6. Cardinality((All \ G) \ B) \in Nat BY <1>5, FS_CardinalityType
<1>7. SamplePositions(j, begin, end) = (All \ G) \ B
  BY DEF SamplePositions, SampleAt, gap_positions, break_positions, All, G, B
<1>8. samples_between(j, begin, end) =
        IF end <= begin THEN 0
        ELSE (end - begin) - Cardinality(G) - Cardinality(B)
  BY DEF samples_between, G, B
<1>9. CASE end <= begin
  <2>1. (All \ G) \ B = {} BY <1>9 DEF All
  <2> QED BY <2>1, <1>5, <1>7, <1>8, <1>9, FS_EmptySet
<1>10. CASE ~(end <= begin)
  <2>1. IsFiniteSet(G) /\ IsFiniteSet(B) BY <1>1, <1>2, FS_Subset
  <2>2. Cardinality(G) \in Nat /\ Cardinality(B) \in Nat BY <2>1, FS_CardinalityType
  <2> QED BY <1>1, <1>4, <1>5, <1>6, <1>7, <1>8, <1>10, <2>2
<1> QED BY <1>9, <1>10

(* What the ledgers of a journal must satisfy for the count to be exact. *)
Ledgers(j) ==
  /\ j.gaps \in Seq(GapRecord)
  /\ j.continuity \in Seq(ContinuityBreakRecord)
  /\ LedgersDisjoint(j.gaps, j.continuity)

(* Two journals whose ledgers agree on a range count the same samples. *)
LEMMA SamplesAgree ==
  ASSUME NEW j1, NEW j2, Ledgers(j1), Ledgers(j2),
         NEW begin \in Nat, NEW end \in Nat, begin <= end,
         \A q \in begin..(end - 1) : SampleAt(j1, q) <=> SampleAt(j2, q)
  PROVE  samples_between(j1, begin, end) = samples_between(j2, begin, end)
<1>1. SamplePositions(j1, begin, end) = SamplePositions(j2, begin, end)
  BY DEF SamplePositions
<1>2. samples_between(j1, begin, end) = Cardinality(SamplePositions(j1, begin, end))
  BY SamplesBetweenCounts DEF Ledgers
<1>3. samples_between(j2, begin, end) = Cardinality(SamplePositions(j2, begin, end))
  BY SamplesBetweenCounts DEF Ledgers
<1> QED BY <1>1, <1>2, <1>3

(* The count splits at any cursor of the range. *)
LEMMA SamplesSplit ==
  ASSUME NEW j, Ledgers(j), NEW begin \in Nat, NEW mid \in Nat, NEW end \in Nat,
         begin <= mid, mid <= end
  PROVE  /\ samples_between(j, begin, end) =
              samples_between(j, begin, mid) + samples_between(j, mid, end)
         /\ samples_between(j, begin, mid) \in Nat
         /\ samples_between(j, mid, end) \in Nat
<1> DEFINE A == SamplePositions(j, begin, mid)
           B == SamplePositions(j, mid, end)
           U == SamplePositions(j, begin, end)
<1>1. /\ samples_between(j, begin, mid) = Cardinality(A)
      /\ samples_between(j, begin, mid) \in Nat /\ IsFiniteSet(A)
  BY SamplesBetweenCounts DEF Ledgers
<1>2. /\ samples_between(j, mid, end) = Cardinality(B)
      /\ samples_between(j, mid, end) \in Nat /\ IsFiniteSet(B)
  BY SamplesBetweenCounts DEF Ledgers
<1>3. samples_between(j, begin, end) = Cardinality(U)
  <2>1. begin <= end OBVIOUS
  <2> QED BY <2>1, SamplesBetweenCounts DEF Ledgers
<1>4. U = A \cup B /\ A \cap B = {} BY DEF SamplePositions
<1> HIDE DEF A, B, U
<1>5. Cardinality(A \cup B) = Cardinality(A) + Cardinality(B) - Cardinality(A \cap B)
  BY <1>1, <1>2, FS_Union
<1>6. Cardinality(A \cap B) = 0 BY <1>4, FS_EmptySet
<1> QED BY <1>1, <1>2, <1>3, <1>4, <1>5, <1>6

(* A range with no sample position counts zero. *)
LEMMA SamplesNone ==
  ASSUME NEW j, Ledgers(j), NEW begin \in Nat, NEW end \in Nat, begin <= end,
         \A q \in begin..(end - 1) : ~SampleAt(j, q)
  PROVE  samples_between(j, begin, end) = 0
<1>1. SamplePositions(j, begin, end) = {} BY DEF SamplePositions
<1>2. samples_between(j, begin, end) = Cardinality(SamplePositions(j, begin, end))
  BY SamplesBetweenCounts DEF Ledgers
<1> QED BY <1>1, <1>2, FS_EmptySet

(* A sample position alone counts one. *)
LEMMA SamplesOne ==
  ASSUME NEW j, Ledgers(j), NEW q \in Nat, SampleAt(j, q)
  PROVE  samples_between(j, q, q + 1) = 1
<1>1. SamplePositions(j, q, q + 1) = {q} BY DEF SamplePositions
<1>2. q + 1 \in Nat /\ q <= q + 1 OBVIOUS
<1>3. samples_between(j, q, q + 1) = Cardinality(SamplePositions(j, q, q + 1))
  BY <1>2, SamplesBetweenCounts DEF Ledgers
<1> QED BY <1>1, <1>3, FS_Singleton

(* The count depends on the ledgers only. *)
LEMMA SamplesLedgers ==
  ASSUME NEW j1, NEW j2, NEW begin, NEW end,
         j1.gaps = j2.gaps, j1.continuity = j2.continuity
  PROVE  samples_between(j1, begin, end) = samples_between(j2, begin, end)
  BY DEF samples_between, gap_positions, break_positions
------------------------
(* discard_retention_before and the appends. *)

(* The fields of a ledger's records. *)
LEMMA GapFields ==
  ASSUME NEW gaps \in Seq(GapRecord), NEW i \in DOMAIN gaps
  PROVE  /\ gaps[i] \in GapRecord
         /\ gaps[i].first_missing \in Nat /\ gaps[i].missing_count \in Nat
         /\ gap_end(gaps[i]) \in Nat
<1>1. gaps[i] \in GapRecord OBVIOUS
<1> QED BY <1>1 DEF GapRecord, gap_end

(* The fields of a stored break. *)
LEMMA BreakFields ==
  ASSUME NEW breaks \in Seq(ContinuityBreakRecord), NEW i \in DOMAIN breaks
  PROVE  /\ breaks[i] \in ContinuityBreakRecord
         /\ breaks[i].at_sequence \in Nat
         /\ break_end(breaks[i]) = breaks[i].at_sequence + 1
<1>1. breaks[i] \in ContinuityBreakRecord OBVIOUS
<1> QED BY <1>1 DEF ContinuityBreakRecord, break_end

(* The parts of JournalInv, with the types the arithmetic needs. *)
LEMMA JournalParts ==
  ASSUME NEW j, JournalInv(j)
  PROVE  /\ Ledgers(j)
         /\ j.retained_from \in Nat /\ j.produced \in Nat
         /\ j.delivered \in Nat /\ j.released \in Nat
         /\ j.retained_from <= MaxSequence /\ j.produced <= MaxSequence
         /\ j.delivered <= MaxSequence
         /\ j.released <= j.retained_from /\ j.retained_from <= j.produced
         /\ j.delivered <= j.produced
         /\ j.sample_size \in Nat /\ j.sample_size <= SampleCapacity
         /\ j.sample_head \in Nat
         /\ j.discarded_samples \in Nat /\ j.discarded_sequences \in Nat
         /\ j.retention_collapses \in Nat
         /\ \A i \in DOMAIN j.gaps : /\ j.gaps[i].first_missing \in Nat
                                     /\ j.gaps[i].missing_count \in Nat
                                     /\ gap_end(j.gaps[i]) \in Nat
         /\ \A i \in DOMAIN j.continuity :
              /\ j.continuity[i].at_sequence \in Nat
              /\ break_end(j.continuity[i]) \in Nat
<1>1. /\ j \in Journal /\ LedgersDisjoint(j.gaps, j.continuity)
      /\ CursorsOrdered(j)
  BY DEF JournalInv
<1>2. /\ j.gaps \in Seq(GapRecord) /\ j.continuity \in Seq(ContinuityBreakRecord)
      /\ j.retained_from \in Nat /\ j.produced \in Nat
      /\ j.delivered \in Nat /\ j.released \in Nat
      /\ j.retained_from <= MaxSequence /\ j.produced <= MaxSequence
      /\ j.delivered <= MaxSequence
      /\ j.sample_size \in Nat /\ j.sample_size <= SampleCapacity
      /\ j.sample_head \in Nat
      /\ j.discarded_samples \in Nat /\ j.discarded_sequences \in Nat
      /\ j.retention_collapses \in Nat
  BY <1>1, CapacityAssumption DEF Journal, Sequence
<1>3. \A g \in GapRecord : /\ g.first_missing \in Nat /\ g.missing_count \in Nat
                           /\ gap_end(g) \in Nat
  BY DEF GapRecord, gap_end
<1>4. \A b \in ContinuityBreakRecord : b.at_sequence \in Nat /\ break_end(b) \in Nat
  BY DEF ContinuityBreakRecord, break_end
<1>5. /\ \A i \in DOMAIN j.gaps : j.gaps[i] \in GapRecord
      /\ \A i \in DOMAIN j.continuity : j.continuity[i] \in ContinuityBreakRecord
  BY <1>2
<1> QED BY <1>1, <1>2, <1>3, <1>4, <1>5 DEF Ledgers, CursorsOrdered

(* A retention cut inside the journal succeeds, whoever asks for it: it
   leaves a consistent journal that starts at the cut, with the samples
   from there on, and touches no other cursor. *)
LEMMA DiscardRetention ==
  ASSUME NEW j, JournalInv(j), ~j.prepared_valid, NEW cursor \in Nat,
         NEW is_loss \in BOOLEAN,
         j.retained_from <= cursor, cursor <= j.produced
  PROVE  LET r == discard_retention_before(j, cursor, is_loss)
         IN  /\ r.ok
             /\ JournalInv(r.journal)
             /\ ~r.journal.prepared_valid
             /\ r.journal.retained_from = cursor
             /\ r.journal.produced = j.produced
             /\ r.journal.delivered = j.delivered
             /\ r.journal.released = j.released
             /\ r.journal.sample_size = samples_between(j, cursor, j.produced)
             /\ r.journal.gaps = gap_discard_before(j.gaps, cursor)
             /\ r.journal.continuity = break_discard_before(j.continuity, cursor)
             /\ r.journal.discarded_sequences >= j.discarded_sequences
<1> DEFINE remove == samples_between(j, j.retained_from, cursor)
           gaps == gap_discard_before(j.gaps, cursor)
           breaks == break_discard_before(j.continuity, cursor)
           head == (j.sample_head + remove) % SampleCapacity
           kept == [j EXCEPT !.sample_head = head,
                             !.sample_size = @ - remove,
                             !.gaps = gaps, !.continuity = breaks,
                             !.retained_from = cursor]
           counted == [kept EXCEPT
                         !.discarded_samples = @ + remove,
                         !.discarded_sequences = @ + (cursor - j.retained_from),
                         !.retention_collapses = @ + 1]
<1> HIDE DEF remove, gaps, breaks, head, kept, counted
<1>1. /\ j \in Journal /\ Ledgers(j)
      /\ GapsWithin(j.gaps, j.retained_from, j.produced)
      /\ BreaksWithin(j.continuity, j.retained_from, j.produced)
      /\ j.sample_size = samples_between(j, j.retained_from, j.produced)
  BY JournalParts DEF JournalInv, RingExact
<1>2. /\ j.gaps \in Seq(GapRecord) /\ j.continuity \in Seq(ContinuityBreakRecord)
      /\ j.retained_from \in Nat /\ j.produced \in Nat /\ j.sample_head \in Nat
      /\ j.released <= j.retained_from /\ j.delivered <= j.produced
      /\ j.released \in Nat /\ j.delivered \in Nat
      /\ j.produced <= MaxSequence
      /\ j.discarded_samples \in Nat /\ j.discarded_sequences \in Nat
      /\ j.retention_collapses \in Nat
      /\ j.sample_size \in Nat /\ j.sample_size <= SampleCapacity
  BY <1>1, JournalParts DEF Ledgers
<1>3. /\ j.sample_size = remove + samples_between(j, cursor, j.produced)
      /\ remove \in Nat /\ samples_between(j, cursor, j.produced) \in Nat
  <2>1. /\ Ledgers(j) /\ j.retained_from \in Nat /\ j.produced \in Nat BY <1>1, <1>2
  <2> QED BY <2>1, <1>1, SamplesSplit DEF remove
<1>4. /\ gaps \in Seq(GapRecord) /\ GapsWithin(gaps, cursor, j.produced)
      /\ \A i \in DOMAIN gaps : \E k \in DOMAIN j.gaps :
           /\ j.gaps[k].first_missing <= gaps[i].first_missing
           /\ gap_end(gaps[i]) = gap_end(j.gaps[k])
      /\ \A k \in DOMAIN j.gaps : gap_end(j.gaps[k]) > cursor =>
           \E i \in DOMAIN gaps :
             /\ gap_end(gaps[i]) = gap_end(j.gaps[k])
             /\ \/ gaps[i].first_missing = j.gaps[k].first_missing
                \/ gaps[i].first_missing <= cursor
  <2>1. /\ j.gaps \in Seq(GapRecord)
        /\ j.retained_from \in Nat /\ j.produced \in Nat
        /\ GapsWithin(j.gaps, j.retained_from, j.produced)
    BY <1>1, <1>2
  <2> HIDE <1>1, <1>2
  <2>2. /\ gaps \in Seq(GapRecord) /\ GapsWithin(gaps, cursor, j.produced)
        /\ GapsRest(j.gaps, gaps, cursor)
    BY <2>1, GapDiscard DEF gaps
  <2> QED BY <2>2, Zenon DEF GapsRest
<1>5. /\ breaks \in Seq(ContinuityBreakRecord)
      /\ BreaksWithin(breaks, cursor, j.produced)
      /\ \A i \in DOMAIN breaks : \E k \in DOMAIN j.continuity :
           breaks[i].at_sequence = j.continuity[k].at_sequence
      /\ \A k \in DOMAIN j.continuity : j.continuity[k].at_sequence >= cursor =>
           \E i \in DOMAIN breaks :
             breaks[i].at_sequence = j.continuity[k].at_sequence
  <2>1. /\ j.continuity \in Seq(ContinuityBreakRecord)
        /\ j.retained_from \in Nat /\ j.produced \in Nat
        /\ BreaksWithin(j.continuity, j.retained_from, j.produced)
    BY <1>1, <1>2
  <2> HIDE <1>1, <1>2
  <2>2. /\ breaks \in Seq(ContinuityBreakRecord)
        /\ BreaksWithin(breaks, cursor, j.produced)
        /\ BreaksRest(j.continuity, breaks, cursor)
    BY <2>1, BreakDiscard DEF breaks
  <2> QED BY <2>2, Zenon DEF BreaksRest
<1>6. head \in 0..(SampleCapacity - 1)
  <2>1. j.sample_head + remove \in Int /\ SampleCapacity \in Nat \ {0}
    BY <1>2, <1>3, CapacityAssumption
  <2> QED BY <2>1, ModRange DEF head
<1>7. discard_retention_before(j, cursor, is_loss) =
        [ok |-> TRUE, journal |-> IF is_loss THEN counted ELSE kept]
  BY SMTT(30), <1>2, <1>3 DEF discard_retention_before, remove, gaps, breaks, head,
       kept, counted
<1>8. /\ kept \in Journal
      /\ kept.gaps = gaps /\ kept.continuity = breaks
      /\ kept.retained_from = cursor /\ kept.produced = j.produced
      /\ kept.delivered = j.delivered /\ kept.released = j.released
      /\ kept.sample_size = j.sample_size - remove
      /\ kept.prepared_valid = j.prepared_valid
      /\ kept.discarded_samples = j.discarded_samples
      /\ kept.discarded_sequences = j.discarded_sequences
      /\ kept.retention_collapses = j.retention_collapses
  <2>1. j.sample_size - remove \in 0..SampleCapacity
    <3>1. SampleCapacity \in Nat BY CapacityAssumption
    <3> QED BY SMTT(30), <3>1, <1>2, <1>3
  <2>2. cursor \in 0..MaxSequence BY <1>2, CapacityAssumption
  <2> QED BY <1>1, <1>4, <1>5, <1>6, <2>1, <2>2 DEF Journal, Sequence, kept
<1>9. /\ counted \in Journal
      /\ counted.gaps = gaps /\ counted.continuity = breaks
      /\ counted.retained_from = cursor /\ counted.produced = j.produced
      /\ counted.delivered = j.delivered /\ counted.released = j.released
      /\ counted.sample_size = j.sample_size - remove
      /\ counted.prepared_valid = j.prepared_valid
      /\ counted.discarded_sequences =
           j.discarded_sequences + (cursor - j.retained_from)
  <2>0. /\ cursor - j.retained_from \in Nat
        /\ j.discarded_samples \in Nat /\ j.discarded_sequences \in Nat
        /\ j.retention_collapses \in Nat /\ remove \in Nat
    BY SMTT(30), <1>2, <1>3
  <2>1. /\ kept.discarded_samples + remove \in Nat
        /\ kept.discarded_sequences + (cursor - j.retained_from) \in Nat
        /\ kept.retention_collapses + 1 \in Nat
    <3>1. /\ kept.discarded_samples = j.discarded_samples
          /\ kept.discarded_sequences = j.discarded_sequences
          /\ kept.retention_collapses = j.retention_collapses
      BY <1>8
    <3> QED BY <2>0, <3>1
  <2> QED BY <1>8, <2>1 DEF Journal, counted
<1>10. LedgersDisjoint(gaps, breaks)
  <2> SUFFICES ASSUME NEW i \in DOMAIN gaps, NEW k \in DOMAIN breaks
               PROVE  \/ breaks[k].at_sequence < gaps[i].first_missing
                      \/ gap_end(gaps[i]) <= breaks[k].at_sequence
    BY DEF LedgersDisjoint
  <2>1. PICK m \in DOMAIN j.gaps :
          /\ j.gaps[m].first_missing <= gaps[i].first_missing
          /\ gap_end(gaps[i]) = gap_end(j.gaps[m])
    BY <1>4
  <2>2. PICK n \in DOMAIN j.continuity :
          breaks[k].at_sequence = j.continuity[n].at_sequence
    BY <1>5
  <2>3. \/ j.continuity[n].at_sequence < j.gaps[m].first_missing
        \/ gap_end(j.gaps[m]) <= j.continuity[n].at_sequence
    BY <1>1 DEF Ledgers, LedgersDisjoint
  <2>4. /\ gaps[i].first_missing \in Nat /\ j.gaps[m].first_missing \in Nat
        /\ j.continuity[n].at_sequence \in Nat
    BY <1>2, <1>4, GapFields, BreakFields
  <2> QED BY <2>1, <2>2, <2>3, <2>4
<1>11. ASSUME NEW k, k.gaps = gaps, k.continuity = breaks,
              NEW q \in cursor..(j.produced - 1)
       PROVE  SampleAt(k, q) <=> SampleAt(j, q)
  <2>1. ASSUME NEW i \in DOMAIN gaps,
               gaps[i].first_missing <= q /\ q < gap_end(gaps[i])
        PROVE  ~SampleAt(j, q)
    <3>1. PICK m \in DOMAIN j.gaps :
            /\ j.gaps[m].first_missing <= gaps[i].first_missing
            /\ gap_end(gaps[i]) = gap_end(j.gaps[m])
      BY <1>4
    <3>2. gaps[i].first_missing \in Nat /\ j.gaps[m].first_missing \in Nat
      BY <1>2, <1>4, GapFields
    <3> QED BY <2>1, <3>1, <3>2 DEF SampleAt
  <2>2. ASSUME NEW m \in DOMAIN j.gaps,
               j.gaps[m].first_missing <= q /\ q < gap_end(j.gaps[m])
        PROVE  ~SampleAt(k, q)
    <3>1. gap_end(j.gaps[m]) > cursor /\ gap_end(j.gaps[m]) \in Nat
      <4>1. gap_end(j.gaps[m]) \in Nat BY <1>2, GapFields
      <4> QED BY <2>2, <4>1, <1>2
    <3>2. PICK i \in DOMAIN gaps :
            /\ gap_end(gaps[i]) = gap_end(j.gaps[m])
            /\ \/ gaps[i].first_missing = j.gaps[m].first_missing
               \/ gaps[i].first_missing <= cursor
      BY <1>4, <3>1
    <3>3. gaps[i].first_missing \in Nat BY <1>4, GapFields
    <3>4. gaps[i].first_missing <= q /\ q < gap_end(gaps[i])
      <4>1. q \in Int /\ cursor <= q BY <1>2
      <4>2. j.gaps[m].first_missing <= q /\ q < gap_end(j.gaps[m]) BY <2>2
      <4> QED BY <3>2, <3>3, <4>1, <4>2
    <3> QED BY <1>11, <3>4 DEF SampleAt
  <2>3. ASSUME NEW i \in DOMAIN breaks, breaks[i].at_sequence = q
        PROVE  ~SampleAt(j, q)
    BY <1>5, <2>3 DEF SampleAt
  <2>4. ASSUME NEW m \in DOMAIN j.continuity, j.continuity[m].at_sequence = q
        PROVE  ~SampleAt(k, q)
    <3>1. PICK i \in DOMAIN breaks :
            breaks[i].at_sequence = j.continuity[m].at_sequence
      <4>1. j.continuity[m].at_sequence >= cursor BY <2>4, <1>2
      <4> QED BY <4>1, <1>5
    <3> QED BY <1>11, <2>4, <3>1 DEF SampleAt
  <2> QED BY <1>11, <2>1, <2>2, <2>3, <2>4 DEF SampleAt
<1>12. ASSUME NEW k \in Journal,
              k.gaps = gaps, k.continuity = breaks,
              k.retained_from = cursor, k.produced = j.produced,
              k.delivered = j.delivered, k.released = j.released,
              k.sample_size = j.sample_size - remove,
              k.prepared_valid = j.prepared_valid
       PROVE  /\ JournalInv(k) /\ ~k.prepared_valid
              /\ k.sample_size = samples_between(j, cursor, j.produced)
  <2>1. Ledgers(k) BY <1>12, <1>4, <1>5, <1>10 DEF Ledgers
  <2>2. samples_between(k, cursor, j.produced) = samples_between(j, cursor, j.produced)
    BY <1>1, <1>2, <1>11, <1>12, <2>1, SamplesAgree
  <2>3. k.sample_size = samples_between(j, cursor, j.produced) BY <1>2, <1>3, <1>12
  <2>4. CursorsOrdered(k) /\ PreparedWithin(k)
    BY <1>2, <1>12 DEF CursorsOrdered, PreparedWithin
  <2> QED BY <1>4, <1>5, <1>10, <1>12, <2>2, <2>3, <2>4 DEF JournalInv, RingExact
<1>13. CASE is_loss
  <2>1. discard_retention_before(j, cursor, is_loss).ok
        /\ discard_retention_before(j, cursor, is_loss).journal = counted
    BY <1>7, <1>13
  <2>2. JournalInv(counted) /\ ~counted.prepared_valid
        /\ counted.sample_size = samples_between(j, cursor, j.produced)
    BY <1>9, <1>12
  <2> QED BY <2>1, <2>2, <1>2, <1>9 DEF gaps, breaks
<1>14. CASE ~is_loss
  <2>1. discard_retention_before(j, cursor, is_loss).ok
        /\ discard_retention_before(j, cursor, is_loss).journal = kept
    BY <1>7, <1>14
  <2>2. JournalInv(kept) /\ ~kept.prepared_valid
        /\ kept.sample_size = samples_between(j, cursor, j.produced)
    BY <1>8, <1>12
  <2> QED BY <2>1, <2>2, <1>2, <1>8 DEF gaps, breaks
<1> QED BY <1>13, <1>14

(* Dropping the prepared view keeps a consistent journal. *)
LEMMA InvalidatePrepared ==
  ASSUME NEW j, JournalInv(j)
  PROVE  LET k == invalidate_prepared_view(j)
         IN  /\ JournalInv(k) /\ ~k.prepared_valid
             /\ k.gaps = j.gaps /\ k.continuity = j.continuity
             /\ k.sample_size = j.sample_size /\ k.sample_head = j.sample_head
             /\ k.samples = j.samples
             /\ k.retained_from = j.retained_from /\ k.produced = j.produced
             /\ k.delivered = j.delivered /\ k.released = j.released
             /\ k.discarded_sequences = j.discarded_sequences
<1> DEFINE k == invalidate_prepared_view(j)
<1>1. j \in Journal BY DEF JournalInv
<1>2. /\ k \in Journal /\ k.prepared_valid = FALSE
      /\ k.gaps = j.gaps /\ k.continuity = j.continuity
      /\ k.sample_size = j.sample_size /\ k.sample_head = j.sample_head
      /\ k.samples = j.samples
      /\ k.retained_from = j.retained_from /\ k.produced = j.produced
      /\ k.delivered = j.delivered /\ k.released = j.released
      /\ k.discarded_sequences = j.discarded_sequences
  <2>1. 0 \in 0..MaxSequence BY CapacityAssumption
  <2> QED BY <1>1, <2>1 DEF Journal, Sequence, invalidate_prepared_view
<1> HIDE DEF k
<1>3. samples_between(k, k.retained_from, k.produced) =
        samples_between(j, j.retained_from, j.produced)
  BY <1>2, SamplesLedgers
<1>4. /\ CursorsOrdered(j) /\ RingExact(j)
      /\ GapsWithin(j.gaps, j.retained_from, j.produced)
      /\ BreaksWithin(j.continuity, j.retained_from, j.produced)
      /\ LedgersDisjoint(j.gaps, j.continuity)
  BY DEF JournalInv
<1>5. JournalInv(k)
  BY <1>2, <1>3, <1>4 DEF JournalInv, CursorsOrdered, PreparedWithin, RingExact
<1> QED BY <1>2, <1>5 DEF k

(* A position at or beyond produced is in no gap and at no break. *)
LEMMA NothingAtProduced ==
  ASSUME NEW j, JournalInv(j)
  PROVE  SampleAt(j, j.produced)
<1>1. /\ j.gaps \in Seq(GapRecord) /\ j.continuity \in Seq(ContinuityBreakRecord)
      /\ j.produced \in Nat
  BY JournalParts DEF Ledgers
<1>2. /\ \A i \in DOMAIN j.gaps : gap_end(j.gaps[i]) <= j.produced
      /\ \A i \in DOMAIN j.continuity : break_end(j.continuity[i]) <= j.produced
  BY DEF JournalInv, GapsWithin, BreaksWithin
<1>3. \A i \in DOMAIN j.gaps : gap_end(j.gaps[i]) \in Nat BY <1>1, GapFields
<1>4. \A i \in DOMAIN j.continuity :
        /\ j.continuity[i].at_sequence \in Nat
        /\ break_end(j.continuity[i]) = j.continuity[i].at_sequence + 1
  BY <1>1, BreakFields
<1> QED BY <1>1, <1>2, <1>3, <1>4 DEF SampleAt

(* Storing a sample in a ring with room extends the journal by one. *)
LEMMA PushSample ==
  ASSUME NEW j, JournalInv(j), ~j.prepared_valid, NEW sample \in SampleRecords,
         j.sample_size < SampleCapacity, j.produced < MaxSequence
  PROVE  LET k == push_sample(j, sample)
         IN  /\ JournalInv(k) /\ k.produced = j.produced + 1
             /\ k.retained_from = j.retained_from
             /\ k.delivered = j.delivered /\ k.released = j.released
             /\ k.discarded_sequences = j.discarded_sequences
<1> DEFINE k == push_sample(j, sample)
           index == sample_physical_index(j, j.sample_size)
<1> HIDE DEF k, index
<1>1. /\ j \in Journal /\ Ledgers(j)
      /\ j.produced \in Nat /\ j.retained_from \in Nat /\ j.sample_size \in Nat
      /\ j.retained_from <= j.produced
      /\ SampleCapacity \in Nat /\ MaxSequence \in Nat
  BY JournalParts, CapacityAssumption DEF JournalInv
<1>2. /\ k \in Journal /\ k.prepared_valid = j.prepared_valid
      /\ k.gaps = j.gaps /\ k.continuity = j.continuity
      /\ k.sample_size = j.sample_size + 1
      /\ k.retained_from = j.retained_from /\ k.produced = j.produced + 1
      /\ k.delivered = j.delivered /\ k.released = j.released
      /\ k.discarded_sequences = j.discarded_sequences
  <2>1. /\ j.sample_size + 1 \in 0..SampleCapacity
        /\ j.produced + 1 \in 0..MaxSequence
    BY <1>1
  <2>2. [j.samples EXCEPT ![index] = sample] \in
          [0..(SampleCapacity - 1) -> SampleRecords \cup {NoSample}]
    BY <1>1 DEF Journal
  <2>3. k = [j EXCEPT !.samples = [j.samples EXCEPT ![index] = sample],
                      !.sample_size = @ + 1, !.produced = @ + 1]
    BY DEF k, push_sample, index
  <2> QED BY <1>1, <2>1, <2>2, <2>3 DEF Journal, Sequence
<1>3. samples_between(k, k.retained_from, k.produced) =
        samples_between(j, j.retained_from, j.produced + 1)
  BY <1>2, SamplesLedgers
<1>4. samples_between(j, j.retained_from, j.produced + 1) = j.sample_size + 1
  <2>1. samples_between(j, j.produced, j.produced + 1) = 1
    BY <1>1, NothingAtProduced, SamplesOne
  <2>2. /\ j.produced + 1 \in Nat /\ j.produced <= j.produced + 1
        /\ Ledgers(j) /\ j.produced \in Nat /\ j.retained_from \in Nat
        /\ j.retained_from <= j.produced
    BY <1>1
  <2>3. samples_between(j, j.retained_from, j.produced + 1) =
          samples_between(j, j.retained_from, j.produced)
            + samples_between(j, j.produced, j.produced + 1)
    BY ZenonT(30), <2>2, SamplesSplit
  <2>4. j.sample_size = samples_between(j, j.retained_from, j.produced)
    BY DEF JournalInv, RingExact
  <2> QED BY <2>1, <2>3, <2>4
<1>5. CursorsOrdered(k) /\ PreparedWithin(k)
  <2>1. CursorsOrdered(j) /\ j.delivered \in Nat BY JournalParts DEF JournalInv
  <2> QED BY <1>1, <1>2, <2>1 DEF CursorsOrdered, PreparedWithin
<1>6. GapsWithin(k.gaps, k.retained_from, k.produced)
  <2>1. GapsWithin(j.gaps, j.retained_from, j.produced) BY DEF JournalInv
  <2>2. \A i \in DOMAIN j.gaps : gap_end(j.gaps[i]) \in Nat
    BY <1>1, GapFields DEF Ledgers
  <2> QED BY <1>1, <1>2, <2>1, <2>2 DEF GapsWithin
<1>7. BreaksWithin(k.continuity, k.retained_from, k.produced)
  <2>1. BreaksWithin(j.continuity, j.retained_from, j.produced) BY DEF JournalInv
  <2>2. \A i \in DOMAIN j.continuity : break_end(j.continuity[i]) \in Nat
    BY JournalParts
  <2> QED BY <1>1, <1>2, <2>1, <2>2 DEF BreaksWithin
<1>8. JournalInv(k)
  BY <1>1, <1>2, <1>3, <1>4, <1>5, <1>6, <1>7 DEF JournalInv, RingExact, Ledgers
<1> QED BY <1>2, <1>8 DEF k

(* With a sample in the ring, the search for the oldest one finds it. *)
LEMMA FirstSample ==
  ASSUME NEW j, JournalInv(j), j.sample_size > 0
  PROVE  /\ first_sample_sequence(j) \in j.retained_from..(j.produced - 1)
         /\ SampleAt(j, first_sample_sequence(j))
<1> DEFINE C == {s \in j.retained_from..(j.produced - 1) :
                   /\ gap_containing(j.gaps, s) = {}
                   /\ break_containing(j.continuity, s) = {}}
<1>1. /\ Ledgers(j) /\ j.retained_from \in Nat /\ j.produced \in Nat
      /\ j.retained_from <= j.produced
      /\ j.sample_size = samples_between(j, j.retained_from, j.produced)
  BY JournalParts DEF JournalInv, RingExact
<1>2. \A q : (/\ gap_containing(j.gaps, q) = {}
              /\ break_containing(j.continuity, q) = {}) <=> SampleAt(j, q)
  BY DEF gap_containing, break_containing, SampleAt
<1>3. C # {}
  <2>1. ASSUME C = {} PROVE FALSE
    <3>1. \A q \in j.retained_from..(j.produced - 1) : ~SampleAt(j, q) BY <1>2, <2>1
    <3>2. samples_between(j, j.retained_from, j.produced) = 0 BY <1>1, <3>1, SamplesNone
    <3> QED BY <1>1, <3>2
  <2> QED BY <2>1
<1>4. C \in SUBSET Nat BY <1>1
<1>5. \E s \in C : \A t \in C : s <= t BY <1>3, <1>4, LeastNat
<1>6. first_sample_sequence(j) = CHOOSE s \in C : \A t \in C : s <= t
  BY <1>3 DEF first_sample_sequence
<1>7. first_sample_sequence(j) \in C BY <1>5, <1>6
<1> QED BY <1>2, <1>7

(* What an append, whatever its verdict, leaves: a consistent journal whose
   cursors did not move back and whose delivery cursors did not move. *)
AppendKeeps(j, k) ==
  /\ JournalInv(k)
  /\ j.retained_from <= k.retained_from
  /\ k.retained_from <= j.produced
  /\ j.produced <= k.produced
  /\ k.delivered = j.delivered
  /\ k.released = j.released
  /\ k.discarded_sequences >= j.discarded_sequences

(* An append refused before or after it dropped the prepared view. *)
LEMMA AppendKeepsSelf ==
  ASSUME NEW j, JournalInv(j)
  PROVE  AppendKeeps(j, j) /\ AppendKeeps(j, invalidate_prepared_view(j))
  BY JournalParts, InvalidatePrepared DEF AppendKeeps

(* The journal an append writes to: the one it was given, or what is left
   of that one after a collapse. *)
MadeRoom(j, base) ==
  \/ base = invalidate_prepared_view(j)
  \/ \E cut \in Nat :
       /\ j.retained_from <= cut /\ cut <= j.produced
       /\ base = discard_retention_before(invalidate_prepared_view(j), cut,
                                          TRUE).journal

(* What an accepted sample, gap or break makes of that journal. *)
Pushed(base, sample, k) ==
  /\ base.sample_size < SampleCapacity /\ base.produced < MaxSequence
  /\ k = push_sample(base, sample)

GapSettled(base, g, k) ==
  /\ gap_valid(g) /\ g.first_missing = base.produced
  /\ gap_append(base.gaps, g).status # "Full"
  /\ k = [base EXCEPT !.gaps = gap_append(base.gaps, g).gaps,
                      !.produced = gap_end(g)]

BreakSettled(base, b, k) ==
  /\ break_valid(b) /\ b.at_sequence = base.produced
  /\ base.produced < MaxSequence
  /\ break_append(base.continuity, b).status # "Full"
  /\ k = [base EXCEPT !.continuity = break_append(base.continuity, b).breaks,
                      !.produced = break_end(b)]

(* append_sample keeps the journal consistent, and accepts every valid
   sample at the produced cursor: a full ring always finds an oldest
   sample to discard. *)
LEMMA AppendSampleKeeps ==
  ASSUME NEW j, JournalInv(j), NEW sequence, NEW sample \in SampleRecords
  PROVE  LET r == append_sample(j, sequence, sample)
         IN  /\ AppendKeeps(j, r.journal)
             /\ r.status = "Ok" => r.journal.produced = j.produced + 1
             /\ r.status # "Ok" => r.journal.produced = j.produced
             /\ sequence = j.produced /\ j.produced < MaxSequence
                  /\ valid_sample_record(sample) => r.status = "Ok"
             /\ r.status # "Ok" => r.journal = j
             /\ r.status = "Ok" =>
                  \E base : MadeRoom(j, base) /\ Pushed(base, sample, r.journal)
<1> DEFINE open == invalidate_prepared_view(j)
           oldest == first_sample_sequence(open)
           room == discard_retention_before(open, oldest + 1, TRUE)
           r == append_sample(j, sequence, sample)
<1> HIDE DEF open, oldest, room, r
<1>0. r = IF sequence # j.produced THEN [status |-> "NonContiguous", journal |-> j]
          ELSE IF j.produced = MaxSequence
               THEN [status |-> "SequenceExhausted", journal |-> j]
          ELSE IF ~valid_sample_record(sample)
               THEN [status |-> "InvalidSample", journal |-> j]
          ELSE IF j.sample_size # SampleCapacity
               THEN [status |-> "Ok", journal |-> push_sample(open, sample)]
          ELSE IF oldest = MaxSequence \/ ~room.ok
               THEN [status |-> "InternalError", journal |-> open]
          ELSE [status |-> "Ok", journal |-> push_sample(room.journal, sample)]
  BY DEF r, append_sample, open, oldest, room
<1>1. /\ JournalInv(open) /\ ~open.prepared_valid
      /\ open.sample_size = j.sample_size
      /\ open.retained_from = j.retained_from /\ open.produced = j.produced
      /\ open.delivered = j.delivered /\ open.released = j.released
      /\ open.discarded_sequences = j.discarded_sequences
  BY InvalidatePrepared DEF open
<1>2. /\ j.sample_size \in Nat /\ j.sample_size <= SampleCapacity
      /\ j.produced \in Nat /\ j.produced <= MaxSequence
      /\ j.retained_from \in Nat /\ j.discarded_sequences \in Nat
      /\ j.retained_from <= j.produced
      /\ SampleCapacity \in Nat \ {0} /\ MaxSequence \in Nat
  BY JournalParts, CapacityAssumption
<1>3. CASE \/ sequence # j.produced \/ j.produced = MaxSequence
           \/ ~valid_sample_record(sample)
  <2>1. r.journal = j /\ r.status # "Ok" BY <1>0, <1>3
  <2> QED BY <2>1, <1>2, <1>3, AppendKeepsSelf DEF r
<1>4. CASE /\ sequence = j.produced /\ j.produced # MaxSequence
           /\ valid_sample_record(sample) /\ j.sample_size # SampleCapacity
  <2>1. r.status = "Ok" /\ r.journal = push_sample(open, sample) BY <1>0, <1>4
  <2>2. open.sample_size < SampleCapacity /\ open.produced < MaxSequence
    BY <1>1, <1>2, <1>4
  <2>3. /\ JournalInv(r.journal) /\ r.journal.produced = open.produced + 1
        /\ r.journal.retained_from = open.retained_from
        /\ r.journal.delivered = open.delivered
        /\ r.journal.released = open.released
        /\ r.journal.discarded_sequences = open.discarded_sequences
    BY <1>1, <2>1, <2>2, PushSample
  <2>4. MadeRoom(j, open) /\ Pushed(open, sample, r.journal)
    BY <2>1, <2>2 DEF MadeRoom, Pushed, open
  <2> QED BY <1>1, <1>2, <2>1, <2>3, <2>4 DEF AppendKeeps, r
<1>5. CASE /\ sequence = j.produced /\ j.produced # MaxSequence
           /\ valid_sample_record(sample) /\ j.sample_size = SampleCapacity
  <2>1. /\ oldest \in open.retained_from..(open.produced - 1)
        /\ SampleAt(open, oldest)
    <3>1. open.sample_size > 0 BY <1>1, <1>2, <1>5
    <3> QED BY <1>1, <3>1, FirstSample DEF oldest
  <2> DEFINE cut == oldest + 1
  <2>2. /\ oldest \in Nat /\ cut \in Nat /\ oldest # MaxSequence
        /\ open.retained_from <= oldest /\ open.retained_from <= cut
        /\ cut <= open.produced /\ oldest <= cut /\ oldest <= open.produced
        /\ TRUE \in BOOLEAN
    BY <1>1, <1>2, <2>1
  <2>a. SampleAt(open, oldest) => samples_between(open, oldest, cut) = 1
    <3>1. Ledgers(open) BY <1>1, JournalParts
    <3> QED BY <2>2, <3>1, SamplesOne
  <2>b. room = discard_retention_before(open, cut, TRUE) BY DEF room
  <2> HIDE DEF cut
  <2>3. /\ room.ok /\ JournalInv(room.journal) /\ ~room.journal.prepared_valid
        /\ room.journal.retained_from = cut
        /\ room.journal.produced = open.produced
        /\ room.journal.delivered = open.delivered
        /\ room.journal.released = open.released
        /\ room.journal.discarded_sequences >= open.discarded_sequences
        /\ room.journal.sample_size = samples_between(open, cut, open.produced)
    <3>1. /\ JournalInv(open) /\ ~open.prepared_valid
          /\ cut \in Nat /\ open.retained_from <= cut /\ cut <= open.produced
      BY <1>1, <2>2
    <3> QED BY <3>1, <2>b, DiscardRetention, ZenonT(60)
  <2>4. samples_between(open, cut, open.produced) < SampleCapacity
    <3>1. Ledgers(open) /\ open.produced \in Nat /\ open.retained_from \in Nat
      BY <1>1, JournalParts
    <3>2. samples_between(open, oldest, cut) = 1 BY <2>1, <2>a
    <3>3. /\ samples_between(open, oldest, open.produced) =
               samples_between(open, oldest, cut)
                 + samples_between(open, cut, open.produced)
          /\ samples_between(open, cut, open.produced) \in Nat
      <4>1. /\ oldest \in Nat /\ cut \in Nat
            /\ oldest <= cut /\ cut <= open.produced
        BY <2>2
      <4> QED BY <3>1, <4>1, SamplesSplit, ZenonT(60)
    <3>4. /\ samples_between(open, open.retained_from, open.produced) =
               samples_between(open, open.retained_from, oldest)
                 + samples_between(open, oldest, open.produced)
          /\ samples_between(open, open.retained_from, oldest) \in Nat
      <4>1. /\ oldest \in Nat
            /\ open.retained_from <= oldest /\ oldest <= open.produced
        BY <2>2
      <4> QED BY <3>1, <4>1, SamplesSplit, ZenonT(60)
    <3>5. samples_between(open, open.retained_from, open.produced) = SampleCapacity
      BY <1>1, <1>5 DEF JournalInv, RingExact
    <3> QED BY <1>2, <3>2, <3>3, <3>4, <3>5
  <2>5. r.status = "Ok" /\ r.journal = push_sample(room.journal, sample)
    BY <1>0, <1>5, <2>2, <2>3
  <2>6. room.journal.produced < MaxSequence BY <1>1, <1>2, <1>5, <2>3
  <2>7. /\ JournalInv(r.journal) /\ r.journal.produced = room.journal.produced + 1
        /\ r.journal.retained_from = room.journal.retained_from
        /\ r.journal.delivered = room.journal.delivered
        /\ r.journal.released = room.journal.released
        /\ r.journal.discarded_sequences = room.journal.discarded_sequences
    BY <2>3, <2>4, <2>5, <2>6, PushSample
  <2>8. AppendKeeps(j, r.journal) BY <1>1, <1>2, <2>2, <2>3, <2>7 DEF AppendKeeps
  <2>9. MadeRoom(j, room.journal)
    <3>1. j.retained_from <= cut /\ cut <= j.produced /\ cut \in Nat BY <1>1, <2>2
    <3> QED BY <3>1, <2>b DEF MadeRoom, open
  <2>10. Pushed(room.journal, sample, r.journal) BY <2>3, <2>4, <2>5, <2>6 DEF Pushed
  <2> QED BY <1>1, <2>3, <2>5, <2>7, <2>8, <2>9, <2>10 DEF r
<1> QED BY <1>3, <1>4, <1>5

(* Position q lies in some gap. *)
Covered(gaps, q) ==
  \E i \in DOMAIN gaps : gaps[i].first_missing <= q /\ q < gap_end(gaps[i])

(* Appending a gap at the end of an ordered ledger is refused only when
   the ledger is full; otherwise the ledger covers the new range besides
   what it covered, whether the gap is stored or joined to the last one. *)
LEMMA GapAppend ==
  ASSUME NEW gaps \in Seq(GapRecord), NEW low \in Nat, NEW high \in Nat,
         low <= high, GapsWithin(gaps, low, high),
         NEW g \in GapRecord, gap_valid(g), g.first_missing = high
  PROVE  LET r == gap_append(gaps, g)
         IN  /\ r.status \in {"Ok", "Coalesced", "Full"}
             /\ r.status = "Full" => Len(gaps) = GapCapacity /\ gaps # <<>>
             /\ r.status # "Full" =>
                  /\ r.gaps \in Seq(GapRecord)
                  /\ GapsWithin(r.gaps, low, gap_end(g))
                  /\ \A q \in Int : Covered(r.gaps, q) <=>
                       Covered(gaps, q) \/ (high <= q /\ q < gap_end(g))
<1> DEFINE n == Len(gaps)
           last == gaps[n]
           merged == [last EXCEPT !.missing_count = @ + g.missing_count]
           r == gap_append(gaps, g)
<1> HIDE DEF n, last, merged, r
<1>1. /\ n \in Nat /\ DOMAIN gaps = 1..n /\ Len(gaps) = n
      /\ GapCapacity \in Nat \ {0} /\ MaxSequence \in Nat
      /\ n <= GapCapacity
  BY CapacityAssumption DEF GapsWithin, n
<1>2. /\ g.first_missing \in Nat /\ g.missing_count \in Nat
      /\ g.missing_count # 0 /\ gap_end(g) = high + g.missing_count
      /\ gap_end(g) \in Nat /\ gap_end(g) > high
      /\ high + g.missing_count <= MaxSequence
  <2>1. g.first_missing \in Nat /\ g.missing_count \in Nat BY DEF GapRecord
  <2> QED BY <2>1, <1>1 DEF gap_end, gap_valid
<1>3. \A i \in 1..n : /\ gaps[i] \in GapRecord
                      /\ gaps[i].first_missing \in Nat
                      /\ gaps[i].missing_count \in Nat
                      /\ gap_end(gaps[i]) \in Nat
                      /\ gap_end(gaps[i]) =
                           gaps[i].first_missing + gaps[i].missing_count
                      /\ gaps[i].missing_count > 0
                      /\ low <= gaps[i].first_missing
                      /\ gap_end(gaps[i]) <= high
  BY <1>1, GapFields DEF GapsWithin, gap_end
<1>4. gaps # <<>> => /\ n \in 1..n
                     /\ last \in GapRecord /\ last.first_missing \in Nat
                     /\ last.missing_count \in Nat
                     /\ gap_end(last) = last.first_missing + last.missing_count
                     /\ gap_end(last) <= high
                     /\ last.missing_count > 0 /\ low <= last.first_missing
  <2>1. gaps # <<>> => n \in 1..n BY <1>1
  <2> QED BY <2>1, <1>3 DEF last
<1> DEFINE adjacent == /\ gaps # <<>> /\ g.first_missing = gap_end(last)
                       /\ g.reason = last.reason
<1>5. r = IF adjacent
          THEN [status |-> "Coalesced", gaps |-> [gaps EXCEPT ![n] = merged]]
          ELSE IF n = GapCapacity THEN [status |-> "Full", gaps |-> gaps]
          ELSE [status |-> "Ok", gaps |-> Append(gaps, g)]
  <2>1. ~(gaps # <<>> /\ g.first_missing < gap_end(last)) BY <1>2, <1>4
  <2>2. adjacent => ~(last.missing_count > MaxSequence - g.missing_count)
    BY <1>1, <1>2, <1>4
  <2> QED BY <2>1, <2>2 DEF r, gap_append, n, last, merged
<1>6. CASE adjacent
  <2>1. r.status = "Coalesced" /\ r.gaps = [gaps EXCEPT ![n] = merged] BY <1>5, <1>6
  <2>2. /\ merged \in GapRecord /\ merged.first_missing = last.first_missing
        /\ merged.missing_count = last.missing_count + g.missing_count
    <3>1. last \in GapRecord /\ last.missing_count + g.missing_count \in Nat
      BY <1>2, <1>4, <1>6
    <3> QED BY <3>1 DEF merged, GapRecord
  <2>3. gap_end(merged) = gap_end(g) BY <1>2, <1>4, <1>6, <2>2 DEF gap_end
  <2>4. /\ r.gaps \in Seq(GapRecord) /\ Len(r.gaps) = n
        /\ DOMAIN r.gaps = 1..n /\ r.gaps[n] = merged
        /\ \A i \in 1..n : i # n => r.gaps[i] = gaps[i]
    <3>1. n \in 1..n BY <1>4, <1>6
    <3>2. [gaps EXCEPT ![n] = merged] \in [1..n -> GapRecord] BY <1>1, <1>3, <2>2
    <3> QED BY <1>1, <2>1, <3>1, <3>2
  <2>5. GapsWithin(r.gaps, low, gap_end(g))
    <3>1. \A i \in 1..n : /\ r.gaps[i].missing_count > 0
                          /\ low <= r.gaps[i].first_missing
                          /\ gap_end(r.gaps[i]) <= gap_end(g)
                          /\ r.gaps[i].first_missing = gaps[i].first_missing
                          /\ i # n => gap_end(r.gaps[i]) = gap_end(gaps[i])
      <4> SUFFICES ASSUME NEW i \in 1..n
                   PROVE  /\ r.gaps[i].missing_count > 0
                          /\ low <= r.gaps[i].first_missing
                          /\ gap_end(r.gaps[i]) <= gap_end(g)
                          /\ r.gaps[i].first_missing = gaps[i].first_missing
                          /\ i # n => gap_end(r.gaps[i]) = gap_end(gaps[i])
        OBVIOUS
      <4>1. CASE i = n BY <4>1, <1>2, <1>4, <1>6, <2>2, <2>3, <2>4 DEF last
      <4>2. CASE i # n BY SMTT(30), <4>2, <1>2, <1>3, <2>4
      <4> QED BY <4>1, <4>2
    <3>2. \A i, k \in 1..n :
            i < k => gap_end(r.gaps[i]) <= r.gaps[k].first_missing
      <4>1. \A i, k \in 1..n : i < k => gap_end(gaps[i]) <= gaps[k].first_missing
        BY <1>1 DEF GapsWithin
      <4>2. \A i, k \in 1..n : i < k => i # n BY <1>1
      <4> QED BY <3>1, <4>1, <4>2
    <3> QED BY <1>1, <2>4, <3>1, <3>2 DEF GapsWithin
  <2>6. ASSUME NEW q \in Int
        PROVE  Covered(r.gaps, q) <=>
                 Covered(gaps, q) \/ (high <= q /\ q < gap_end(g))
    <3>1. (merged.first_missing <= q /\ q < gap_end(merged)) <=>
            \/ last.first_missing <= q /\ q < gap_end(last)
            \/ high <= q /\ q < gap_end(g)
      <4>1. /\ gap_end(last) = high /\ last.first_missing <= high
            /\ last.first_missing \in Nat /\ gap_end(g) \in Nat
            /\ high < gap_end(g)
        BY <1>2, <1>4, <1>6
      <4>2. /\ merged.first_missing = last.first_missing
            /\ gap_end(merged) = gap_end(g)
        BY <2>2, <2>3
      <4> QED BY <4>1, <4>2
    <3> QED BY <1>1, <1>4, <1>6, <2>4, <3>1 DEF Covered, last
  <2> QED BY <2>1, <2>4, <2>5, <2>6 DEF r
<1>7. CASE ~adjacent /\ n = GapCapacity
  <2>1. r.status = "Full" BY <1>5, <1>7
  <2> QED BY <1>1, <1>7, <2>1 DEF r
<1>8. CASE ~adjacent /\ n # GapCapacity
  <2>1. r.status = "Ok" /\ r.gaps = Append(gaps, g) BY <1>5, <1>8
  <2>2. /\ r.gaps \in Seq(GapRecord) /\ Len(r.gaps) = n + 1
        /\ DOMAIN r.gaps = 1..(n + 1) /\ r.gaps[n + 1] = g
        /\ \A i \in 1..n : r.gaps[i] = gaps[i]
    BY <1>1, <2>1
  <2>3. GapsWithin(r.gaps, low, gap_end(g))
    <3>1. \A i \in 1..(n + 1) : /\ r.gaps[i].missing_count > 0
                                /\ low <= r.gaps[i].first_missing
                                /\ gap_end(r.gaps[i]) <= gap_end(g)
      <4> SUFFICES ASSUME NEW i \in 1..(n + 1)
                   PROVE  /\ r.gaps[i].missing_count > 0
                          /\ low <= r.gaps[i].first_missing
                          /\ gap_end(r.gaps[i]) <= gap_end(g)
        OBVIOUS
      <4>1. CASE i = n + 1 BY <4>1, <1>2, <2>2
      <4>2. CASE i \in 1..n BY SMTT(30), <4>2, <1>2, <1>3, <2>2
      <4> QED BY <1>1, <4>1, <4>2
    <3>2. ASSUME NEW i \in 1..(n + 1), NEW k \in 1..(n + 1), i < k
          PROVE  gap_end(r.gaps[i]) <= r.gaps[k].first_missing
      <4>1. i \in 1..n BY <1>1, <3>2
      <4>2. CASE k = n + 1 BY <4>1, <4>2, <1>3, <2>2
      <4>3. CASE k \in 1..n BY <4>1, <4>3, <1>1, <2>2, <3>2 DEF GapsWithin
      <4> QED BY <1>1, <4>2, <4>3
    <3>3. Len(r.gaps) <= GapCapacity BY <1>1, <1>8, <2>2
    <3> QED BY <2>2, <3>1, <3>2, <3>3 DEF GapsWithin
  <2>4. ASSUME NEW q \in Int
        PROVE  Covered(r.gaps, q) <=>
                 Covered(gaps, q) \/ (high <= q /\ q < gap_end(g))
    <3>1. \A i \in 1..(n + 1) : i = n + 1 \/ i \in 1..n BY <1>1
    <3>2. n + 1 \in 1..(n + 1) /\ \A i \in 1..n : i \in 1..(n + 1) BY <1>1
    <3> QED BY <1>1, <2>2, <3>1, <3>2 DEF Covered
  <2> QED BY <2>1, <2>2, <2>3, <2>4 DEF r
<1> QED BY <1>6, <1>7, <1>8

(* Extending the journal by positions that hold no sample: the ledgers
   cover the new positions, and agree with the old ones below. *)
LEMMA ExtendUnsampled ==
  ASSUME NEW j, JournalInv(j), ~j.prepared_valid, NEW k \in Journal,
         Ledgers(k),
         k.retained_from = j.retained_from, j.produced <= k.produced,
         k.delivered = j.delivered, k.released = j.released,
         k.sample_size = j.sample_size, k.prepared_valid = j.prepared_valid,
         GapsWithin(k.gaps, k.retained_from, k.produced),
         BreaksWithin(k.continuity, k.retained_from, k.produced),
         \A q \in j.retained_from..(j.produced - 1) :
           SampleAt(k, q) <=> SampleAt(j, q),
         \A q \in j.produced..(k.produced - 1) : ~SampleAt(k, q)
  PROVE  JournalInv(k)
<1>1. /\ Ledgers(j) /\ j.retained_from \in Nat /\ j.produced \in Nat
      /\ k.produced \in Nat /\ j.retained_from <= j.produced
      /\ j.delivered \in Nat /\ j.delivered <= j.produced
      /\ j.released \in Nat /\ j.released <= j.retained_from
  <2>1. k.produced \in Nat BY CapacityAssumption DEF Journal, Sequence
  <2> QED BY <2>1, JournalParts
<1>2. samples_between(k, j.retained_from, j.produced) =
        samples_between(j, j.retained_from, j.produced)
  BY <1>1, SamplesAgree
<1>3. samples_between(k, j.produced, k.produced) = 0 BY <1>1, SamplesNone
<1>4. /\ samples_between(k, j.retained_from, k.produced) =
           samples_between(k, j.retained_from, j.produced)
             + samples_between(k, j.produced, k.produced)
      /\ samples_between(k, j.retained_from, j.produced) \in Nat
  <2>1. /\ j.retained_from \in Nat /\ j.produced \in Nat /\ k.produced \in Nat
        /\ j.retained_from <= j.produced
    BY <1>1
  <2> QED BY <2>1, SamplesSplit, ZenonT(60)
<1>5. j.sample_size = samples_between(j, j.retained_from, j.produced)
  BY DEF JournalInv, RingExact
<1>6. RingExact(k) BY <1>2, <1>3, <1>4, <1>5 DEF RingExact
<1>7. CursorsOrdered(k) /\ PreparedWithin(k) BY <1>1 DEF CursorsOrdered, PreparedWithin
<1> QED BY <1>6, <1>7 DEF JournalInv, Ledgers

(* append_gap: a gap the ledger takes extends the journal by its range. *)
LEMMA SettleGap ==
  ASSUME NEW j, JournalInv(j), ~j.prepared_valid, NEW g \in GapRecord,
         gap_valid(g), g.first_missing = j.produced,
         gap_append(j.gaps, g).status # "Full",
         NEW k, k = [j EXCEPT !.gaps = gap_append(j.gaps, g).gaps,
                              !.produced = gap_end(g)]
  PROVE  /\ JournalInv(k) /\ k.produced = gap_end(g) /\ j.produced <= k.produced
         /\ k.retained_from = j.retained_from
         /\ k.delivered = j.delivered /\ k.released = j.released
         /\ k.discarded_sequences = j.discarded_sequences
         /\ gap_status(gap_append(j.gaps, g).status) = "Ok"
<1> DEFINE r == gap_append(j.gaps, g)
<1> HIDE DEF r
<1>1. /\ j \in Journal /\ Ledgers(j)
      /\ GapsWithin(j.gaps, j.retained_from, j.produced)
      /\ BreaksWithin(j.continuity, j.retained_from, j.produced)
  BY JournalParts DEF JournalInv
<1>2. /\ j.gaps \in Seq(GapRecord) /\ j.continuity \in Seq(ContinuityBreakRecord)
      /\ j.retained_from \in Nat /\ j.produced \in Nat
      /\ j.retained_from <= j.produced
  BY JournalParts DEF Ledgers
<1>3. /\ r.status \in {"Ok", "Coalesced"}
      /\ r.gaps \in Seq(GapRecord)
      /\ GapsWithin(r.gaps, j.retained_from, gap_end(g))
      /\ \A q \in Int : Covered(r.gaps, q) <=>
           Covered(j.gaps, q) \/ (j.produced <= q /\ q < gap_end(g))
  <2>1. GapsWithin(j.gaps, j.retained_from, j.produced) BY <1>1
  <2> QED BY <1>2, <2>1, GapAppend DEF r
<1>4. /\ gap_end(g) \in 0..MaxSequence /\ gap_end(g) > j.produced
      /\ gap_end(g) \in Nat
  <2>1. /\ g.first_missing \in Nat /\ g.missing_count \in Nat
        /\ g.missing_count # 0 /\ g.first_missing <= MaxSequence - g.missing_count
        /\ MaxSequence \in Nat
    BY CapacityAssumption DEF GapRecord, gap_valid
  <2> QED BY <2>1 DEF gap_end
<1>5. /\ k \in Journal /\ k.gaps = r.gaps /\ k.produced = gap_end(g)
      /\ k.continuity = j.continuity
      /\ k.retained_from = j.retained_from /\ k.sample_size = j.sample_size
      /\ k.delivered = j.delivered /\ k.released = j.released
      /\ k.prepared_valid = j.prepared_valid
      /\ k.discarded_sequences = j.discarded_sequences
  BY <1>1, <1>3, <1>4 DEF Journal, Sequence, r
<1>6. /\ \A i \in DOMAIN j.continuity :
           /\ j.continuity[i].at_sequence \in Nat
           /\ j.continuity[i].at_sequence < j.produced
           /\ break_end(j.continuity[i]) = j.continuity[i].at_sequence + 1
           /\ j.retained_from <= j.continuity[i].at_sequence
  <2>1. \A i \in DOMAIN j.continuity :
          /\ j.continuity[i].at_sequence \in Nat
          /\ break_end(j.continuity[i]) = j.continuity[i].at_sequence + 1
    BY <1>2, BreakFields
  <2>2. \A i \in DOMAIN j.continuity :
          /\ break_end(j.continuity[i]) <= j.produced
          /\ j.retained_from <= j.continuity[i].at_sequence
    BY <1>1 DEF BreaksWithin
  <2> QED BY <1>2, <2>1, <2>2
<1>7. LedgersDisjoint(k.gaps, k.continuity)
  <2> SUFFICES ASSUME NEW i \in DOMAIN r.gaps, NEW m \in DOMAIN j.continuity
               PROVE  \/ j.continuity[m].at_sequence < r.gaps[i].first_missing
                      \/ gap_end(r.gaps[i]) <= j.continuity[m].at_sequence
    BY <1>5 DEF LedgersDisjoint
  <2> DEFINE q == j.continuity[m].at_sequence
  <2>1. ~Covered(j.gaps, q)
    <3>1. \A n \in DOMAIN j.gaps : q < j.gaps[n].first_missing
                                     \/ gap_end(j.gaps[n]) <= q
      BY <1>1 DEF Ledgers, LedgersDisjoint
    <3>2. \A n \in DOMAIN j.gaps : /\ j.gaps[n].first_missing \in Nat
                                   /\ gap_end(j.gaps[n]) \in Nat
      BY <1>2, GapFields
    <3>3. q \in Nat BY <1>6
    <3> HIDE DEF q
    <3> QED BY <3>1, <3>2, <3>3 DEF Covered
  <2>2. q \in Int /\ ~(j.produced <= q) /\ q \in Nat BY <1>2, <1>6
  <2> HIDE DEF q
  <2>3. ~Covered(r.gaps, q) BY <1>3, <2>1, <2>2
  <2>4. r.gaps[i].first_missing \in Nat /\ gap_end(r.gaps[i]) \in Nat BY <1>3, GapFields
  <2>5. q < r.gaps[i].first_missing \/ gap_end(r.gaps[i]) <= q
    BY <2>2, <2>3, <2>4 DEF Covered
  <2> QED BY <2>5 DEF q
<1>8. Ledgers(k) BY <1>2, <1>3, <1>5, <1>7 DEF Ledgers
<1>9. BreaksWithin(k.continuity, k.retained_from, k.produced)
  <2>1. \A i \in DOMAIN j.continuity : break_end(j.continuity[i]) <= gap_end(g)
    BY <1>2, <1>4, <1>6
  <2> QED BY <1>1, <1>5, <2>1 DEF BreaksWithin
<1>10. \A q \in Int : SampleAt(k, q) <=>
         SampleAt(j, q) /\ ~(j.produced <= q /\ q < gap_end(g))
  <2>1. \A q : SampleAt(k, q) <=> /\ ~Covered(r.gaps, q)
                                  /\ \A i \in DOMAIN j.continuity :
                                       j.continuity[i].at_sequence # q
    BY <1>5 DEF SampleAt, Covered
  <2>2. \A q : SampleAt(j, q) <=> /\ ~Covered(j.gaps, q)
                                  /\ \A i \in DOMAIN j.continuity :
                                       j.continuity[i].at_sequence # q
    BY DEF SampleAt, Covered
  <2> QED BY <1>3, <2>1, <2>2
<1>11. \A q \in j.retained_from..(j.produced - 1) : SampleAt(k, q) <=> SampleAt(j, q)
  <2>1. \A q \in j.retained_from..(j.produced - 1) :
          q \in Int /\ ~(j.produced <= q)
    BY <1>2
  <2> QED BY <1>10, <2>1
<1>12. \A q \in j.produced..(k.produced - 1) : ~SampleAt(k, q)
  <2>1. \A q \in j.produced..(gap_end(g) - 1) :
          q \in Int /\ j.produced <= q /\ q < gap_end(g)
    BY <1>2, <1>4
  <2> QED BY <1>5, <1>10, <2>1
<1>13. /\ GapsWithin(k.gaps, k.retained_from, k.produced)
       /\ j.produced <= k.produced
  BY <1>2, <1>3, <1>4, <1>5
<1>14. JournalInv(k) BY <1>5, <1>8, <1>9, <1>11, <1>12, <1>13, ExtendUnsampled
<1> QED BY <1>3, <1>5, <1>13, <1>14 DEF gap_status, r

(* append_gap keeps the journal consistent, and accepts every valid gap at
   the produced cursor: a full ledger gives up its oldest gap, with the
   retention before it, and then has room. *)
LEMMA AppendGapKeeps ==
  ASSUME NEW j, JournalInv(j), NEW g \in GapRecord
  PROVE  LET r == append_gap(j, g)
         IN  /\ AppendKeeps(j, r.journal)
             /\ r.status = "Ok" => r.journal.produced = j.produced + g.missing_count
             /\ r.status # "Ok" => r.journal.produced = j.produced
             /\ gap_valid(g) /\ g.first_missing = j.produced =>
                  r.status = "Ok"
             /\ r.status # "Ok" => r.journal = j
             /\ r.status = "Ok" =>
                  \E base : MadeRoom(j, base) /\ GapSettled(base, g, r.journal)
<1> DEFINE open == invalidate_prepared_view(j)
           direct == gap_append(open.gaps, g)
           cut == gap_end(open.gaps[1])
           room == discard_retention_before(open, cut, TRUE)
           base == room.journal
           second == gap_append(base.gaps, g)
           one == [open EXCEPT !.gaps = direct.gaps, !.produced = gap_end(g)]
           two == [base EXCEPT !.gaps = second.gaps, !.produced = gap_end(g)]
           r == append_gap(j, g)
<1>0. r = IF ~gap_valid(g) THEN [status |-> "InvalidGap", journal |-> j]
          ELSE IF g.first_missing # j.produced
               THEN [status |-> "NonContiguous", journal |-> j]
          ELSE IF direct.status # "Full"
               THEN IF gap_status(direct.status) = "Ok"
                    THEN [status |-> "Ok", journal |-> one]
                    ELSE [status |-> gap_status(direct.status), journal |-> open]
          ELSE IF ~room.ok THEN [status |-> "InternalError", journal |-> open]
          ELSE IF gap_status(second.status) = "Ok"
               THEN [status |-> "Ok", journal |-> two]
               ELSE [status |-> gap_status(second.status), journal |-> base]
  BY DEF append_gap
<1> HIDE DEF open, direct, cut, room, base, second, one, two, r
<1>1. /\ JournalInv(open) /\ ~open.prepared_valid
      /\ open.retained_from = j.retained_from /\ open.produced = j.produced
      /\ open.delivered = j.delivered /\ open.released = j.released
      /\ open.discarded_sequences = j.discarded_sequences
  BY InvalidatePrepared DEF open
<1>2. /\ j.retained_from \in Nat /\ j.produced \in Nat
      /\ j.discarded_sequences \in Nat /\ j.retained_from <= j.produced
  BY JournalParts
<1>a. g.first_missing = j.produced => gap_end(g) = j.produced + g.missing_count
  BY DEF gap_end
<1>3. CASE ~gap_valid(g) \/ g.first_missing # j.produced
  <2>1. r.journal = j /\ r.status # "Ok" BY <1>0, <1>3
  <2> QED BY <1>3, <2>1, AppendKeepsSelf DEF r
<1>4. CASE /\ gap_valid(g) /\ g.first_missing = j.produced
           /\ direct.status # "Full"
  <2>1. /\ JournalInv(one) /\ open.produced <= one.produced
        /\ one.produced = gap_end(g)
        /\ one.retained_from = open.retained_from
        /\ one.delivered = open.delivered /\ one.released = open.released
        /\ one.discarded_sequences = open.discarded_sequences
        /\ gap_status(direct.status) = "Ok"
    <3>1. g.first_missing = open.produced BY <1>1, <1>4
    <3>2. /\ JournalInv(open) /\ ~open.prepared_valid /\ gap_valid(g)
          /\ gap_append(open.gaps, g).status # "Full"
          /\ one = [open EXCEPT !.gaps = gap_append(open.gaps, g).gaps,
                               !.produced = gap_end(g)]
      BY <1>1, <1>4 DEF one, direct
    <3> QED BY <3>1, <3>2, SettleGap, ZenonT(60) DEF direct
  <2>2. r.status = "Ok" /\ r.journal = one BY <1>0, <1>4, <2>1
  <2>3. AppendKeeps(j, one) BY <1>1, <1>2, <2>1 DEF AppendKeeps
  <2>4. MadeRoom(j, open) /\ GapSettled(open, g, r.journal)
    BY <1>1, <1>4, <2>2 DEF MadeRoom, GapSettled, open, one, direct
  <2> QED BY <1>a, <1>4, <2>1, <2>2, <2>3, <2>4 DEF r
<1>5. CASE /\ gap_valid(g) /\ g.first_missing = j.produced
           /\ direct.status = "Full"
  <2>1. /\ open.gaps \in Seq(GapRecord)
        /\ open.retained_from \in Nat /\ open.produced \in Nat
        /\ open.retained_from <= open.produced
        /\ GapsWithin(open.gaps, open.retained_from, open.produced)
    BY <1>1, JournalParts DEF JournalInv, Ledgers
  <2>2. Len(open.gaps) = GapCapacity /\ open.gaps # <<>>
    <3>1. g.first_missing = open.produced BY <1>1, <1>5
    <3> QED BY <1>5, <2>1, <3>1, GapAppend DEF direct
  <2>3. /\ cut \in Nat /\ open.retained_from <= cut /\ cut <= open.produced
    <3>1. 1 \in DOMAIN open.gaps BY <2>1, <2>2
    <3>2. /\ open.retained_from <= open.gaps[1].first_missing
          /\ open.gaps[1].missing_count > 0 /\ cut <= open.produced
      BY <2>1, <3>1 DEF GapsWithin, cut
    <3>3. /\ open.gaps[1].first_missing \in Nat
          /\ open.gaps[1].missing_count \in Nat
          /\ cut = open.gaps[1].first_missing + open.gaps[1].missing_count
      BY <2>1, <3>1, GapFields DEF cut, gap_end
    <3> QED BY <2>1, <3>2, <3>3
  <2>4. /\ room.ok /\ JournalInv(base) /\ ~base.prepared_valid
        /\ base.retained_from = cut /\ base.produced = open.produced
        /\ base.delivered = open.delivered /\ base.released = open.released
        /\ base.gaps = gap_discard_before(open.gaps, cut)
        /\ base.discarded_sequences >= open.discarded_sequences
    <3>1. JournalInv(open) /\ ~open.prepared_valid BY <1>1
    <3> QED BY <3>1, <2>3, DiscardRetention, ZenonT(60) DEF room, base
  <2>5. Len(base.gaps) < GapCapacity
    <3>1. gap_end(open.gaps[1]) <= cut BY <2>3 DEF cut
    <3>2. Len(gap_discard_before(open.gaps, cut)) < Len(open.gaps)
      BY <2>1, <2>2, <2>3, <3>1, GapDiscard
    <3> QED BY <2>2, <2>4, <3>2
  <2>6. /\ base.gaps \in Seq(GapRecord)
        /\ base.retained_from \in Nat /\ base.produced \in Nat
        /\ base.retained_from <= base.produced
        /\ base.discarded_sequences \in Nat
        /\ GapsWithin(base.gaps, base.retained_from, base.produced)
    BY <2>4, JournalParts DEF JournalInv, Ledgers
  <2>7. second.status # "Full"
    <3>1. g.first_missing = base.produced BY <1>1, <1>5, <2>4
    <3>2. second.status = "Full" => Len(base.gaps) = GapCapacity
      BY <1>5, <2>6, <3>1, GapAppend DEF second
    <3>3. Len(base.gaps) # GapCapacity BY <2>5, <2>6, CapacityAssumption
    <3> QED BY <3>2, <3>3
  <2>8. /\ JournalInv(two) /\ base.produced <= two.produced
        /\ two.produced = gap_end(g)
        /\ two.retained_from = base.retained_from
        /\ two.delivered = base.delivered /\ two.released = base.released
        /\ two.discarded_sequences = base.discarded_sequences
        /\ gap_status(second.status) = "Ok"
    <3>1. g.first_missing = base.produced BY <1>1, <1>5, <2>4
    <3>2. /\ JournalInv(base) /\ ~base.prepared_valid /\ gap_valid(g)
          /\ gap_append(base.gaps, g).status # "Full"
          /\ two = [base EXCEPT !.gaps = gap_append(base.gaps, g).gaps,
                               !.produced = gap_end(g)]
      BY <1>5, <2>4, <2>7 DEF two, second
    <3> QED BY <3>1, <3>2, SettleGap, ZenonT(60) DEF second
  <2>9. r.status = "Ok" /\ r.journal = two BY <1>0, <1>5, <2>4, <2>8
  <2>10. AppendKeeps(j, two) BY <1>1, <1>2, <2>3, <2>4, <2>6, <2>8 DEF AppendKeeps
  <2>11. MadeRoom(j, base)
    <3>1. j.retained_from <= cut /\ cut <= j.produced /\ cut \in Nat BY <1>1, <2>3
    <3> QED BY <3>1 DEF MadeRoom, open, room, base
  <2>12. GapSettled(base, g, r.journal)
    BY <1>1, <1>5, <2>4, <2>7, <2>9 DEF GapSettled, two, second
  <2> QED BY <1>a, <1>5, <2>8, <2>9, <2>10, <2>11, <2>12 DEF r
<1> QED BY <1>3, <1>4, <1>5

(* Appending a break at the end of an ordered ledger is refused only when
   the ledger is full; otherwise the ledger marks the new position too. *)
LEMMA BreakAppend ==
  ASSUME NEW breaks \in Seq(ContinuityBreakRecord), NEW low \in Nat,
         NEW high \in Nat, low <= high, BreaksWithin(breaks, low, high),
         NEW b \in ContinuityBreakRecord, break_valid(b), b.at_sequence = high
  PROVE  LET r == break_append(breaks, b)
         IN  /\ r.status \in {"Ok", "Full"}
             /\ r.status = "Full" =>
                  Len(breaks) = ContinuityCapacity /\ breaks # <<>>
             /\ r.status # "Full" =>
                  /\ r.breaks = Append(breaks, b)
                  /\ r.breaks \in Seq(ContinuityBreakRecord)
                  /\ BreaksWithin(r.breaks, low, high + 1)
<1> DEFINE n == Len(breaks)
           r == break_append(breaks, b)
<1> HIDE DEF n, r
<1>1. /\ n \in Nat /\ DOMAIN breaks = 1..n /\ Len(breaks) = n
      /\ ContinuityCapacity \in Nat \ {0} /\ n <= ContinuityCapacity
  BY CapacityAssumption DEF BreaksWithin, n
<1>2. break_end(b) = high + 1 BY DEF break_end
<1>3. \A i \in 1..n : /\ breaks[i].at_sequence \in Nat
                      /\ break_end(breaks[i]) = breaks[i].at_sequence + 1
                      /\ low <= breaks[i].at_sequence
                      /\ break_end(breaks[i]) <= high
                      /\ breaks[i].at_sequence < high
  <2>1. \A i \in 1..n : /\ breaks[i].at_sequence \in Nat
                        /\ break_end(breaks[i]) = breaks[i].at_sequence + 1
    BY <1>1, BreakFields
  <2>2. \A i \in 1..n : /\ low <= breaks[i].at_sequence
                        /\ break_end(breaks[i]) <= high
    BY <1>1 DEF BreaksWithin
  <2> QED BY <2>1, <2>2
<1>4. r = IF n = ContinuityCapacity THEN [status |-> "Full", breaks |-> breaks]
          ELSE [status |-> "Ok", breaks |-> Append(breaks, b)]
  <2>1. ~(breaks # <<>> /\ b.at_sequence < break_end(breaks[n]))
    <3>1. breaks # <<>> => n \in 1..n BY <1>1
    <3> QED BY <1>3, <3>1
  <2> QED BY <2>1 DEF r, break_append, n
<1>5. CASE n = ContinuityCapacity
  <2>1. r.status = "Full" BY <1>4, <1>5
  <2> QED BY <1>1, <1>5, <2>1 DEF r
<1>6. CASE n # ContinuityCapacity
  <2>1. r.status = "Ok" /\ r.breaks = Append(breaks, b) BY <1>4, <1>6
  <2>2. /\ r.breaks \in Seq(ContinuityBreakRecord) /\ Len(r.breaks) = n + 1
        /\ DOMAIN r.breaks = 1..(n + 1) /\ r.breaks[n + 1] = b
        /\ \A i \in 1..n : r.breaks[i] = breaks[i]
    BY <1>1, <2>1
  <2>3. \A i \in 1..(n + 1) : i = n + 1 \/ i \in 1..n BY <1>1
  <2>4. \A i \in 1..(n + 1) : /\ low <= r.breaks[i].at_sequence
                              /\ break_end(r.breaks[i]) <= high + 1
    <3>1. \A i \in 1..n : /\ low <= r.breaks[i].at_sequence
                          /\ break_end(r.breaks[i]) <= high + 1
      BY <1>3, <2>2
    <3>2. /\ low <= r.breaks[n + 1].at_sequence
          /\ break_end(r.breaks[n + 1]) <= high + 1
      BY <1>2, <2>2
    <3> QED BY <2>3, <3>1, <3>2
  <2>5. ASSUME NEW i \in 1..(n + 1), NEW k \in 1..(n + 1), i < k
        PROVE  r.breaks[i].at_sequence < r.breaks[k].at_sequence
    <3>1. i \in 1..n BY <1>1, <2>5
    <3>2. CASE k = n + 1 BY <3>1, <3>2, <1>3, <2>2
    <3>3. CASE k \in 1..n BY <3>1, <3>3, <1>1, <2>2, <2>5 DEF BreaksWithin
    <3> QED BY <2>3, <3>2, <3>3
  <2>6. Len(r.breaks) <= ContinuityCapacity BY <1>1, <1>6, <2>2
  <2>7. BreaksWithin(r.breaks, low, high + 1) BY <2>2, <2>4, <2>5, <2>6 DEF BreaksWithin
  <2> QED BY <2>1, <2>2, <2>7 DEF r
<1> QED BY <1>5, <1>6

(* A journal with one more break at its end is consistent. *)
LEMMA BreakExtends ==
  ASSUME NEW j, JournalInv(j), ~j.prepared_valid,
         NEW b \in ContinuityBreakRecord, b.at_sequence = j.produced,
         NEW k \in Journal, k.continuity = Append(j.continuity, b),
         BreaksWithin(k.continuity, j.retained_from, j.produced + 1),
         k.produced = j.produced + 1, k.gaps = j.gaps,
         k.retained_from = j.retained_from, k.sample_size = j.sample_size,
         k.delivered = j.delivered, k.released = j.released,
         k.prepared_valid = j.prepared_valid
  PROVE  JournalInv(k)
<1> DEFINE n == Len(j.continuity)
<1> HIDE DEF n
<1>1. /\ Ledgers(j) /\ GapsWithin(j.gaps, j.retained_from, j.produced)
  BY JournalParts DEF JournalInv
<1>2. /\ j.gaps \in Seq(GapRecord) /\ j.continuity \in Seq(ContinuityBreakRecord)
      /\ j.retained_from \in Nat /\ j.produced \in Nat
      /\ j.retained_from <= j.produced
  BY JournalParts DEF Ledgers
<1>3. k.continuity \in Seq(ContinuityBreakRecord) BY <1>2
<1>6. /\ n \in Nat /\ DOMAIN j.continuity = 1..n
      /\ DOMAIN k.continuity = 1..(n + 1) /\ k.continuity[n + 1] = b
      /\ \A i \in 1..n : k.continuity[i] = j.continuity[i]
      /\ \A i \in 1..(n + 1) : i = n + 1 \/ i \in 1..n
      /\ n + 1 \in 1..(n + 1) /\ \A i \in 1..n : i \in 1..(n + 1)
  BY <1>2 DEF n
<1>7. \A i \in DOMAIN j.gaps : /\ gap_end(j.gaps[i]) \in Nat
                               /\ gap_end(j.gaps[i]) <= j.produced
  <2>1. \A i \in DOMAIN j.gaps : gap_end(j.gaps[i]) \in Nat BY <1>2, GapFields
  <2> QED BY <1>1, <2>1 DEF GapsWithin
<1>8. LedgersDisjoint(j.gaps, k.continuity)
  <2> SUFFICES ASSUME NEW i \in DOMAIN j.gaps, NEW m \in 1..(n + 1)
               PROVE  \/ k.continuity[m].at_sequence < j.gaps[i].first_missing
                      \/ gap_end(j.gaps[i]) <= k.continuity[m].at_sequence
    BY <1>6 DEF LedgersDisjoint
  <2>1. CASE m = n + 1 BY <2>1, <1>6, <1>7
  <2>2. CASE m \in 1..n BY <2>2, <1>1, <1>6 DEF Ledgers, LedgersDisjoint
  <2> QED BY <1>6, <2>1, <2>2
<1>9. Ledgers(k) BY <1>2, <1>3, <1>8 DEF Ledgers
<1>10. GapsWithin(k.gaps, k.retained_from, k.produced)
  <2>1. \A i \in DOMAIN j.gaps : gap_end(j.gaps[i]) <= j.produced + 1 BY <1>2, <1>7
  <2> QED BY <1>1, <2>1 DEF GapsWithin
<1>11. \A q : SampleAt(k, q) <=> SampleAt(j, q) /\ q # j.produced
  <2>1. \A q : (\A i \in 1..(n + 1) : k.continuity[i].at_sequence # q) <=>
               (\A i \in 1..n : j.continuity[i].at_sequence # q) /\ q # j.produced
    BY <1>6
  <2>3. \A q : SampleAt(k, q) <=> /\ ~Covered(j.gaps, q)
                                  /\ \A i \in 1..(n + 1) :
                                       k.continuity[i].at_sequence # q
    BY <1>6, Zenon DEF SampleAt, Covered
  <2>4. \A q : SampleAt(j, q) <=> /\ ~Covered(j.gaps, q)
                                  /\ \A i \in 1..n :
                                       j.continuity[i].at_sequence # q
    BY <1>6, Zenon DEF SampleAt, Covered
  <2> QED BY <2>1, <2>3, <2>4, Zenon
<1>12. \A q \in j.retained_from..(j.produced - 1) : SampleAt(k, q) <=> SampleAt(j, q)
  <2>1. \A q \in j.retained_from..(j.produced - 1) : q # j.produced BY <1>2
  <2> QED BY <1>11, <2>1
<1>13. \A q \in j.produced..(k.produced - 1) : ~SampleAt(k, q)
  <2>1. \A q \in j.produced..(k.produced - 1) : q = j.produced BY <1>2
  <2> QED BY <1>11, <2>1
<1>14. /\ BreaksWithin(k.continuity, k.retained_from, k.produced)
       /\ j.produced <= k.produced
  BY <1>2
<1> QED BY <1>9, <1>10, <1>12, <1>13, <1>14, ExtendUnsampled

(* append_continuity_break: a break the ledger takes extends the journal
   by its one position. *)
LEMMA SettleBreak ==
  ASSUME NEW j, JournalInv(j), ~j.prepared_valid,
         NEW b \in ContinuityBreakRecord,
         break_valid(b), b.at_sequence = j.produced, j.produced < MaxSequence,
         break_append(j.continuity, b).status # "Full",
         NEW k, k = [j EXCEPT !.continuity = break_append(j.continuity, b).breaks,
                              !.produced = break_end(b)]
  PROVE  /\ JournalInv(k) /\ k.produced = break_end(b) /\ j.produced <= k.produced
         /\ k.retained_from = j.retained_from
         /\ k.delivered = j.delivered /\ k.released = j.released
         /\ k.discarded_sequences = j.discarded_sequences
         /\ break_status(break_append(j.continuity, b).status) = "Ok"
<1> DEFINE r == break_append(j.continuity, b)
<1> HIDE DEF r
<1>1. /\ j \in Journal
      /\ BreaksWithin(j.continuity, j.retained_from, j.produced)
      /\ j.continuity \in Seq(ContinuityBreakRecord)
      /\ j.retained_from \in Nat /\ j.produced \in Nat
      /\ j.retained_from <= j.produced
  BY JournalParts DEF JournalInv, Ledgers
<1>3. /\ r.status = "Ok" /\ r.breaks = Append(j.continuity, b)
      /\ r.breaks \in Seq(ContinuityBreakRecord)
      /\ BreaksWithin(r.breaks, j.retained_from, j.produced + 1)
  BY <1>1, BreakAppend, ZenonT(60) DEF r
<1>4. /\ break_end(b) = j.produced + 1 /\ break_end(b) \in 0..MaxSequence
      /\ j.produced <= j.produced + 1
  BY <1>1, CapacityAssumption DEF break_end
<1>5. /\ k \in Journal /\ k.continuity = r.breaks /\ k.produced = j.produced + 1
      /\ k.gaps = j.gaps
      /\ k.retained_from = j.retained_from /\ k.sample_size = j.sample_size
      /\ k.delivered = j.delivered /\ k.released = j.released
      /\ k.prepared_valid = j.prepared_valid
      /\ k.discarded_sequences = j.discarded_sequences
  BY <1>1, <1>3, <1>4 DEF Journal, Sequence, r
<1>6. /\ k.continuity = Append(j.continuity, b)
      /\ BreaksWithin(k.continuity, j.retained_from, j.produced + 1)
  BY <1>3, <1>5, Zenon
<1>7. JournalInv(k) BY <1>5, <1>6, BreakExtends, ZenonT(60)
<1>8. j.produced <= k.produced BY <1>4, <1>5, Zenon
<1> QED BY <1>3, <1>4, <1>5, <1>7, <1>8 DEF break_status, r

(* append_continuity_break keeps the journal consistent, and accepts every
   valid break at the produced cursor, a full ledger giving up its oldest. *)
LEMMA AppendBreakKeeps ==
  ASSUME NEW j, JournalInv(j), NEW b \in ContinuityBreakRecord
  PROVE  LET r == append_continuity_break(j, b)
         IN  /\ AppendKeeps(j, r.journal)
             /\ r.status = "Ok" => r.journal.produced = j.produced + 1
             /\ r.status # "Ok" => r.journal.produced = j.produced
             /\ break_valid(b) /\ b.at_sequence = j.produced =>
                  r.status = "Ok"
             /\ r.status # "Ok" => r.journal = j
             /\ r.status = "Ok" =>
                  \E base : MadeRoom(j, base) /\ BreakSettled(base, b, r.journal)
<1> DEFINE open == invalidate_prepared_view(j)
           direct == break_append(open.continuity, b)
           cut == break_end(open.continuity[1])
           room == discard_retention_before(open, cut, TRUE)
           base == room.journal
           second == break_append(base.continuity, b)
           one == [open EXCEPT !.continuity = direct.breaks,
                               !.produced = break_end(b)]
           two == [base EXCEPT !.continuity = second.breaks,
                               !.produced = break_end(b)]
           r == append_continuity_break(j, b)
<1>0. r = IF ~break_valid(b)
          THEN [status |-> "InvalidContinuityBreak", journal |-> j]
          ELSE IF b.at_sequence # j.produced
               THEN [status |-> "NonContiguous", journal |-> j]
          ELSE IF direct.status # "Full"
               THEN IF break_status(direct.status) = "Ok"
                    THEN [status |-> "Ok", journal |-> one]
                    ELSE [status |-> break_status(direct.status), journal |-> open]
          ELSE IF ~room.ok THEN [status |-> "InternalError", journal |-> open]
          ELSE IF break_status(second.status) = "Ok"
               THEN [status |-> "Ok", journal |-> two]
               ELSE [status |-> break_status(second.status), journal |-> base]
  BY DEF append_continuity_break
<1> HIDE DEF open, direct, cut, room, base, second, one, two, r
<1>1. /\ JournalInv(open) /\ ~open.prepared_valid
      /\ open.retained_from = j.retained_from /\ open.produced = j.produced
      /\ open.delivered = j.delivered /\ open.released = j.released
      /\ open.discarded_sequences = j.discarded_sequences
  BY InvalidatePrepared DEF open
<1>2. /\ j.retained_from \in Nat /\ j.produced \in Nat
      /\ j.discarded_sequences \in Nat /\ j.retained_from <= j.produced
      /\ j.produced <= MaxSequence
      /\ MaxSequence \in Nat
  BY JournalParts, CapacityAssumption
<1>a. b.at_sequence = j.produced => break_end(b) = j.produced + 1 BY DEF break_end
<1>3. CASE ~break_valid(b) \/ b.at_sequence # j.produced
  <2>1. r.journal = j /\ r.status # "Ok" BY <1>0, <1>3
  <2> QED BY <1>3, <2>1, AppendKeepsSelf DEF r
<1>4. ASSUME break_valid(b), b.at_sequence = j.produced
      PROVE  j.produced < MaxSequence
  BY <1>2, <1>4 DEF break_valid
<1>5. CASE /\ break_valid(b) /\ b.at_sequence = j.produced
           /\ direct.status # "Full"
  <2>1. /\ JournalInv(one) /\ open.produced <= one.produced
        /\ one.produced = break_end(b)
        /\ one.retained_from = open.retained_from
        /\ one.delivered = open.delivered /\ one.released = open.released
        /\ one.discarded_sequences = open.discarded_sequences
        /\ break_status(direct.status) = "Ok"
    <3>1. b.at_sequence = open.produced /\ open.produced < MaxSequence
      BY <1>1, <1>4, <1>5
    <3>2. /\ JournalInv(open) /\ ~open.prepared_valid /\ break_valid(b)
          /\ break_append(open.continuity, b).status # "Full"
          /\ one = [open EXCEPT
                      !.continuity = break_append(open.continuity, b).breaks,
                      !.produced = break_end(b)]
      BY <1>1, <1>5 DEF one, direct
    <3> QED BY <3>1, <3>2, SettleBreak, ZenonT(60) DEF direct
  <2>2. r.status = "Ok" /\ r.journal = one BY <1>0, <1>5, <2>1
  <2>3. AppendKeeps(j, one) BY <1>1, <1>2, <2>1 DEF AppendKeeps
  <2>4. MadeRoom(j, open) /\ BreakSettled(open, b, r.journal)
    BY <1>1, <1>4, <1>5, <2>2 DEF MadeRoom, BreakSettled, open, one, direct
  <2> QED BY <1>a, <1>5, <2>1, <2>2, <2>3, <2>4 DEF r
<1>6. CASE /\ break_valid(b) /\ b.at_sequence = j.produced
           /\ direct.status = "Full"
  <2>1. /\ open.continuity \in Seq(ContinuityBreakRecord)
        /\ open.retained_from \in Nat /\ open.produced \in Nat
        /\ open.retained_from <= open.produced
        /\ BreaksWithin(open.continuity, open.retained_from, open.produced)
    BY <1>1, JournalParts DEF JournalInv, Ledgers
  <2>2. Len(open.continuity) = ContinuityCapacity /\ open.continuity # <<>>
    <3>1. b.at_sequence = open.produced BY <1>1, <1>6
    <3> QED BY <1>6, <2>1, <3>1, BreakAppend DEF direct
  <2>3. /\ cut \in Nat /\ open.retained_from <= cut /\ cut <= open.produced
    <3>1. 1 \in DOMAIN open.continuity BY <2>1, <2>2
    <3>2. /\ open.retained_from <= open.continuity[1].at_sequence
          /\ cut <= open.produced
      BY <2>1, <3>1 DEF BreaksWithin, cut
    <3>3. /\ open.continuity[1].at_sequence \in Nat
          /\ cut = open.continuity[1].at_sequence + 1
      BY <2>1, <3>1, BreakFields DEF cut
    <3> QED BY <2>1, <3>2, <3>3
  <2>4. /\ room.ok /\ JournalInv(base) /\ ~base.prepared_valid
        /\ base.retained_from = cut /\ base.produced = open.produced
        /\ base.delivered = open.delivered /\ base.released = open.released
        /\ base.continuity = break_discard_before(open.continuity, cut)
        /\ base.discarded_sequences >= open.discarded_sequences
    <3>1. JournalInv(open) /\ ~open.prepared_valid BY <1>1
    <3> QED BY <3>1, <2>3, DiscardRetention, ZenonT(60) DEF room, base
  <2>5. Len(base.continuity) < ContinuityCapacity
    <3>1. break_end(open.continuity[1]) <= cut BY <2>3 DEF cut
    <3>2. Len(break_discard_before(open.continuity, cut)) < Len(open.continuity)
      BY <2>1, <2>2, <2>3, <3>1, BreakDiscard
    <3> QED BY <2>2, <2>4, <3>2
  <2>6. /\ base.continuity \in Seq(ContinuityBreakRecord)
        /\ base.retained_from \in Nat /\ base.produced \in Nat
        /\ base.retained_from <= base.produced
        /\ base.discarded_sequences \in Nat
        /\ BreaksWithin(base.continuity, base.retained_from, base.produced)
    BY <2>4, JournalParts DEF JournalInv, Ledgers
  <2>7. second.status # "Full"
    <3>1. b.at_sequence = base.produced BY <1>1, <1>6, <2>4
    <3>2. second.status = "Full" => Len(base.continuity) = ContinuityCapacity
      BY <1>6, <2>6, <3>1, BreakAppend DEF second
    <3>3. Len(base.continuity) # ContinuityCapacity BY <2>5, <2>6, CapacityAssumption
    <3> QED BY <3>2, <3>3
  <2>8. /\ JournalInv(two) /\ base.produced <= two.produced
        /\ two.produced = break_end(b)
        /\ two.retained_from = base.retained_from
        /\ two.delivered = base.delivered /\ two.released = base.released
        /\ two.discarded_sequences = base.discarded_sequences
        /\ break_status(second.status) = "Ok"
    <3>1. b.at_sequence = base.produced /\ base.produced < MaxSequence
      BY <1>1, <1>4, <1>6, <2>4
    <3>2. /\ JournalInv(base) /\ ~base.prepared_valid /\ break_valid(b)
          /\ break_append(base.continuity, b).status # "Full"
          /\ two = [base EXCEPT
                      !.continuity = break_append(base.continuity, b).breaks,
                      !.produced = break_end(b)]
      BY <1>6, <2>4, <2>7 DEF two, second
    <3> QED BY <3>1, <3>2, SettleBreak, ZenonT(60) DEF second
  <2>9. r.status = "Ok" /\ r.journal = two BY <1>0, <1>6, <2>4, <2>8
  <2>10. AppendKeeps(j, two) BY <1>1, <1>2, <2>3, <2>4, <2>6, <2>8 DEF AppendKeeps
  <2>11. MadeRoom(j, base)
    <3>1. j.retained_from <= cut /\ cut <= j.produced /\ cut \in Nat BY <1>1, <2>3
    <3> QED BY <3>1 DEF MadeRoom, open, room, base
  <2>12. BreakSettled(base, b, r.journal)
    BY <1>1, <1>4, <1>6, <2>4, <2>7, <2>9 DEF BreakSettled, two, second
  <2> QED BY <1>a, <1>6, <2>8, <2>9, <2>10, <2>11, <2>12 DEF r
<1> QED BY <1>3, <1>5, <1>6
------------------------
(* Reading, settling and releasing. *)

(* A prepared range inside the retained data keeps the journal consistent. *)
LEMMA PrepareThrough ==
  ASSUME NEW j, JournalInv(j), NEW cursor \in Nat,
         j.retained_from < cursor, cursor <= j.produced
  PROVE  LET k == prepare_through(j, cursor)
         IN  /\ JournalInv(k) /\ k.prepared_valid /\ k.prepared_through = cursor
             /\ k.retained_from = j.retained_from /\ k.produced = j.produced
             /\ k.delivered = j.delivered /\ k.released = j.released
             /\ k.discarded_sequences = j.discarded_sequences
<1> DEFINE k == prepare_through(j, cursor)
<1>1. /\ j \in Journal /\ j.produced \in Nat /\ j.produced <= MaxSequence
      /\ MaxSequence \in Nat
  BY JournalParts, CapacityAssumption DEF JournalInv
<1>2. /\ k \in Journal /\ k.prepared_valid = TRUE /\ k.prepared_through = cursor
      /\ k.gaps = j.gaps /\ k.continuity = j.continuity
      /\ k.sample_size = j.sample_size
      /\ k.retained_from = j.retained_from /\ k.produced = j.produced
      /\ k.delivered = j.delivered /\ k.released = j.released
      /\ k.discarded_sequences = j.discarded_sequences
  <2>1. cursor \in 0..MaxSequence BY <1>1
  <2> QED BY <1>1, <2>1 DEF Journal, Sequence, prepare_through
<1> HIDE DEF k
<1>3. samples_between(k, k.retained_from, k.produced) =
        samples_between(j, j.retained_from, j.produced)
  BY <1>2, SamplesLedgers
<1>4. /\ CursorsOrdered(j) /\ RingExact(j)
      /\ GapsWithin(j.gaps, j.retained_from, j.produced)
      /\ BreaksWithin(j.continuity, j.retained_from, j.produced)
      /\ LedgersDisjoint(j.gaps, j.continuity)
  BY DEF JournalInv
<1>5. JournalInv(k)
  BY <1>2, <1>3, <1>4 DEF JournalInv, CursorsOrdered, PreparedWithin, RingExact
<1> QED BY <1>2, <1>5 DEF k

(* The scan for the configuration boundary always takes at least the first
   sample and never more than the count it was given, and what it takes
   shares the first sample's revision and segment. *)
LEMMA BoundedCount ==
  ASSUME NEW j, NEW offset, NEW count \in Nat, count > 0
  PROVE  LET at(k) == j.samples[sample_physical_index(j, offset + k)]
             n == bounded_count(j, offset, count)
         IN  /\ n \in 1..count
             /\ \A k \in 0..(n - 1) :
                  /\ at(k).config_revision = at(0).config_revision
                  /\ at(k).timing_segment_id = at(0).timing_segment_id
<1> DEFINE at(k) == j.samples[sample_physical_index(j, offset + k)]
           same(k) == /\ at(k).config_revision = at(0).config_revision
                      /\ at(k).timing_segment_id = at(0).timing_segment_id
           Hit == {k \in 1..(count - 1) : ~same(k)}
           r == bounded_count(j, offset, count)
<1>0. same(0) OBVIOUS
<1>1. r = CHOOSE n \in 1..count : /\ \A k \in 0..(n - 1) : same(k)
                                  /\ n < count => ~same(n)
  BY DEF bounded_count
<1> HIDE DEF same, r
<1>2. PICK m \in 0..(count - 1) : /\ \A k \in 1..m : k \notin Hit
                                  /\ m < count - 1 => m + 1 \in Hit
  <2>1. count - 1 \in Nat OBVIOUS
  <2> HIDE DEF Hit
  <2> QED BY <2>1, FirstHit
<1>3. /\ m + 1 \in 1..count
      /\ \A k \in 0..(m + 1 - 1) : same(k)
      /\ m + 1 < count => ~same(m + 1)
  <2>1. \A k \in 0..(m + 1 - 1) : same(k)
    <3> SUFFICES ASSUME NEW k \in 0..m PROVE same(k) OBVIOUS
    <3>1. CASE k = 0 BY <1>0, <3>1
    <3>2. CASE k \in 1..m BY <1>2, <3>2
    <3> QED BY <3>1, <3>2
  <2> QED BY <1>2, <2>1
<1>4. \E n \in 1..count : /\ \A k \in 0..(n - 1) : same(k)
                          /\ n < count => ~same(n)
  BY <1>3
<1>5. r \in 1..count /\ \A k \in 0..(r - 1) : same(k) BY <1>1, <1>4
<1> QED BY <1>5 DEF same, r

(* A run of samples stops inside the journal. *)
LEMMA SampleEnd ==
  ASSUME NEW j, JournalInv(j), NEW from \in Nat
  PROVE  sample_end(j, from) \in Nat /\ sample_end(j, from) <= j.produced
<1> DEFINE limits == {j.produced}
             \cup {g.first_missing : g \in gap_next_from(j.gaps, from)}
             \cup {b.at_sequence : b \in break_next_from(j.continuity, from)}
<1>1. /\ j.produced \in Nat
      /\ \A i \in DOMAIN j.gaps : j.gaps[i].first_missing \in Nat
      /\ \A i \in DOMAIN j.continuity : j.continuity[i].at_sequence \in Nat
  BY JournalParts
<1>2. /\ \A g \in gap_next_from(j.gaps, from) : g.first_missing \in Nat
      /\ \A b \in break_next_from(j.continuity, from) : b.at_sequence \in Nat
  BY <1>1 DEF gap_next_from, break_next_from
<1>3. limits \in SUBSET Nat /\ limits # {} /\ j.produced \in limits BY <1>1, <1>2
<1>4. sample_end(j, from) = CHOOSE s \in limits : \A t \in limits : s <= t
  BY DEF sample_end
<1> HIDE DEF limits
<1>5. \E s \in limits : \A t \in limits : s <= t BY <1>3, LeastNat
<1> QED BY <1>3, <1>4, <1>5

(* A run that starts at a sample does not stop before its first one. *)
LEMMA SampleEndBehind ==
  ASSUME NEW j, JournalInv(j), NEW from \in Nat, from < j.produced,
         gap_containing(j.gaps, from) = {},
         break_containing(j.continuity, from) = {}
  PROVE  sample_end(j, from) > from
<1> DEFINE limits == {j.produced}
             \cup {g.first_missing : g \in gap_next_from(j.gaps, from)}
             \cup {b.at_sequence : b \in break_next_from(j.continuity, from)}
<1>1. /\ j.produced \in Nat
      /\ \A i \in DOMAIN j.gaps : j.gaps[i].first_missing \in Nat
      /\ \A i \in DOMAIN j.continuity : j.continuity[i].at_sequence \in Nat
  BY JournalParts
<1>2. \A i \in DOMAIN j.gaps : ~(/\ j.gaps[i].first_missing <= from
                                /\ from < gap_end(j.gaps[i]))
  BY DEF gap_containing
<1>3. \A i \in DOMAIN j.continuity : j.continuity[i].at_sequence # from
  BY DEF break_containing
<1>4. \A i \in DOMAIN j.gaps : gap_end(j.gaps[i]) \in Nat BY JournalParts
<1>5. \A g \in gap_next_from(j.gaps, from) :
        g.first_missing \in Nat /\ g.first_missing > from
  <2> SUFFICES ASSUME NEW i \in DOMAIN j.gaps, gap_end(j.gaps[i]) > from
               PROVE  j.gaps[i].first_missing \in Nat
                      /\ j.gaps[i].first_missing > from
    BY DEF gap_next_from
  <2> QED BY <1>1, <1>2, <1>4
<1>6. \A b \in break_next_from(j.continuity, from) :
        b.at_sequence \in Nat /\ b.at_sequence > from
  <2> SUFFICES ASSUME NEW i \in DOMAIN j.continuity,
                      j.continuity[i].at_sequence >= from
               PROVE  j.continuity[i].at_sequence \in Nat
                      /\ j.continuity[i].at_sequence > from
    BY DEF break_next_from
  <2> QED BY <1>1, <1>3
<1>7. /\ limits \in SUBSET Nat /\ limits # {}
      /\ \A s \in limits : s > from
  BY <1>1, <1>5, <1>6
<1>8. sample_end(j, from) = CHOOSE s \in limits : \A t \in limits : s <= t
  BY DEF sample_end
<1> HIDE DEF limits
<1>9. \E s \in limits : \A t \in limits : s <= t BY <1>7, LeastNat
<1> QED BY <1>7, <1>8, <1>9

(* What a read, a cancellation, a completion or a refused release leaves:
   a consistent journal with the same retained range. *)
ReadKeeps(j, k) ==
  /\ JournalInv(k)
  /\ k.retained_from = j.retained_from /\ k.produced = j.produced
  /\ k.delivered = j.delivered /\ k.released = j.released
  /\ k.discarded_sequences = j.discarded_sequences

(* prepare_read keeps the journal consistent: a range it prepares begins
   at the cursor, ends behind it and inside what was produced. *)
LEMMA PrepareReadKeeps ==
  ASSUME NEW j, JournalInv(j), NEW from \in Nat, NEW limit \in Nat
  PROVE  LET r == prepare_read(j, from, limit)
         IN  /\ ReadKeeps(j, r.journal)
             /\ r.view.status \in {"InvalidLimit", "RangeUnavailable",
                  "AheadOfProduced", "NoData", "Gap", "ContinuityBreak",
                  "Samples", "InternalError"}
             /\ r.view.status \in {"Gap", "ContinuityBreak", "Samples"} =>
                  /\ r.journal.prepared_valid
                  /\ r.journal.prepared_through = r.view.end_sequence
                  /\ r.view.end_sequence \in (from + 1)..j.produced
<1> DEFINE open == invalidate_prepared_view(j)
           view(status, end) ==
             [status |-> status, first_sequence |-> from, end_sequence |-> end,
              retained_from |-> j.retained_from, produced |-> j.produced,
              first |-> NoSpan, second |-> NoSpan,
              gap |-> NoGap, continuity_break |-> NoBreak]
           in_gap == gap_containing(j.gaps, from)
           at_break == break_containing(j.continuity, from)
           g == CHOOSE x \in in_gap : TRUE
           b == CHOOSE x \in at_break : TRUE
           available == sample_end(j, from) - from
           count == IF available < limit THEN available ELSE limit
           offset == samples_between(j, j.retained_from, from)
           bounded == bounded_count(j, offset, count)
           start == sample_physical_index(j, offset)
           first_size == IF bounded < SampleCapacity - start
                         THEN bounded ELSE SampleCapacity - start
           r == prepare_read(j, from, limit)
<1>1. r = IF limit = 0 THEN [view |-> view("InvalidLimit", from), journal |-> open]
          ELSE IF from < j.retained_from
               THEN [view |-> view("RangeUnavailable", from), journal |-> open]
          ELSE IF from > j.produced
               THEN [view |-> view("AheadOfProduced", from), journal |-> open]
          ELSE IF from = j.produced
               THEN [view |-> view("NoData", from), journal |-> open]
          ELSE IF in_gap # {} THEN
                 [view    |-> [view("Gap", gap_end(g)) EXCEPT !.gap = g],
                  journal |-> prepare_through(open, gap_end(g))]
          ELSE IF at_break # {} THEN
                 [view    |-> [view("ContinuityBreak", break_end(b))
                                 EXCEPT !.continuity_break = b],
                  journal |-> prepare_through(open, break_end(b))]
          ELSE IF \/ count = 0
                  \/ offset >= j.sample_size
                  \/ count > j.sample_size - offset
               THEN [view |-> view("InternalError", from), journal |-> open]
          ELSE [view    |-> [view("Samples", from + bounded)
                  EXCEPT !.first = [data |-> start, size |-> first_size],
                         !.second = [data |-> 0, size |-> bounded - first_size]],
                journal |-> prepare_through(open, from + bounded)]
  BY DEF prepare_read
<1>2. \A st, end : view(st, end).status = st /\ view(st, end).end_sequence = end OBVIOUS
<1>3. \A st, end, x : /\ [view(st, end) EXCEPT !.gap = x].status = st
                      /\ [view(st, end) EXCEPT !.gap = x].end_sequence = end
  OBVIOUS
<1>4. \A st, end, x : /\ [view(st, end) EXCEPT !.continuity_break = x].status = st
                      /\ [view(st, end) EXCEPT !.continuity_break = x].end_sequence = end
  OBVIOUS
<1>5. \A st, end, x, y :
        /\ [view(st, end) EXCEPT !.first = x, !.second = y].status = st
        /\ [view(st, end) EXCEPT !.first = x, !.second = y].end_sequence = end
  OBVIOUS
<1> HIDE DEF open, view, in_gap, at_break, g, b, available, count, offset,
             bounded, start, first_size, r
<1>6. /\ JournalInv(open) /\ ReadKeeps(j, open)
      /\ open.retained_from = j.retained_from /\ open.produced = j.produced
  BY InvalidatePrepared DEF open, ReadKeeps
<1>7. /\ j.retained_from \in Nat /\ j.produced \in Nat
      /\ j.gaps \in Seq(GapRecord) /\ j.continuity \in Seq(ContinuityBreakRecord)
      /\ \A i \in DOMAIN j.gaps : /\ gap_end(j.gaps[i]) \in Nat
                                  /\ gap_end(j.gaps[i]) <= j.produced
  <2>1. \A i \in DOMAIN j.gaps : gap_end(j.gaps[i]) <= j.produced
    BY DEF JournalInv, GapsWithin
  <2> QED BY <2>1, JournalParts DEF Ledgers
<1>8. ASSUME NEW end \in (from + 1)..j.produced, j.retained_from <= from,
             r.journal = prepare_through(open, end),
             r.view.end_sequence = end,
             r.view.status \in {"Gap", "ContinuityBreak", "Samples"}
      PROVE  /\ ReadKeeps(j, r.journal)
             /\ r.journal.prepared_valid
             /\ r.journal.prepared_through = r.view.end_sequence
             /\ r.view.end_sequence \in (from + 1)..j.produced
  <2>1. end \in Nat /\ open.retained_from < end /\ end <= open.produced
    BY <1>6, <1>7, <1>8
  <2>2. LET k == prepare_through(open, end)
        IN  /\ JournalInv(k) /\ k.prepared_valid /\ k.prepared_through = end
            /\ k.retained_from = open.retained_from /\ k.produced = open.produced
            /\ k.delivered = open.delivered /\ k.released = open.released
            /\ k.discarded_sequences = open.discarded_sequences
    BY <1>6, <2>1, PrepareThrough, ZenonT(60)
  <2> QED BY <1>6, <1>8, <2>2 DEF ReadKeeps
<1>9. CASE \/ limit = 0 \/ from < j.retained_from \/ from > j.produced
           \/ from = j.produced
  <2>1. r.journal = open /\ r.view.status \in
          {"InvalidLimit", "RangeUnavailable", "AheadOfProduced", "NoData"}
    BY <1>1, <1>2, <1>9, Zenon
  <2> QED BY <1>6, <2>1 DEF r
<1>10. ASSUME ~(\/ limit = 0 \/ from < j.retained_from \/ from > j.produced
                \/ from = j.produced)
       PROVE  limit > 0 /\ j.retained_from <= from /\ from < j.produced
  BY <1>7, <1>10
<1>11. CASE /\ ~(\/ limit = 0 \/ from < j.retained_from \/ from > j.produced
                 \/ from = j.produced)
            /\ in_gap # {}
  <2>1. gap_end(g) \in (from + 1)..j.produced
    <3>1. g \in in_gap BY <1>11 DEF g
    <3>2. PICK i \in DOMAIN j.gaps :
            /\ from < gap_end(j.gaps[i])
            /\ g = [first_missing |-> from,
                    missing_count |-> gap_end(j.gaps[i]) - from,
                    reason |-> j.gaps[i].reason]
      BY <3>1 DEF in_gap, gap_containing
    <3>3. gap_end(g) = from + (gap_end(j.gaps[i]) - from) BY <3>2 DEF gap_end
    <3>4. gap_end(j.gaps[i]) \in Nat /\ gap_end(j.gaps[i]) <= j.produced BY <1>7
    <3> QED BY <3>2, <3>3, <3>4, <1>7
  <2>2. /\ r.journal = prepare_through(open, gap_end(g))
        /\ r.view = [view("Gap", gap_end(g)) EXCEPT !.gap = g]
    BY <1>1, <1>11
  <2>3. r.view.status = "Gap" /\ r.view.end_sequence = gap_end(g) BY <1>3, <2>2
  <2> QED BY <1>8, <1>10, <1>11, <2>1, <2>2, <2>3 DEF r
<1>12. CASE /\ ~(\/ limit = 0 \/ from < j.retained_from \/ from > j.produced
                 \/ from = j.produced)
            /\ in_gap = {} /\ at_break # {}
  <2>1. break_end(b) \in (from + 1)..j.produced
    <3>1. b \in at_break BY <1>12 DEF b
    <3>2. b.at_sequence = from BY <3>1 DEF at_break, break_containing
    <3> QED BY <3>2, <1>7, <1>10, <1>12 DEF break_end
  <2>2. /\ r.journal = prepare_through(open, break_end(b))
        /\ r.view = [view("ContinuityBreak", break_end(b))
                       EXCEPT !.continuity_break = b]
    BY <1>1, <1>12
  <2>3. r.view.status = "ContinuityBreak" /\ r.view.end_sequence = break_end(b)
    BY <1>4, <2>2
  <2> QED BY <1>8, <1>10, <1>12, <2>1, <2>2, <2>3 DEF r
<1>13. CASE /\ ~(\/ limit = 0 \/ from < j.retained_from \/ from > j.produced
                 \/ from = j.produced)
            /\ in_gap = {} /\ at_break = {}
            /\ (\/ count = 0 \/ offset >= j.sample_size
                \/ count > j.sample_size - offset)
  <2>1. r.journal = open /\ r.view.status = "InternalError" BY <1>1, <1>2, <1>13
  <2> QED BY <1>6, <2>1 DEF r
<1>14. CASE /\ ~(\/ limit = 0 \/ from < j.retained_from \/ from > j.produced
                 \/ from = j.produced)
            /\ in_gap = {} /\ at_break = {}
            /\ ~(\/ count = 0 \/ offset >= j.sample_size
                 \/ count > j.sample_size - offset)
  <2>1. from + bounded \in (from + 1)..j.produced
    <3>1. sample_end(j, from) \in Nat /\ sample_end(j, from) <= j.produced BY SampleEnd
    <3>2. /\ available \in Int /\ from + available <= j.produced
      BY <1>7, <3>1 DEF available
    <3>3. count \in Int /\ count <= available BY <3>2 DEF count
    <3>4. count > 0
      <4>1. offset \in Nat /\ offset <= j.sample_size /\ j.sample_size \in Nat
        <5>1. /\ Ledgers(j) /\ j.retained_from \in Nat /\ j.produced \in Nat
              /\ j.retained_from <= from /\ from <= j.produced
              /\ j.sample_size \in Nat
          BY <1>7, <1>10, <1>14, JournalParts
        <5>2. /\ samples_between(j, j.retained_from, j.produced) =
                   offset + samples_between(j, from, j.produced)
              /\ offset \in Nat /\ samples_between(j, from, j.produced) \in Nat
          BY <5>1, SamplesSplit DEF offset
        <5>3. j.sample_size = samples_between(j, j.retained_from, j.produced)
          BY DEF JournalInv, RingExact
        <5> QED BY <5>1, <5>2, <5>3
      <4>2. sample_end(j, from) > from
        BY <1>14, <1>10, SampleEndBehind DEF in_gap, at_break
      <4>3. available > 0 BY <3>1, <4>2 DEF available
      <4> QED BY <1>10, <1>14, <3>2, <4>3 DEF count
    <3>5. bounded \in 1..count
      <4>1. count \in Nat BY <3>3, <3>4
      <4> QED BY <3>4, <4>1, BoundedCount DEF bounded
    <3> QED BY <1>7, <3>2, <3>3, <3>5
  <2>2. /\ r.journal = prepare_through(open, from + bounded)
        /\ r.view = [view("Samples", from + bounded)
             EXCEPT !.first = [data |-> start, size |-> first_size],
                    !.second = [data |-> 0, size |-> bounded - first_size]]
    BY <1>1, <1>14
  <2>3. r.view.status = "Samples" /\ r.view.end_sequence = from + bounded BY <1>5, <2>2
  <2> QED BY <1>8, <1>10, <1>14, <2>1, <2>2, <2>3 DEF r
<1> QED BY <1>9, <1>11, <1>12, <1>13, <1>14

(* mark_delivered moves the delivered cursor forward, and only to the end
   of the prepared range. *)
LEMMA MarkDeliveredKeeps ==
  ASSUME NEW j, JournalInv(j), NEW end
  PROVE  LET r == mark_delivered(j, end)
         IN  /\ JournalInv(r.journal)
             /\ r.journal.retained_from = j.retained_from
             /\ r.journal.produced = j.produced
             /\ r.journal.released = j.released
             /\ r.journal.discarded_sequences = j.discarded_sequences
             /\ j.delivered <= r.journal.delivered
             /\ r.journal.delivered \in {j.delivered, end}
<1> DEFINE to == IF end > j.delivered THEN end ELSE j.delivered
           moved == [j EXCEPT !.delivered = IF end > @ THEN end ELSE @]
           r == mark_delivered(j, end)
<1>0. /\ j \in Journal /\ j.delivered \in Nat /\ j.produced \in Nat
      /\ j.produced <= MaxSequence /\ j.delivered <= j.produced
      /\ MaxSequence \in Nat /\ j.retained_from \in Nat
  BY JournalParts, CapacityAssumption DEF JournalInv
<1>1. CASE ~j.prepared_valid \/ end # j.prepared_through
  BY <1>0, <1>1 DEF mark_delivered
<1>2. CASE j.prepared_valid /\ end = j.prepared_through
  <2>1. /\ end \in Nat /\ end <= j.produced
    BY <1>0, <1>2 DEF JournalInv, PreparedWithin, Journal, Sequence
  <2>2. /\ to \in 0..MaxSequence /\ j.delivered <= to /\ to <= j.produced
        /\ to \in {j.delivered, end}
    BY <1>0, <2>1
  <2>3. moved = [j EXCEPT !.delivered = to] OBVIOUS
  <2>4. r.journal = invalidate_prepared_view(moved) BY <1>2 DEF mark_delivered
  <2> HIDE DEF to, moved, r
  <2>5. /\ moved \in Journal /\ moved.delivered = to
        /\ moved.gaps = j.gaps /\ moved.continuity = j.continuity
        /\ moved.sample_size = j.sample_size
        /\ moved.retained_from = j.retained_from /\ moved.produced = j.produced
        /\ moved.released = j.released
        /\ moved.prepared_valid = j.prepared_valid
        /\ moved.prepared_through = j.prepared_through
        /\ moved.discarded_sequences = j.discarded_sequences
    BY <1>0, <2>2, <2>3 DEF Journal, Sequence
  <2>6. samples_between(moved, moved.retained_from, moved.produced) =
          samples_between(j, j.retained_from, j.produced)
    BY <2>5, SamplesLedgers
  <2>7. /\ CursorsOrdered(j) /\ RingExact(j) /\ PreparedWithin(j)
        /\ GapsWithin(j.gaps, j.retained_from, j.produced)
        /\ BreaksWithin(j.continuity, j.retained_from, j.produced)
        /\ LedgersDisjoint(j.gaps, j.continuity)
    BY DEF JournalInv
  <2>8. JournalInv(moved) BY <2>2, <2>5, <2>6, <2>7
       DEF JournalInv, CursorsOrdered, PreparedWithin, RingExact
  <2>9. /\ JournalInv(r.journal)
        /\ r.journal.retained_from = moved.retained_from
        /\ r.journal.produced = moved.produced
        /\ r.journal.delivered = moved.delivered
        /\ r.journal.released = moved.released
        /\ r.journal.discarded_sequences = moved.discarded_sequences
    BY <2>4, <2>8, InvalidatePrepared
  <2> QED BY <2>2, <2>5, <2>9 DEF r
<1> QED BY <1>1, <1>2

(* Moving the released cursor up to the retained range keeps the journal
   consistent. *)
LEMMA SetReleased ==
  ASSUME NEW j, JournalInv(j), NEW cursor \in Nat, cursor <= j.retained_from
  PROVE  LET k == [j EXCEPT !.released = cursor]
         IN  /\ JournalInv(k) /\ k.released = cursor
             /\ k.retained_from = j.retained_from /\ k.produced = j.produced
             /\ k.delivered = j.delivered
             /\ k.discarded_sequences = j.discarded_sequences
<1> DEFINE k == [j EXCEPT !.released = cursor]
<1>1. /\ j \in Journal /\ j.retained_from \in Nat
      /\ j.retained_from <= MaxSequence /\ MaxSequence \in Nat
  BY JournalParts, CapacityAssumption DEF JournalInv
<1>2. /\ k \in Journal /\ k.released = cursor
      /\ k.gaps = j.gaps /\ k.continuity = j.continuity
      /\ k.sample_size = j.sample_size
      /\ k.retained_from = j.retained_from /\ k.produced = j.produced
      /\ k.delivered = j.delivered
      /\ k.prepared_valid = j.prepared_valid
      /\ k.prepared_through = j.prepared_through
      /\ k.discarded_sequences = j.discarded_sequences
  <2>1. cursor \in 0..MaxSequence BY <1>1
  <2> QED BY <1>1, <2>1 DEF Journal, Sequence
<1> HIDE DEF k
<1>3. samples_between(k, k.retained_from, k.produced) =
        samples_between(j, j.retained_from, j.produced)
  BY <1>2, SamplesLedgers
<1>4. /\ CursorsOrdered(j) /\ RingExact(j) /\ PreparedWithin(j)
      /\ GapsWithin(j.gaps, j.retained_from, j.produced)
      /\ BreaksWithin(j.continuity, j.retained_from, j.produced)
      /\ LedgersDisjoint(j.gaps, j.continuity)
  BY DEF JournalInv
<1>5. JournalInv(k)
  BY <1>2, <1>3, <1>4 DEF JournalInv, CursorsOrdered, PreparedWithin, RingExact
<1> QED BY <1>2, <1>5 DEF k

(* release_before, whatever cursor it is given, keeps the journal
   consistent, counts no loss, and drops retained data only below the
   delivered cursor. *)
ReleaseKeeps(j, k) ==
  /\ JournalInv(k)
  /\ j.retained_from <= k.retained_from
  /\ k.retained_from # j.retained_from => k.retained_from <= j.delivered
  /\ k.produced = j.produced
  /\ k.delivered = j.delivered
  /\ j.released <= k.released
  /\ k.discarded_sequences >= j.discarded_sequences

(* release_before satisfies ReleaseKeeps for every cursor. *)
LEMMA ReleaseBeforeKeeps ==
  ASSUME NEW j, JournalInv(j), NEW cursor \in Nat
  PROVE  ReleaseKeeps(j, release_before(j, cursor).journal)
<1> DEFINE open == invalidate_prepared_view(j)
           dropped == discard_retention_before(open, cursor, FALSE)
           base == dropped.journal
           kept == [open EXCEPT !.released = cursor]
           freed == [base EXCEPT !.released = cursor]
           r == release_before(j, cursor)
<1>0. r = IF cursor <= j.released THEN [status |-> "Ok", journal |-> open]
          ELSE IF cursor > release_limit(j)
               THEN [status |-> "BeyondDeliveredRange", journal |-> open]
          ELSE IF cursor <= j.retained_from
               THEN [status |-> "Ok", journal |-> kept]
          ELSE IF ~dropped.ok
               THEN [status |-> "BeyondDeliveredRange", journal |-> open]
          ELSE [status |-> "Ok", journal |-> freed]
  BY DEF release_before
<1> HIDE DEF open, dropped, base, kept, freed, r
<1>1. /\ JournalInv(open) /\ ~open.prepared_valid
      /\ open.retained_from = j.retained_from /\ open.produced = j.produced
      /\ open.delivered = j.delivered /\ open.released = j.released
      /\ open.discarded_sequences = j.discarded_sequences
  BY InvalidatePrepared DEF open
<1>2. /\ j.retained_from \in Nat /\ j.produced \in Nat /\ j.delivered \in Nat
      /\ j.released \in Nat /\ j.discarded_sequences \in Nat
      /\ j.delivered <= j.produced /\ j.retained_from <= j.produced
  BY JournalParts
<1>3. CASE r.journal = open BY <1>1, <1>2, <1>3 DEF ReleaseKeeps, r
<1>4. CASE ~(cursor <= j.released) /\ cursor <= j.retained_from /\ r.journal = kept
  <2>1. JournalInv(open) /\ cursor <= open.retained_from BY <1>1, <1>4
  <2>2. /\ JournalInv(kept) /\ kept.released = cursor
        /\ kept.retained_from = open.retained_from
        /\ kept.produced = open.produced /\ kept.delivered = open.delivered
        /\ kept.discarded_sequences = open.discarded_sequences
    BY <2>1, SetReleased, ZenonT(60) DEF kept
  <2> QED BY <1>1, <1>2, <1>4, <2>2 DEF ReleaseKeeps, r
<1>5. CASE /\ ~(cursor <= j.released) /\ ~(cursor > release_limit(j))
           /\ ~(cursor <= j.retained_from) /\ dropped.ok /\ r.journal = freed
  <2>1. cursor <= j.delivered /\ cursor > j.retained_from /\ cursor <= j.produced
    BY <1>2, <1>5 DEF release_limit
  <2>2. /\ JournalInv(open) /\ ~open.prepared_valid
        /\ open.retained_from <= cursor /\ cursor <= open.produced
    BY <1>1, <1>2, <2>1
  <2>3. /\ JournalInv(base) /\ base.retained_from = cursor
        /\ base.produced = open.produced /\ base.delivered = open.delivered
        /\ base.discarded_sequences >= open.discarded_sequences
    <3>1. FALSE \in BOOLEAN OBVIOUS
    <3> QED BY <2>2, <3>1, DiscardRetention, ZenonT(60) DEF dropped, base
  <2>4. /\ JournalInv(freed) /\ freed.released = cursor
        /\ freed.retained_from = base.retained_from
        /\ freed.produced = base.produced /\ freed.delivered = base.delivered
        /\ freed.discarded_sequences = base.discarded_sequences
    <3>1. cursor <= base.retained_from BY <2>3
    <3> QED BY <2>3, <3>1, SetReleased, ZenonT(60) DEF freed
  <2> QED BY <1>1, <1>2, <1>5, <2>1, <2>3, <2>4 DEF ReleaseKeeps, r
<1> QED BY <1>0, <1>3, <1>4, <1>5
------------------------
(* The delivery session. *)

(* A session as the constructor and the operations leave it. *)
Session ==
  [boot_epoch : Nat, next_token : 0..(TokenModulus - 1),
   prepared_token : 0..(TokenModulus - 1), prepared_end : Sequence]

PullCommand ==
  [boot_epoch : Nat, from : Nat, release_before : Nat, max_samples : Nat]

(* A consistent journal serves as its own result of a refused command. *)
LEMMA ReleaseKeepsSelf ==
  ASSUME NEW j, JournalInv(j)
  PROVE  /\ ReleaseKeeps(j, j)
         /\ ReadKeeps(j, cancel_prepared(j))
  BY JournalParts, InvalidatePrepared
     DEF ReleaseKeeps, ReadKeeps, cancel_prepared

(* A read after a release keeps what the release kept. *)
LEMMA ReleaseThenRead ==
  ASSUME NEW j, JournalInv(j), NEW k, NEW n, ReleaseKeeps(j, k), ReadKeeps(k, n)
  PROVE  ReleaseKeeps(j, n)
  BY DEF ReleaseKeeps, ReadKeeps

(* Handing out a token wraps inside 64 bits and remembers the end of the
   range it stands for. *)
LEMMA TakeToken ==
  ASSUME NEW s \in Session, NEW end \in Sequence
  PROVE  LET t == take_token(s, end)
         IN  /\ t \in Session /\ t.boot_epoch = s.boot_epoch
             /\ t.prepared_end = end
<1>1. (s.next_token + 1) % TokenModulus \in 0..(TokenModulus - 1)
  <2>1. s.next_token + 1 \in Int /\ TokenModulus \in Nat \ {0}
    BY SessionAssumption DEF Session
  <2> QED BY <2>1, ModRange
<1> QED BY <1>1 DEF take_token, Session

(* prepare_pull, for every command in every state of the session: the
   journal it leaves is consistent, keeps everything the release it
   carries may not drop, and a token is handed out only for a range inside
   the journal. *)
LEMMA PreparePullKeeps ==
  ASSUME NEW j, JournalInv(j), NEW s \in Session, NEW command \in PullCommand
  PROVE  LET r == prepare_pull(j, s, command)
         IN  /\ ReleaseKeeps(j, r.journal)
             /\ r.session \in Session
             /\ r.session.boot_epoch = s.boot_epoch
<1> DEFINE freed == release_before(j, command.release_before)
           requested == IF command.max_samples < MaxChunkSamples
                        THEN command.max_samples ELSE MaxChunkSamples
           read == prepare_read(freed.journal, command.from, requested)
           verdict == view_decision(read.journal, read.view)
           cancelled == cancel_prepared(read.journal)
           taken == take_token(s, read.view.end_sequence)
           r == prepare_pull(j, s, command)
<1>0. /\ command.from \in Nat /\ command.release_before \in Nat
      /\ command.max_samples \in Nat /\ MaxChunkSamples \in Nat
  BY SessionAssumption DEF PullCommand
<1>1. /\ r.journal \in {j, freed.journal, read.journal, cancelled}
      /\ \/ r.session = s
         \/ r.session = taken /\ verdict \in Settleable
  BY DEF prepare_pull
<1>2. requested \in Nat BY <1>0
<1> HIDE DEF freed, requested, read, verdict, cancelled, taken, r
<1>3. ReleaseKeeps(j, freed.journal) BY <1>0, ReleaseBeforeKeeps DEF freed
<1>4. /\ ReadKeeps(freed.journal, read.journal)
      /\ read.view.status \in {"Gap", "ContinuityBreak", "Samples"} =>
           read.view.end_sequence \in
             (command.from + 1)..freed.journal.produced
  <2>1. JournalInv(freed.journal) BY <1>3 DEF ReleaseKeeps
  <2> QED BY <1>0, <1>2, <2>1, PrepareReadKeeps DEF read
<1>5. ReleaseKeeps(j, read.journal) BY <1>3, <1>4, ReleaseThenRead
<1>6. ReleaseKeeps(j, cancelled)
  <2>1. JournalInv(read.journal) BY <1>5 DEF ReleaseKeeps
  <2>2. ReadKeeps(read.journal, cancelled) BY <2>1, ReleaseKeepsSelf DEF cancelled
  <2> QED BY <1>5, <2>2, ReleaseThenRead
<1>7. ReleaseKeeps(j, r.journal) BY <1>1, <1>3, <1>5, <1>6, ReleaseKeepsSelf
<1>8. ASSUME verdict \in Settleable PROVE read.view.end_sequence \in Sequence
  <2>1. read.view.status \in {"Gap", "ContinuityBreak", "Samples"}
    BY <1>8 DEF verdict, view_decision, Settleable
  <2>2. /\ freed.journal.produced \in Nat
        /\ freed.journal.produced <= MaxSequence /\ MaxSequence \in Nat
    BY <1>3, JournalParts, CapacityAssumption DEF ReleaseKeeps
  <2> QED BY <1>0, <1>4, <2>1, <2>2 DEF Sequence
<1>9. r.session \in Session /\ r.session.boot_epoch = s.boot_epoch
  <2>1. CASE r.session = s BY <2>1
  <2>2. CASE r.session = taken /\ verdict \in Settleable
    BY <2>2, <1>8, TakeToken DEF taken
  <2> QED BY <1>1, <2>1, <2>2
<1> QED BY <1>7, <1>9 DEF r

(* Giving up the token leaves a session that holds none. *)
LEMMA ClearPrepared ==
  ASSUME NEW s \in Session
  PROVE  LET t == clear_prepared_state(s)
         IN  /\ t \in Session /\ t.boot_epoch = s.boot_epoch
             /\ t.prepared_token = 0
<1>1. 0 \in 0..(TokenModulus - 1) /\ 0 \in Sequence
  BY SessionAssumption, CapacityAssumption DEF Sequence
<1> QED BY <1>1 DEF clear_prepared_state, Session

(* complete: the delivered cursor moves only to the end of the range the
   token stands for, and only while the session gives the token up. *)
LEMMA CompleteKeeps ==
  ASSUME NEW j, JournalInv(j), NEW s \in Session, NEW token
  PROVE  LET r == complete(j, s, token)
         IN  /\ JournalInv(r.journal)
             /\ r.session \in Session /\ r.session.boot_epoch = s.boot_epoch
             /\ r.journal.retained_from = j.retained_from
             /\ r.journal.produced = j.produced
             /\ r.journal.released = j.released
             /\ r.journal.discarded_sequences = j.discarded_sequences
             /\ j.delivered <= r.journal.delivered
             /\ r.journal.delivered # j.delivered =>
                  /\ s.prepared_token # 0 /\ r.session.prepared_token = 0
                  /\ r.journal.delivered = s.prepared_end
<1> DEFINE marked == mark_delivered(j, s.prepared_end)
           cleared == clear_prepared_state(s)
           r == complete(j, s, token)
<1>1. \/ r.journal = j /\ r.session = s
      \/ /\ s.prepared_token # 0
         /\ r.journal = marked.journal /\ r.session = cleared
  BY DEF complete
<1> HIDE DEF marked, cleared, r
<1>2. /\ JournalInv(marked.journal)
      /\ marked.journal.retained_from = j.retained_from
      /\ marked.journal.produced = j.produced
      /\ marked.journal.released = j.released
      /\ marked.journal.discarded_sequences = j.discarded_sequences
      /\ j.delivered <= marked.journal.delivered
      /\ marked.journal.delivered \in {j.delivered, s.prepared_end}
  BY MarkDeliveredKeeps DEF marked
<1>3. /\ cleared \in Session /\ cleared.boot_epoch = s.boot_epoch
      /\ cleared.prepared_token = 0
  BY ClearPrepared DEF cleared
<1>4. j.delivered <= j.delivered BY JournalParts
<1> QED BY <1>1, <1>2, <1>3, <1>4 DEF r

(* abort gives up the token and the prepared range, and nothing else. *)
LEMMA AbortKeeps ==
  ASSUME NEW j, JournalInv(j), NEW s \in Session, NEW token
  PROVE  LET r == abort(j, s, token)
         IN  /\ ReadKeeps(j, r.journal)
             /\ r.session \in Session /\ r.session.boot_epoch = s.boot_epoch
<1> DEFINE cleared == clear_prepared_state(s)
           r == abort(j, s, token)
<1>1. \/ r.journal = j /\ r.session = s
      \/ r.journal = cancel_prepared(j) /\ r.session = cleared
  BY DEF abort
<1> HIDE DEF cleared, r
<1>2. ReadKeeps(j, j) /\ ReadKeeps(j, cancel_prepared(j))
  BY ReleaseKeepsSelf DEF ReadKeeps
<1>3. cleared \in Session /\ cleared.boot_epoch = s.boot_epoch
  BY ClearPrepared DEF cleared
<1> QED BY <1>1, <1>2, <1>3 DEF r

(* release, for every command in every state of the session. *)
LEMMA ReleaseCommandKeeps ==
  ASSUME NEW j, JournalInv(j), NEW s, NEW command,
         command.release_before \in Nat
  PROVE  ReleaseKeeps(j, release(j, s, command).journal)
<1> DEFINE freed == release_before(j, command.release_before)
<1>1. release(j, s, command).journal \in {j, freed.journal} BY DEF release
<1>2. ReleaseKeeps(j, freed.journal) BY ReleaseBeforeKeeps
<1> QED BY <1>1, <1>2, ReleaseKeepsSelf
------------------------
(* What the journal shows at a sequence, although the ring stores none,
   and that no operation changes what a retained sequence shows: the
   arithmetic of sample_physical_index and samples_between survives
   appends, discards and the wrap of the ring, for every capacity. *)

(* Position q lies in a gap, or is a break, recorded with this reason. *)
GapAt(j, q, why) ==
  \E i \in DOMAIN j.gaps : /\ j.gaps[i].first_missing <= q
                           /\ q < gap_end(j.gaps[i])
                           /\ j.gaps[i].reason = why

BreakAt(j, q, why) ==
  \E i \in DOMAIN j.continuity : /\ j.continuity[i].at_sequence = q
                                 /\ j.continuity[i].reason = why

(* The slot the code reads for position q, and what it holds. *)
SlotOf(j, q) == sample_physical_index(j, samples_between(j, j.retained_from, q))
StoredSample(j, q) == j.samples[SlotOf(j, q)]

(* Both journals show the same at q. *)
SameAt(j, k, q) ==
  /\ \A why : GapAt(k, q, why) <=> GapAt(j, q, why)
  /\ \A why : BreakAt(k, q, why) <=> BreakAt(j, q, why)
  /\ SampleAt(j, q) => StoredSample(k, q) = StoredSample(j, q)

(* k shows what j showed at every position both retain. *)
ContentKept(j, k) ==
  \A q \in k.retained_from..(j.produced - 1) : SameAt(j, k, q)

------------------------
(* Arithmetic of the ring index. *)

(* A number is told apart by its quotient and remainder. *)
LEMMA Remainder ==
  ASSUME NEW n \in Nat \ {0}, NEW q \in Int, NEW r \in 0..(n - 1)
  PROVE  (n * q + r) % n = r
  BY SMTT(30)

(* Integer division by a positive number, with its remainder. *)
LEMMA Division ==
  ASSUME NEW n \in Nat \ {0}, NEW a \in Int
  PROVE  /\ (a % n) \in 0..(n - 1)
         /\ \E q \in Int : a = n * q + (a % n)
<1>1. /\ (a % n) \in 0..(n - 1)
      /\ a \div n \in Int
      /\ a = n * (a \div n) + (a % n)
  BY SMTT(30)
<1> QED BY <1>1

(* A multiple of the modulus makes no difference. *)
LEMMA ModShift ==
  ASSUME NEW n \in Nat \ {0}, NEW p \in Int, NEW b \in Int
  PROVE  ((n * p + b) % n) = (b % n)
<1>1. PICK q \in Int, r \in 0..(n - 1) : b = n * q + r BY Division
<1>2. (b % n) = r BY <1>1, Remainder
<1>3. n * p + b = n * (p + q) + r
  <2>1. n * (p + q) = n * p + n * q OBVIOUS
  <2>2. n * p \in Int /\ n * q \in Int OBVIOUS
  <2> QED BY <1>1, <2>1, <2>2
<1>4. p + q \in Int OBVIOUS
<1> QED BY <1>2, <1>3, <1>4, Remainder

(* Adding inside or outside the reduction makes no difference. *)
LEMMA ModAdd ==
  ASSUME NEW a \in Int, NEW b \in Int, NEW n \in Nat \ {0}
  PROVE  (((a % n) + b) % n) = ((a + b) % n)
<1>1. PICK p \in Int : a = n * p + (a % n) BY Division
<1>2. (a % n) \in Int /\ (a % n) + b \in Int /\ n * p \in Int BY Division
<1>3. PICK x \in Int : x = (a % n) + b BY <1>2
<1>4. a + b = n * p + x BY <1>1, <1>2, <1>3
<1>5. ((n * p + x) % n) = (x % n) BY ModShift
<1> QED BY <1>3, <1>4, <1>5

(* Two numbers less than a capacity apart have different remainders. *)
LEMMA ModDiffer ==
  ASSUME NEW n \in Nat \ {0}, NEW a \in Int, NEW b \in Int, a < b, b - a < n
  PROVE  (a % n) # (b % n)
<1>1. PICK p \in Int : a = n * p + (a % n) BY Division
<1>2. PICK q \in Int : b = n * q + (b % n) BY Division
<1>3. (a % n) \in Int /\ (b % n) \in Int BY Division
<1>4. SUFFICES ASSUME (a % n) = (b % n) PROVE FALSE OBVIOUS
<1>5. b - a = n * (q - p)
  <2>1. n * (q - p) = n * q - n * p OBVIOUS
  <2> QED BY <1>1, <1>2, <1>3, <1>4, <2>1
<1>6. CASE q - p >= 1
  <2>1. n * (q - p) >= n BY <1>6, SMTT(30)
  <2> QED BY <1>5, <2>1
<1>7. CASE q - p <= 0
  <2>1. n * (q - p) <= 0 BY <1>7, SMTT(30)
  <2> QED BY <1>5, <2>1
<1> QED BY <1>6, <1>7

------------------------
(* Comparing what two journals show. *)

(* A position shows a sample exactly when it shows no gap and no break. *)
LEMMA SampleAtOtherwise ==
  ASSUME NEW j, NEW q
  PROVE  SampleAt(j, q) <=> /\ \A why : ~GapAt(j, q, why)
                            /\ \A why : ~BreakAt(j, q, why)
  BY DEF SampleAt, GapAt, BreakAt

(* Where two journals show the same, both or neither show a sample. *)
LEMMA SameSamples ==
  ASSUME NEW j, NEW k, NEW q, SameAt(j, k, q)
  PROVE  SampleAt(k, q) <=> SampleAt(j, q)
  BY SampleAtOtherwise DEF SameAt

(* Showing the same composes. *)
LEMMA SameCompose ==
  ASSUME NEW j, NEW k, NEW n, NEW q, SameAt(j, k, q), SameAt(k, n, q)
  PROVE  SameAt(j, n, q)
<1>1. SampleAt(k, q) <=> SampleAt(j, q) BY SameSamples
<1> QED BY <1>1 DEF SameAt

(* Journals with the same ring, ledgers and retention show the same. *)
LEMMA SameFields ==
  ASSUME NEW j, NEW k, k.samples = j.samples, k.sample_head = j.sample_head,
         k.gaps = j.gaps, k.continuity = j.continuity,
         k.retained_from = j.retained_from
  PROVE  \A q : SameAt(j, k, q)
<1> SUFFICES ASSUME NEW q PROVE SameAt(j, k, q) OBVIOUS
<1>1. samples_between(k, k.retained_from, q) = samples_between(j, j.retained_from, q)
  BY SamplesLedgers
<1>2. StoredSample(k, q) = StoredSample(j, q)
  BY <1>1 DEF StoredSample, SlotOf, sample_physical_index
<1> QED BY <1>2 DEF SameAt, GapAt, BreakAt

(* A later journal that keeps what an earlier one showed, composed. *)
LEMMA ContentCompose ==
  ASSUME NEW j, NEW k, NEW n, ContentKept(j, k), ContentKept(k, n),
         j.produced \in Nat, k.produced \in Nat, k.retained_from \in Nat,
         n.retained_from \in Nat,
         k.retained_from <= n.retained_from, j.produced <= k.produced
  PROVE  ContentKept(j, n)
<1> SUFFICES ASSUME NEW q \in n.retained_from..(j.produced - 1)
             PROVE  SameAt(j, n, q)
  BY DEF ContentKept
<1>1. /\ q \in k.retained_from..(j.produced - 1)
      /\ q \in n.retained_from..(k.produced - 1)
  OBVIOUS
<1>2. SameAt(j, k, q) /\ SameAt(k, n, q) BY <1>1 DEF ContentKept
<1> QED BY <1>2, SameCompose

------------------------
(* The ring. *)

(* A retained sample lies before the end of the ring's contents. *)
LEMMA OffsetInRing ==
  ASSUME NEW j, JournalInv(j), NEW q \in j.retained_from..(j.produced - 1),
         SampleAt(j, q)
  PROVE  /\ samples_between(j, j.retained_from, q) \in 0..(j.sample_size - 1)
         /\ q \in Nat
<1>1. /\ Ledgers(j) /\ j.retained_from \in Nat /\ j.produced \in Nat
      /\ j.sample_size = samples_between(j, j.retained_from, j.produced)
  BY JournalParts DEF JournalInv, RingExact
<1>2. /\ q \in Nat /\ q + 1 \in Nat /\ j.retained_from <= q /\ q <= q + 1
      /\ q + 1 <= j.produced /\ j.retained_from <= q + 1
  BY <1>1
<1>3. samples_between(j, q, q + 1) = 1 BY <1>1, <1>2, SamplesOne
<1>4. /\ samples_between(j, j.retained_from, q + 1) =
           samples_between(j, j.retained_from, q) + samples_between(j, q, q + 1)
      /\ samples_between(j, j.retained_from, q) \in Nat
  <2>1. /\ Ledgers(j) /\ j.retained_from \in Nat /\ q \in Nat /\ q + 1 \in Nat
        /\ j.retained_from <= q /\ q <= q + 1
    BY <1>1, <1>2
  <2> QED BY <2>1, SamplesSplit
<1>5. /\ samples_between(j, j.retained_from, j.produced) =
           samples_between(j, j.retained_from, q + 1)
             + samples_between(j, q + 1, j.produced)
      /\ samples_between(j, q + 1, j.produced) \in Nat
      /\ samples_between(j, j.retained_from, q + 1) \in Nat
  <2>1. /\ Ledgers(j) /\ j.retained_from \in Nat /\ q + 1 \in Nat
        /\ j.produced \in Nat
        /\ j.retained_from <= q + 1 /\ q + 1 <= j.produced
    BY <1>1, <1>2
  <2> QED BY <2>1, SamplesSplit
<1> QED BY <1>1, <1>2, <1>3, <1>4, <1>5

------------------------
(* Discarding. *)

(* The rest of a gap ledger shows the same gaps from the cursor on. *)
LEMMA RestGaps ==
  ASSUME NEW j, NEW k, j.gaps \in Seq(GapRecord), k.gaps \in Seq(GapRecord),
         NEW cursor \in Nat, GapsRest(j.gaps, k.gaps, cursor),
         NEW q \in Nat, cursor <= q, NEW why
  PROVE  GapAt(k, q, why) <=> GapAt(j, q, why)
<1>1. ASSUME GapAt(k, q, why) PROVE GapAt(j, q, why)
  <2>1. PICK i \in DOMAIN k.gaps : /\ k.gaps[i].first_missing <= q
                                   /\ q < gap_end(k.gaps[i])
                                   /\ k.gaps[i].reason = why
    BY <1>1 DEF GapAt
  <2>2. PICK m \in DOMAIN j.gaps :
          /\ j.gaps[m].first_missing <= k.gaps[i].first_missing
          /\ gap_end(k.gaps[i]) = gap_end(j.gaps[m])
          /\ k.gaps[i].reason = j.gaps[m].reason
    BY DEF GapsRest
  <2>3. k.gaps[i].first_missing \in Nat /\ j.gaps[m].first_missing \in Nat BY GapFields
  <2> QED BY <2>1, <2>2, <2>3 DEF GapAt
<1>2. ASSUME GapAt(j, q, why) PROVE GapAt(k, q, why)
  <2>1. PICK m \in DOMAIN j.gaps : /\ j.gaps[m].first_missing <= q
                                   /\ q < gap_end(j.gaps[m])
                                   /\ j.gaps[m].reason = why
    BY <1>2 DEF GapAt
  <2>2. gap_end(j.gaps[m]) > cursor
    <3>1. gap_end(j.gaps[m]) \in Nat BY GapFields
    <3> QED BY <2>1, <3>1
  <2>3. PICK i \in DOMAIN k.gaps :
          /\ gap_end(k.gaps[i]) = gap_end(j.gaps[m])
          /\ k.gaps[i].reason = j.gaps[m].reason
          /\ \/ k.gaps[i].first_missing = j.gaps[m].first_missing
             \/ k.gaps[i].first_missing <= cursor
    BY <2>2 DEF GapsRest
  <2>4. k.gaps[i].first_missing \in Nat BY GapFields
  <2> QED BY <2>1, <2>3, <2>4 DEF GapAt
<1> QED BY <1>1, <1>2

(* The rest of a continuity ledger shows the same breaks. *)
LEMMA RestBreaks ==
  ASSUME NEW j, NEW k, NEW cursor \in Nat,
         BreaksRest(j.continuity, k.continuity, cursor),
         NEW q \in Nat, cursor <= q, NEW why
  PROVE  BreakAt(k, q, why) <=> BreakAt(j, q, why)
<1>1. ASSUME BreakAt(k, q, why) PROVE BreakAt(j, q, why) BY <1>1 DEF BreakAt, BreaksRest
<1>2. ASSUME BreakAt(j, q, why) PROVE BreakAt(k, q, why)
  <2>1. PICK m \in DOMAIN j.continuity : /\ j.continuity[m].at_sequence = q
                                         /\ j.continuity[m].reason = why
    BY <1>2 DEF BreakAt
  <2>2. PICK i \in DOMAIN k.continuity : k.continuity[i] = j.continuity[m]
    BY <2>1 DEF BreaksRest
  <2> QED BY <2>1, <2>2 DEF BreakAt
<1> QED BY <1>1, <1>2

(* The counters of a collapse: every sequence the journal stops retaining,
   and each of its samples, is counted once. *)
LossCounted(j, k) ==
  /\ k.discarded_sequences =
       j.discarded_sequences + (k.retained_from - j.retained_from)
  /\ k.discarded_samples =
       j.discarded_samples + samples_between(j, j.retained_from, k.retained_from)

CountersKept(j, k) ==
  /\ k.discarded_sequences = j.discarded_sequences
  /\ k.discarded_samples = j.discarded_samples

(* A retention cut keeps what the retained sequences show: the head moves
   by as many slots as samples went.  It counts the loss when it is one. *)
LEMMA DiscardContent ==
  ASSUME NEW j, JournalInv(j), ~j.prepared_valid, NEW cursor \in Nat,
         NEW is_loss \in BOOLEAN,
         j.retained_from <= cursor, cursor <= j.produced
  PROVE  LET k == discard_retention_before(j, cursor, is_loss).journal
         IN  /\ ContentKept(j, k)
             /\ is_loss => LossCounted(j, k)
             /\ ~is_loss => CountersKept(j, k)
<1> DEFINE remove == samples_between(j, j.retained_from, cursor)
           r == discard_retention_before(j, cursor, is_loss)
           k == r.journal
<1> HIDE DEF remove, r
<1>1. /\ j \in Journal /\ Ledgers(j)
      /\ GapsWithin(j.gaps, j.retained_from, j.produced)
      /\ BreaksWithin(j.continuity, j.retained_from, j.produced)
      /\ j.retained_from \in Nat /\ j.produced \in Nat
      /\ j.sample_head \in Nat
      /\ j.sample_size = samples_between(j, j.retained_from, j.produced)
  BY JournalParts DEF JournalInv, RingExact
<1>2. /\ j.sample_size = remove + samples_between(j, cursor, j.produced)
      /\ remove \in Nat /\ samples_between(j, cursor, j.produced) \in Nat
  <2>1. /\ Ledgers(j) /\ j.retained_from \in Nat /\ j.produced \in Nat BY <1>1
  <2>2. /\ samples_between(j, j.retained_from, j.produced) =
             samples_between(j, j.retained_from, cursor)
               + samples_between(j, cursor, j.produced)
        /\ samples_between(j, j.retained_from, cursor) \in Nat
        /\ samples_between(j, cursor, j.produced) \in Nat
    BY <2>1, SamplesSplit
  <2>3. j.sample_size = samples_between(j, j.retained_from, j.produced) BY <1>1
  <2> QED BY <2>2, <2>3 DEF remove
<1>3. /\ JournalInv(k) /\ k.retained_from = cursor
      /\ k.gaps = gap_discard_before(j.gaps, cursor)
      /\ k.continuity = break_discard_before(j.continuity, cursor)
  <2>1. /\ JournalInv(r.journal) /\ r.journal.retained_from = cursor
        /\ r.journal.gaps = gap_discard_before(j.gaps, cursor)
        /\ r.journal.continuity = break_discard_before(j.continuity, cursor)
    BY DiscardRetention DEF r
  <2> QED BY <2>1
<1>4. /\ k.samples = j.samples
      /\ k.sample_head = (j.sample_head + remove) % SampleCapacity
      /\ is_loss =>
           /\ k.discarded_sequences =
                j.discarded_sequences + (cursor - j.retained_from)
           /\ k.discarded_samples = j.discarded_samples + remove
      /\ ~is_loss => CountersKept(j, k)
  <2>1. ~(cursor < j.retained_from \/ cursor > j.produced
          \/ remove > j.sample_size)
    BY <1>1, <1>2
  <2> QED BY <1>1, <2>1 DEF discard_retention_before, remove, r, Journal,
                              CountersKept
<1> HIDE DEF k
<1>5. GapsRest(j.gaps, k.gaps, cursor) /\ k.gaps \in Seq(GapRecord)
      /\ j.gaps \in Seq(GapRecord)
  <2>1. /\ j.gaps \in Seq(GapRecord)
        /\ j.retained_from \in Nat /\ j.produced \in Nat
        /\ GapsWithin(j.gaps, j.retained_from, j.produced)
    BY <1>1 DEF Ledgers
  <2> QED BY <2>1, <1>3, GapDiscard
<1>6. BreaksRest(j.continuity, k.continuity, cursor)
  <2>1. /\ j.continuity \in Seq(ContinuityBreakRecord)
        /\ j.retained_from \in Nat /\ j.produced \in Nat
        /\ BreaksWithin(j.continuity, j.retained_from, j.produced)
    BY <1>1 DEF Ledgers
  <2> QED BY <2>1, <1>3, BreakDiscard
<1>7. ASSUME NEW q \in Nat, cursor <= q
      PROVE  /\ \A why : GapAt(k, q, why) <=> GapAt(j, q, why)
             /\ \A why : BreakAt(k, q, why) <=> BreakAt(j, q, why)
             /\ SampleAt(k, q) <=> SampleAt(j, q)
  <2>1. \A why : GapAt(k, q, why) <=> GapAt(j, q, why) BY <1>5, <1>7, RestGaps
  <2>2. \A why : BreakAt(k, q, why) <=> BreakAt(j, q, why) BY <1>6, <1>7, RestBreaks
  <2> QED BY <2>1, <2>2, SampleAtOtherwise
<1>8. ASSUME NEW q \in cursor..(j.produced - 1) PROVE SameAt(j, k, q)
  <2>1. q \in Nat /\ cursor <= q /\ j.retained_from <= q BY <1>1
  <2>2. samples_between(k, cursor, q) = samples_between(j, cursor, q)
    <3>1. Ledgers(k) BY <1>3, JournalParts
    <3>2. \A p \in cursor..(q - 1) : SampleAt(j, p) <=> SampleAt(k, p) BY <2>1, <1>7
    <3> QED BY <1>1, <2>1, <3>1, <3>2, SamplesAgree
  <2>3. /\ samples_between(j, j.retained_from, q) =
             remove + samples_between(j, cursor, q)
        /\ samples_between(j, cursor, q) \in Nat
    <3>1. Ledgers(j) /\ j.retained_from \in Nat BY <1>1
    <3> QED BY <2>1, <3>1, SamplesSplit DEF remove
  <2>4. SlotOf(k, q) = SlotOf(j, q)
    <3>1. SampleCapacity \in Nat \ {0} BY CapacityAssumption
    <3>2. PICK n \in Int : n = samples_between(j, cursor, q) BY <2>3
    <3>3. PICK a \in Int : a = j.sample_head + remove BY <1>1, <1>2
    <3>4. (((a % SampleCapacity) + n) % SampleCapacity)
            = ((a + n) % SampleCapacity)
      BY <3>1, ModAdd
    <3>5. SlotOf(k, q) = (((a % SampleCapacity) + n) % SampleCapacity)
      BY <1>3, <1>4, <2>2, <3>2, <3>3 DEF SlotOf, sample_physical_index
    <3>6. SlotOf(j, q) = ((j.sample_head + (remove + n)) % SampleCapacity)
      BY <2>3, <3>2 DEF SlotOf, sample_physical_index
    <3>7. j.sample_head + (remove + n) = a + n BY <1>1, <1>2, <3>3
    <3> QED BY <3>4, <3>5, <3>6, <3>7
  <2>5. StoredSample(k, q) = StoredSample(j, q) BY <1>4, <2>4 DEF StoredSample
  <2> QED BY <1>7, <2>1, <2>5 DEF SameAt
<1>9. ContentKept(j, k) BY <1>3, <1>8 DEF ContentKept
<1> QED BY <1>3, <1>4, <1>9 DEF LossCounted, k, r, remove

------------------------
(* Appending. *)

(* The stored sample is shown at its sequence, and takes the slot of no
   retained one although the ring may have wrapped. *)
LEMMA PushContent ==
  ASSUME NEW j, JournalInv(j), ~j.prepared_valid, NEW sample \in SampleRecords,
         j.sample_size < SampleCapacity, j.produced < MaxSequence
  PROVE  LET k == push_sample(j, sample)
         IN  /\ ContentKept(j, k) /\ CountersKept(j, k)
             /\ SampleAt(k, j.produced) /\ StoredSample(k, j.produced) = sample
<1> DEFINE k == push_sample(j, sample)
           index == sample_physical_index(j, j.sample_size)
<1> HIDE DEF k, index
<1>1. /\ j \in Journal /\ Ledgers(j)
      /\ j.produced \in Nat /\ j.retained_from \in Nat /\ j.sample_size \in Nat
      /\ j.sample_head \in Nat /\ j.retained_from <= j.produced
      /\ SampleCapacity \in Nat \ {0}
      /\ j.sample_size = samples_between(j, j.retained_from, j.produced)
  BY JournalParts, CapacityAssumption DEF JournalInv, RingExact
<1>2. /\ k.samples = [j.samples EXCEPT ![index] = sample]
      /\ k.gaps = j.gaps /\ k.continuity = j.continuity
      /\ k.sample_head = j.sample_head /\ k.retained_from = j.retained_from
      /\ CountersKept(j, k)
  BY <1>1 DEF k, push_sample, index, Journal, CountersKept
<1>3. /\ index \in 0..(SampleCapacity - 1)
      /\ DOMAIN j.samples = 0..(SampleCapacity - 1)
      /\ index = ((j.sample_head + j.sample_size) % SampleCapacity)
  <2>1. j.sample_head + j.sample_size \in Int BY <1>1
  <2> QED BY <1>1, <2>1, ModRange DEF index, sample_physical_index, Journal
<1>4. \A q : SlotOf(k, q) = SlotOf(j, q)
  <2>1. \A q : samples_between(k, k.retained_from, q)
                 = samples_between(j, j.retained_from, q)
    BY <1>2, SamplesLedgers
  <2> QED BY <1>2, <2>1 DEF SlotOf, sample_physical_index
<1>5. ASSUME NEW q \in k.retained_from..(j.produced - 1), SampleAt(j, q)
      PROVE  StoredSample(k, q) = StoredSample(j, q)
  <2>1. PICK offset \in Int :
          /\ offset = samples_between(j, j.retained_from, q)
          /\ offset \in 0..(j.sample_size - 1)
    <3>1. samples_between(j, j.retained_from, q) \in 0..(j.sample_size - 1)
      BY <1>2, <1>5, OffsetInRing
    <3> QED BY <1>1, <3>1
  <2>2. ((j.sample_head + offset) % SampleCapacity) # index
    <3>1. /\ j.sample_head + offset \in Int
          /\ j.sample_head + j.sample_size \in Int
          /\ j.sample_head + offset < j.sample_head + j.sample_size
          /\ (j.sample_head + j.sample_size) - (j.sample_head + offset)
               < SampleCapacity
      BY <1>1, <2>1
    <3> QED BY <1>1, <1>3, <3>1, ModDiffer
  <2>3. SlotOf(j, q) = ((j.sample_head + offset) % SampleCapacity)
    BY <2>1 DEF SlotOf, sample_physical_index
  <2>4. SlotOf(j, q) \in 0..(SampleCapacity - 1)
    <3>1. j.sample_head + offset \in Int BY <1>1, <2>1
    <3> QED BY <1>1, <2>3, <3>1, ModRange
  <2> QED BY <1>2, <1>3, <1>4, <2>2, <2>3, <2>4 DEF StoredSample
<1>6. ContentKept(j, k) BY <1>2, <1>5 DEF ContentKept, SameAt, GapAt, BreakAt
<1>7. SampleAt(k, j.produced) BY <1>2, NothingAtProduced DEF SampleAt
<1>8. StoredSample(k, j.produced) = sample
  <2>1. SlotOf(k, j.produced) = index
    BY <1>1, <1>3, <1>4 DEF SlotOf, sample_physical_index
  <2> QED BY <1>2, <1>3, <2>1 DEF StoredSample
<1> QED BY <1>2, <1>6, <1>7, <1>8 DEF k

(* GapLedger::append shows the new range with its reason, whether it is
   stored or joined to the last record. *)
GapIn(gaps, q, why) ==
  \E i \in DOMAIN gaps : /\ gaps[i].first_missing <= q
                         /\ q < gap_end(gaps[i])
                         /\ gaps[i].reason = why

(* The new range is shown, and with its own reason. *)
LEMMA GapAppendShows ==
  ASSUME NEW gaps \in Seq(GapRecord), NEW low \in Nat, NEW high \in Nat,
         low <= high, GapsWithin(gaps, low, high),
         NEW g \in GapRecord, gap_valid(g), g.first_missing = high,
         gap_append(gaps, g).status # "Full", NEW q \in Int, NEW why
  PROVE  GapIn(gap_append(gaps, g).gaps, q, why) <=>
           \/ GapIn(gaps, q, why)
           \/ high <= q /\ q < gap_end(g) /\ g.reason = why
<1> DEFINE n == Len(gaps)
           last == gaps[n]
           merged == [last EXCEPT !.missing_count = @ + g.missing_count]
           adjacent == /\ gaps # <<>> /\ g.first_missing = gap_end(last)
                       /\ g.reason = last.reason
           after == gap_append(gaps, g).gaps
<1> HIDE DEF n, last, merged, adjacent, after
<1>1. /\ n \in Nat /\ DOMAIN gaps = 1..n /\ Len(gaps) = n
      /\ g.first_missing \in Nat /\ g.missing_count \in Nat
      /\ gap_end(g) = high + g.missing_count
  BY DEF n, GapRecord, gap_end
<1>2. gaps # <<>> => /\ n \in 1..n /\ n \in DOMAIN gaps
                     /\ last \in GapRecord /\ last.first_missing \in Nat
                     /\ last.missing_count \in Nat
                     /\ gap_end(last) = last.first_missing + last.missing_count
  <2>1. gaps # <<>> => n \in 1..n BY <1>1
  <2> QED BY <1>1, <2>1, GapFields DEF last, gap_end
<1>3. adjacent => after = [gaps EXCEPT ![n] = merged]
  <2>1. /\ gap_append(gaps, g).status \in {"Ok", "Coalesced", "Full"} BY GapAppend
  <2> QED BY <2>1 DEF gap_append, adjacent, after, n, last, merged
<1>4. ~adjacent => after = Append(gaps, g)
  <2>1. /\ gap_append(gaps, g).status \in {"Ok", "Coalesced", "Full"} BY GapAppend
  <2> QED BY <2>1 DEF gap_append, adjacent, after, n, last, merged
<1>5. CASE adjacent
  <2>1. /\ merged.first_missing = last.first_missing
        /\ merged.missing_count = last.missing_count + g.missing_count
        /\ merged.reason = last.reason
    BY <1>2, <1>5 DEF merged, GapRecord, adjacent
  <2>2. gap_end(merged) = gap_end(g) /\ gap_end(last) = high
    BY <1>1, <1>2, <1>5, <2>1 DEF gap_end, adjacent
  <2>3. /\ DOMAIN after = 1..n /\ after[n] = merged
        /\ \A i \in 1..n : i # n => after[i] = gaps[i]
    BY <1>1, <1>2, <1>3, <1>5 DEF adjacent
  <2>4. (merged.first_missing <= q /\ q < gap_end(merged)
          /\ merged.reason = why) <=>
          \/ last.first_missing <= q /\ q < gap_end(last) /\ last.reason = why
          \/ high <= q /\ q < gap_end(g) /\ g.reason = why
    <3>1. /\ last.first_missing \in Nat /\ last.first_missing <= high
          /\ high <= gap_end(g) /\ gap_end(g) \in Nat
      BY <1>1, <1>2, <1>5, <2>2 DEF adjacent
    <3>2. g.reason = last.reason BY <1>5 DEF adjacent
    <3> QED BY <2>1, <2>2, <3>1, <3>2
  <2>5. n \in 1..n BY <1>2, <1>5 DEF adjacent
  <2> QED BY <1>1, <2>3, <2>4, <2>5 DEF GapIn, last, after
<1>6. CASE ~adjacent
  <2>1. /\ DOMAIN after = 1..(n + 1) /\ after[n + 1] = g
        /\ \A i \in 1..n : after[i] = gaps[i]
    BY <1>1, <1>4, <1>6
  <2>2. \A i \in 1..(n + 1) : i = n + 1 \/ i \in 1..n BY <1>1
  <2>3. n + 1 \in 1..(n + 1) /\ \A i \in 1..n : i \in 1..(n + 1) BY <1>1
  <2> QED BY <1>1, <2>1, <2>2, <2>3 DEF GapIn, after
<1> QED BY <1>5, <1>6

(* Position q lies in a gap with this reason and nothing else is there; or
   a break; or this sample. *)
ShowsGap(k, q, why) ==
  /\ \A w : GapAt(k, q, w) <=> w = why
  /\ \A w : ~BreakAt(k, q, w)

ShowsBreak(k, q, why) ==
  /\ \A w : BreakAt(k, q, w) <=> w = why
  /\ \A w : ~GapAt(k, q, w)

ShowsSample(k, q, sample) == SampleAt(k, q) /\ StoredSample(k, q) = sample

(* A journal extended by positions without samples keeps what it showed. *)
LEMMA ExtendContent ==
  ASSUME NEW j, JournalInv(j), NEW k, JournalInv(k),
         k.samples = j.samples, k.sample_head = j.sample_head,
         k.retained_from = j.retained_from,
         \A q \in Int : q < j.produced =>
           /\ \A why : GapAt(k, q, why) <=> GapAt(j, q, why)
           /\ \A why : BreakAt(k, q, why) <=> BreakAt(j, q, why)
  PROVE  ContentKept(j, k)
<1>1. /\ Ledgers(j) /\ Ledgers(k) /\ j.retained_from \in Nat /\ j.produced \in Nat
  BY JournalParts
<1>2. \A q \in Int : q < j.produced => (SampleAt(j, q) <=> SampleAt(k, q))
  BY SampleAtOtherwise
<1>3. SUFFICES ASSUME NEW q \in k.retained_from..(j.produced - 1)
               PROVE  SameAt(j, k, q)
  BY DEF ContentKept
<1>4. q \in Nat /\ j.retained_from <= q /\ q < j.produced BY <1>1
<1>5. samples_between(j, j.retained_from, q) = samples_between(k, j.retained_from, q)
  <2>1. \A p \in j.retained_from..(q - 1) : SampleAt(j, p) <=> SampleAt(k, p)
    BY <1>1, <1>2, <1>4
  <2> QED BY <1>1, <1>4, <2>1, SamplesAgree
<1>6. StoredSample(k, q) = StoredSample(j, q)
  BY <1>5 DEF StoredSample, SlotOf, sample_physical_index
<1> QED BY <1>4, <1>6 DEF SameAt

(* append_gap: the new range shows the gap with its reason. *)
LEMMA SettleGapContent ==
  ASSUME NEW j, JournalInv(j), ~j.prepared_valid, NEW g \in GapRecord,
         NEW k, GapSettled(j, g, k)
  PROVE  /\ ContentKept(j, k) /\ CountersKept(j, k)
         /\ \A q \in j.produced..(k.produced - 1) : ShowsGap(k, q, g.reason)
<1>1. /\ j \in Journal /\ j.gaps \in Seq(GapRecord)
      /\ j.continuity \in Seq(ContinuityBreakRecord)
      /\ GapsWithin(j.gaps, j.retained_from, j.produced)
      /\ BreaksWithin(j.continuity, j.retained_from, j.produced)
      /\ j.retained_from \in Nat /\ j.produced \in Nat
      /\ j.retained_from <= j.produced
  BY JournalParts DEF JournalInv, Ledgers
<1>2. /\ gap_valid(g) /\ g.first_missing = j.produced
      /\ gap_append(j.gaps, g).status # "Full"
      /\ k = [j EXCEPT !.gaps = gap_append(j.gaps, g).gaps,
                       !.produced = gap_end(g)]
  BY DEF GapSettled
<1>3. JournalInv(k) /\ k.produced = gap_end(g) BY <1>2, SettleGap
<1>4. /\ k.samples = j.samples /\ k.sample_head = j.sample_head
      /\ k.retained_from = j.retained_from /\ CountersKept(j, k)
      /\ k.continuity = j.continuity
      /\ k.gaps = gap_append(j.gaps, g).gaps
  BY <1>1, <1>2 DEF Journal, CountersKept
<1>5. \A q \in Int : \A why :
        GapAt(k, q, why) <=>
          GapAt(j, q, why) \/ (j.produced <= q /\ q < gap_end(g) /\ g.reason = why)
  <2> SUFFICES ASSUME NEW q \in Int, NEW why
               PROVE  GapAt(k, q, why) <=>
                        \/ GapAt(j, q, why)
                        \/ j.produced <= q /\ q < gap_end(g) /\ g.reason = why
    OBVIOUS
  <2>1. GapIn(gap_append(j.gaps, g).gaps, q, why) <=>
          \/ GapIn(j.gaps, q, why)
          \/ j.produced <= q /\ q < gap_end(g) /\ g.reason = why
    BY <1>1, <1>2, GapAppendShows
  <2> QED BY <1>4, <2>1 DEF GapAt, GapIn
<1>6. ContentKept(j, k)
  <2>1. \A q \in Int : q < j.produced =>
           /\ \A why : GapAt(k, q, why) <=> GapAt(j, q, why)
           /\ \A why : BreakAt(k, q, why) <=> BreakAt(j, q, why)
    BY <1>1, <1>4, <1>5 DEF BreakAt
  <2> QED BY <1>3, <1>4, <2>1, ExtendContent
<1>7. ASSUME NEW q \in j.produced..(k.produced - 1)
      PROVE  ShowsGap(k, q, g.reason)
  <2>1. q \in Int /\ j.produced <= q BY <1>1
  <2>2. q < gap_end(g) BY <1>1, <1>3, JournalParts
  <2>3. \A why : ~GapAt(j, q, why)
    <3>1. \A i \in DOMAIN j.gaps : /\ gap_end(j.gaps[i]) \in Nat
                                   /\ gap_end(j.gaps[i]) <= j.produced
      BY <1>1, GapFields DEF GapsWithin
    <3> QED BY <1>1, <2>1, <3>1 DEF GapAt
  <2>4. \A why : ~BreakAt(k, q, why)
    <3>1. \A i \in DOMAIN j.continuity :
            /\ j.continuity[i].at_sequence \in Nat
            /\ j.continuity[i].at_sequence + 1 <= j.produced
      BY <1>1, BreakFields DEF BreaksWithin
    <3> QED BY <1>1, <1>4, <2>1, <3>1 DEF BreakAt
  <2> QED BY <1>5, <2>1, <2>2, <2>3, <2>4 DEF ShowsGap
<1> QED BY <1>4, <1>6, <1>7

(* append_continuity_break: the new position shows the break. *)
LEMMA SettleBreakContent ==
  ASSUME NEW j, JournalInv(j), ~j.prepared_valid, NEW b \in ContinuityBreakRecord,
         NEW k, BreakSettled(j, b, k)
  PROVE  /\ ContentKept(j, k) /\ CountersKept(j, k)
         /\ ShowsBreak(k, j.produced, b.reason)
<1>1. /\ j \in Journal /\ j.gaps \in Seq(GapRecord)
      /\ j.continuity \in Seq(ContinuityBreakRecord)
      /\ GapsWithin(j.gaps, j.retained_from, j.produced)
      /\ BreaksWithin(j.continuity, j.retained_from, j.produced)
      /\ j.retained_from \in Nat /\ j.produced \in Nat
      /\ j.retained_from <= j.produced
  BY JournalParts DEF JournalInv, Ledgers
<1>2. /\ break_valid(b) /\ b.at_sequence = j.produced /\ j.produced < MaxSequence
      /\ break_append(j.continuity, b).status # "Full"
      /\ k = [j EXCEPT !.continuity = break_append(j.continuity, b).breaks,
                       !.produced = break_end(b)]
  BY DEF BreakSettled
<1>3. JournalInv(k) BY <1>2, SettleBreak
<1>4. break_append(j.continuity, b).breaks = Append(j.continuity, b)
  BY <1>1, <1>2, BreakAppend
<1>5. /\ k.samples = j.samples /\ k.sample_head = j.sample_head
      /\ k.retained_from = j.retained_from /\ CountersKept(j, k)
      /\ k.gaps = j.gaps /\ k.continuity = Append(j.continuity, b)
  BY <1>1, <1>2, <1>4 DEF Journal, CountersKept
<1>6. \A q, why : BreakAt(k, q, why) <=>
        BreakAt(j, q, why) \/ (q = j.produced /\ b.reason = why)
  <2> DEFINE n == Len(j.continuity)
  <2>1. /\ n \in Nat /\ DOMAIN j.continuity = 1..n
        /\ DOMAIN k.continuity = 1..(n + 1) /\ k.continuity[n + 1] = b
        /\ \A i \in 1..n : k.continuity[i] = j.continuity[i]
    BY <1>1, <1>5
  <2>2. \A i \in 1..(n + 1) : i = n + 1 \/ i \in 1..n BY <2>1
  <2>3. n + 1 \in 1..(n + 1) /\ \A i \in 1..n : i \in 1..(n + 1) BY <2>1
  <2> HIDE DEF n
  <2> QED BY <1>2, <2>1, <2>2, <2>3 DEF BreakAt
<1>7. ContentKept(j, k)
  <2>1. \A q \in Int : q < j.produced =>
           /\ \A why : GapAt(k, q, why) <=> GapAt(j, q, why)
           /\ \A why : BreakAt(k, q, why) <=> BreakAt(j, q, why)
    BY <1>1, <1>5, <1>6 DEF GapAt
  <2> QED BY <1>3, <1>5, <2>1, ExtendContent
<1>8. ShowsBreak(k, j.produced, b.reason)
  <2>1. \A why : ~GapAt(k, j.produced, why)
    <3>1. \A i \in DOMAIN j.gaps : /\ gap_end(j.gaps[i]) \in Nat
                                   /\ gap_end(j.gaps[i]) <= j.produced
      BY <1>1, GapFields DEF GapsWithin
    <3> QED BY <1>1, <1>5, <3>1 DEF GapAt
  <2>2. \A why : ~BreakAt(j, j.produced, why)
    <3>1. \A i \in DOMAIN j.continuity :
            /\ j.continuity[i].at_sequence \in Nat
            /\ j.continuity[i].at_sequence + 1 <= j.produced
      BY <1>1, BreakFields DEF BreaksWithin
    <3> QED BY <1>1, <3>1 DEF BreakAt
  <2> QED BY <1>6, <2>1, <2>2 DEF ShowsBreak
<1> QED BY <1>5, <1>7, <1>8

(* A collapse keeps the content of what stays, counts what goes, and drops
   the prepared view. *)
LossExact(j, k) ==
  /\ ContentKept(j, k)
  /\ LossCounted(j, k)
  /\ ~k.prepared_valid

(* The journal an append writes to shows what the given one did. *)
LEMMA MadeRoomContent ==
  ASSUME NEW j, JournalInv(j), NEW base, MadeRoom(j, base)
  PROVE  /\ JournalInv(base) /\ base.produced = j.produced
         /\ j.retained_from <= base.retained_from
         /\ base.retained_from <= j.produced
         /\ LossExact(j, base)
<1> DEFINE open == invalidate_prepared_view(j)
<1>1. /\ JournalInv(open) /\ ~open.prepared_valid
      /\ open.gaps = j.gaps /\ open.continuity = j.continuity
      /\ open.samples = j.samples /\ open.sample_head = j.sample_head
      /\ open.retained_from = j.retained_from /\ open.produced = j.produced
  BY InvalidatePrepared
<1>2. CountersKept(j, open)
  BY DEF JournalInv, Journal, invalidate_prepared_view, CountersKept
<1>3. /\ j.retained_from \in Nat /\ j.produced \in Nat
      /\ j.retained_from <= j.produced
      /\ j.discarded_samples \in Nat /\ j.discarded_sequences \in Nat
  BY JournalParts
<1>4. ContentKept(j, open) BY <1>1, SameFields DEF ContentKept
<1> HIDE DEF open
<1>5. CASE base = open
  <2>1. samples_between(j, j.retained_from, j.retained_from) = 0
    BY <1>3 DEF samples_between
  <2> QED BY <1>1, <1>2, <1>3, <1>4, <1>5, <2>1
          DEF LossExact, LossCounted, CountersKept
<1>6. CASE \E cut \in Nat :
             /\ j.retained_from <= cut /\ cut <= j.produced
             /\ base = discard_retention_before(open, cut, TRUE).journal
  <2>1. PICK cut \in Nat :
             /\ j.retained_from <= cut /\ cut <= j.produced
             /\ base = discard_retention_before(open, cut, TRUE).journal
    BY <1>6
  <2>2. /\ JournalInv(open) /\ ~open.prepared_valid /\ TRUE \in BOOLEAN
        /\ open.retained_from <= cut /\ cut <= open.produced
    BY <1>1, <2>1
  <2>3. /\ JournalInv(base) /\ ~base.prepared_valid
        /\ base.retained_from = cut /\ base.produced = open.produced
    BY <2>1, <2>2, DiscardRetention, ZenonT(60)
  <2>4. ContentKept(open, base) /\ LossCounted(open, base)
    BY <2>1, <2>2, DiscardContent, ZenonT(60)
  <2>5. ContentKept(j, base)
    <3>1. /\ j.produced \in Nat /\ open.produced \in Nat
          /\ open.retained_from \in Nat /\ base.retained_from \in Nat
          /\ open.retained_from <= base.retained_from
          /\ j.produced <= open.produced
      <4>1. open.retained_from = j.retained_from /\ open.produced = j.produced BY <1>1
      <4>2. base.retained_from = cut /\ j.retained_from <= cut BY <2>1, <2>3
      <4> HIDE <2>1
      <4> QED BY <1>3, <4>1, <4>2
    <3> QED BY <1>4, <2>4, <3>1, ContentCompose
  <2>6. LossCounted(j, base)
    <3>1. samples_between(open, j.retained_from, cut)
            = samples_between(j, j.retained_from, cut)
      BY <1>1, SamplesLedgers
    <3> QED BY <1>1, <1>2, <2>3, <2>4, <3>1 DEF LossCounted, CountersKept
  <2> QED BY <1>1, <2>1, <2>3, <2>5, <2>6 DEF LossExact
<1> QED BY <1>5, <1>6 DEF MadeRoom, open

(* What an accepted event adds leaves the account of the collapse as it is. *)
LEMMA LossThenAppend ==
  ASSUME NEW j, JournalInv(j), NEW base, JournalInv(base), NEW k, JournalInv(k),
         LossExact(j, base), base.produced = j.produced,
         ContentKept(base, k), CountersKept(base, k),
         k.retained_from = base.retained_from, ~k.prepared_valid
  PROVE  LossExact(j, k)
<1>1. /\ j.produced \in Nat /\ base.retained_from \in Nat
      /\ base.retained_from <= base.retained_from
      /\ j.produced <= base.produced
  BY JournalParts
<1>2. ContentKept(j, k) BY <1>1, ContentCompose DEF LossExact
<1> QED BY <1>2 DEF LossExact, LossCounted, CountersKept

(* append_sample: an accepted sample is shown at the sequence it was given,
   whatever had to make room for it. *)
LEMMA AppendSampleShows ==
  ASSUME NEW j, JournalInv(j), NEW sequence, NEW sample \in SampleRecords
  PROVE  LET r == append_sample(j, sequence, sample)
         IN  r.status = "Ok" =>
               /\ LossExact(j, r.journal)
               /\ ShowsSample(r.journal, j.produced, sample)
<1> DEFINE r == append_sample(j, sequence, sample)
           k == r.journal
<1> HIDE DEF r, k
<1> SUFFICES ASSUME r.status = "Ok"
             PROVE  LossExact(j, k) /\ ShowsSample(k, j.produced, sample)
  BY DEF r, k
<1>1. PICK base : MadeRoom(j, base) /\ Pushed(base, sample, k)
  BY AppendSampleKeeps DEF r, k
<1>2. /\ JournalInv(base) /\ base.produced = j.produced /\ LossExact(j, base)
  BY <1>1, MadeRoomContent
<1>3. /\ ~base.prepared_valid /\ k = push_sample(base, sample)
      /\ base.sample_size < SampleCapacity /\ base.produced < MaxSequence
  BY <1>1, <1>2 DEF LossExact, Pushed
<1>4. JournalInv(k) /\ k.retained_from = base.retained_from BY <1>2, <1>3, PushSample
<1>5. /\ ContentKept(base, k) /\ CountersKept(base, k)
      /\ SampleAt(k, base.produced) /\ StoredSample(k, base.produced) = sample
  BY <1>2, <1>3, PushContent
<1>6. ~k.prepared_valid BY <1>2, <1>3 DEF push_sample, JournalInv, Journal
<1>7. LossExact(j, k) BY <1>2, <1>4, <1>5, <1>6, LossThenAppend
<1> QED BY <1>2, <1>5, <1>7 DEF ShowsSample

(* append_gap: every sequence of an accepted gap shows the gap. *)
LEMMA AppendGapShows ==
  ASSUME NEW j, JournalInv(j), NEW g \in GapRecord
  PROVE  LET r == append_gap(j, g)
         IN  r.status = "Ok" =>
               /\ LossExact(j, r.journal)
               /\ \A q \in j.produced..(r.journal.produced - 1) :
                    ShowsGap(r.journal, q, g.reason)
<1> DEFINE r == append_gap(j, g)
           k == r.journal
<1> HIDE DEF r, k
<1> SUFFICES ASSUME r.status = "Ok"
             PROVE  /\ LossExact(j, k)
                    /\ \A q \in j.produced..(k.produced - 1) :
                         ShowsGap(k, q, g.reason)
  BY DEF r, k
<1>1. PICK base : MadeRoom(j, base) /\ GapSettled(base, g, k) BY AppendGapKeeps DEF r, k
<1>2. /\ JournalInv(base) /\ base.produced = j.produced /\ LossExact(j, base)
  BY <1>1, MadeRoomContent
<1>3. /\ ~base.prepared_valid /\ gap_valid(g) /\ g.first_missing = base.produced
      /\ gap_append(base.gaps, g).status # "Full"
      /\ k = [base EXCEPT !.gaps = gap_append(base.gaps, g).gaps,
                          !.produced = gap_end(g)]
  BY <1>1, <1>2 DEF LossExact, GapSettled
<1>4. JournalInv(k) /\ k.retained_from = base.retained_from
  <2>1. JournalInv(base) BY <1>2
  <2> QED BY <1>3, <2>1, SettleGap, ZenonT(60)
<1>5. /\ ContentKept(base, k) /\ CountersKept(base, k)
      /\ \A q \in base.produced..(k.produced - 1) : ShowsGap(k, q, g.reason)
  BY <1>1, <1>2, <1>3, SettleGapContent
<1>6. ~k.prepared_valid BY <1>2, <1>3 DEF JournalInv, Journal
<1>7. LossExact(j, k) BY <1>2, <1>4, <1>5, <1>6, LossThenAppend
<1> QED BY <1>2, <1>5, <1>7

(* append_continuity_break: the sequence of an accepted break shows it. *)
LEMMA AppendBreakShows ==
  ASSUME NEW j, JournalInv(j), NEW b \in ContinuityBreakRecord
  PROVE  LET r == append_continuity_break(j, b)
         IN  r.status = "Ok" =>
               /\ LossExact(j, r.journal)
               /\ ShowsBreak(r.journal, j.produced, b.reason)
<1> DEFINE r == append_continuity_break(j, b)
           k == r.journal
<1> HIDE DEF r, k
<1> SUFFICES ASSUME r.status = "Ok"
             PROVE  LossExact(j, k) /\ ShowsBreak(k, j.produced, b.reason)
  BY DEF r, k
<1>1. PICK base : MadeRoom(j, base) /\ BreakSettled(base, b, k)
  BY AppendBreakKeeps DEF r, k
<1>2. /\ JournalInv(base) /\ base.produced = j.produced /\ LossExact(j, base)
  BY <1>1, MadeRoomContent
<1>3. /\ ~base.prepared_valid /\ break_valid(b) /\ b.at_sequence = base.produced
      /\ base.produced < MaxSequence
      /\ break_append(base.continuity, b).status # "Full"
      /\ k = [base EXCEPT
                !.continuity = break_append(base.continuity, b).breaks,
                !.produced = break_end(b)]
  BY <1>1, <1>2 DEF LossExact, BreakSettled
<1>4. JournalInv(k) /\ k.retained_from = base.retained_from
  <2>1. JournalInv(base) BY <1>2
  <2> QED BY <1>3, <2>1, SettleBreak, ZenonT(60)
<1>5. /\ ContentKept(base, k) /\ CountersKept(base, k)
      /\ ShowsBreak(k, base.produced, b.reason)
  BY <1>1, <1>2, <1>3, SettleBreakContent
<1>6. ~k.prepared_valid BY <1>2, <1>3 DEF JournalInv, Journal
<1>7. LossExact(j, k) BY <1>2, <1>4, <1>5, <1>6, LossThenAppend
<1> QED BY <1>2, <1>5, <1>7

------------------------
(* Releasing, reading and settling. *)

(* What an operation that appends nothing and collapses nothing leaves. *)
Undisturbed(j, k) == ContentKept(j, k) /\ CountersKept(j, k)

(* The fields neither the prepared view nor the delivered cursor is among. *)
SameStore(j, k) ==
  /\ k.samples = j.samples /\ k.sample_head = j.sample_head
  /\ k.sample_size = j.sample_size
  /\ k.gaps = j.gaps /\ k.continuity = j.continuity
  /\ k.retained_from = j.retained_from /\ k.produced = j.produced
  /\ CountersKept(j, k)

(* A journal with the same store is undisturbed. *)
LEMMA SameStoreUndisturbed ==
  ASSUME NEW j, NEW k, SameStore(j, k)
  PROVE  Undisturbed(j, k) /\ \A q : SameAt(j, k, q)
<1>1. \A q : SameAt(j, k, q) BY SameFields DEF SameStore
<1> QED BY <1>1 DEF Undisturbed, ContentKept, SameStore

(* Undisturbed journals compose. *)
LEMMA UndisturbedCompose ==
  ASSUME NEW j, NEW k, NEW n, Undisturbed(j, k), Undisturbed(k, n),
         j.produced \in Nat, k.produced \in Nat, k.retained_from \in Nat,
         n.retained_from \in Nat,
         k.retained_from <= n.retained_from, j.produced <= k.produced
  PROVE  Undisturbed(j, n)
  BY ContentCompose DEF Undisturbed, CountersKept

(* Opening, preparing, cancelling and marking a range keep the store. *)
LEMMA PreparedStore ==
  ASSUME NEW j, JournalInv(j), NEW cursor
  PROVE  /\ SameStore(j, invalidate_prepared_view(j))
         /\ SameStore(j, cancel_prepared(j))
         /\ SameStore(j, prepare_through(invalidate_prepared_view(j), cursor))
         /\ SameStore(j, mark_delivered(j, cursor).journal)
<1>1. j \in Journal BY DEF JournalInv
<1>2. SameStore(j, j) BY DEF SameStore, CountersKept
<1>3. SameStore(j, invalidate_prepared_view(j))
  BY <1>1 DEF Journal, SameStore, CountersKept, invalidate_prepared_view
<1>4. SameStore(j, prepare_through(invalidate_prepared_view(j), cursor))
  BY <1>1 DEF Journal, SameStore, CountersKept, invalidate_prepared_view,
              prepare_through
<1>5. SameStore(j, mark_delivered(j, cursor).journal)
  <2>1. CASE ~j.prepared_valid \/ cursor # j.prepared_through
    BY <1>2, <2>1 DEF mark_delivered
  <2>2. CASE ~(~j.prepared_valid \/ cursor # j.prepared_through)
    <3>1. mark_delivered(j, cursor).journal =
            invalidate_prepared_view([j EXCEPT !.delivered =
              IF cursor > @ THEN cursor ELSE @])
      BY <2>2 DEF mark_delivered
    <3> QED BY <1>1, <3>1 DEF Journal, SameStore, CountersKept,
                              invalidate_prepared_view
  <2> QED BY <2>1, <2>2
<1> QED BY <1>3, <1>4, <1>5 DEF cancel_prepared

(* release_before keeps what the sequences it leaves show, counts no loss
   and drops the prepared view. *)
LEMMA ReleaseBeforeContent ==
  ASSUME NEW j, JournalInv(j), NEW cursor \in Nat
  PROVE  LET k == release_before(j, cursor).journal
         IN  Undisturbed(j, k) /\ ~k.prepared_valid
<1> DEFINE open == invalidate_prepared_view(j)
           dropped == discard_retention_before(open, cursor, FALSE)
           base == dropped.journal
           kept == [open EXCEPT !.released = cursor]
           freed == [base EXCEPT !.released = cursor]
           k == release_before(j, cursor).journal
<1>0. \/ k = open
      \/ k = kept
      \/ /\ k = freed
         /\ ~(cursor > release_limit(j)) /\ ~(cursor <= j.retained_from)
  BY DEF release_before
<1> HIDE DEF open, dropped, base, kept, freed, k
<1>1. /\ JournalInv(open) /\ ~open.prepared_valid
      /\ open.retained_from = j.retained_from /\ open.produced = j.produced
  BY InvalidatePrepared DEF open
<1>2. SameStore(j, open) BY PreparedStore DEF open
<1>3. /\ j.retained_from \in Nat /\ j.produced \in Nat /\ j.delivered \in Nat
      /\ j.delivered <= j.produced /\ j.retained_from <= j.produced
  BY JournalParts
<1>4. CASE k = open BY <1>1, <1>2, <1>4, SameStoreUndisturbed DEF k
<1>5. CASE k = kept
  <2>1. SameStore(j, kept) /\ ~kept.prepared_valid
    BY <1>1, <1>2 DEF kept, SameStore, CountersKept, JournalInv, Journal
  <2> QED BY <1>5, <2>1, SameStoreUndisturbed DEF k
<1>6. CASE /\ k = freed
           /\ ~(cursor > release_limit(j)) /\ ~(cursor <= j.retained_from)
  <2>1. cursor > j.retained_from /\ cursor <= j.produced BY <1>3, <1>6 DEF release_limit
  <2>2. /\ JournalInv(open) /\ ~open.prepared_valid
        /\ open.retained_from <= cursor /\ cursor <= open.produced
        /\ FALSE \in BOOLEAN
    BY <1>1, <1>3, <2>1
  <2>3. /\ JournalInv(base) /\ ~base.prepared_valid
        /\ base.retained_from = cursor /\ base.produced = open.produced
    BY <2>2, DiscardRetention, ZenonT(60) DEF dropped, base
  <2>4. ContentKept(open, base) /\ CountersKept(open, base)
    BY <2>2, DiscardContent, ZenonT(60) DEF dropped, base
  <2>5. SameStore(base, freed) /\ ~freed.prepared_valid
    <3>1. base \in Journal BY <2>3 DEF JournalInv
    <3> QED BY <2>3, <3>1 DEF freed, SameStore, CountersKept, Journal
  <2>6. Undisturbed(j, open) /\ Undisturbed(open, base) /\ Undisturbed(base, freed)
    BY <1>2, <2>4, <2>5, SameStoreUndisturbed DEF Undisturbed
  <2>7. Undisturbed(j, base)
    <3>1. /\ j.produced \in Nat /\ open.produced \in Nat
          /\ open.retained_from \in Nat /\ base.retained_from \in Nat
          /\ open.retained_from <= base.retained_from
          /\ j.produced <= open.produced
      <4>1. /\ open.retained_from = j.retained_from /\ open.produced = j.produced
            /\ base.retained_from = cursor
        BY <1>1, <2>3
      <4> QED BY <1>3, <2>1, <4>1
    <3> QED BY <2>6, <3>1, UndisturbedCompose
  <2>8. Undisturbed(j, freed)
    <3>1. /\ j.produced \in Nat /\ base.produced \in Nat
          /\ base.retained_from \in Nat /\ freed.retained_from \in Nat
          /\ base.retained_from <= freed.retained_from
          /\ j.produced <= base.produced
      <4>1. /\ open.produced = j.produced /\ base.produced = open.produced
            /\ base.retained_from = cursor
            /\ freed.retained_from = base.retained_from
        BY <1>1, <2>3, <2>5 DEF SameStore
      <4> QED BY <1>3, <2>1, <4>1
    <3> QED BY <2>6, <2>7, <3>1, UndisturbedCompose
  <2> QED BY <1>6, <2>5, <2>8 DEF k
<1> QED BY <1>0, <1>4, <1>5, <1>6

------------------------
(* What a read shows. *)

(* A range of samples counts every one of its positions. *)
LEMMA SamplesAll ==
  ASSUME NEW j, Ledgers(j), NEW begin \in Nat, NEW end \in Nat, begin <= end,
         \A q \in begin..(end - 1) : SampleAt(j, q)
  PROVE  samples_between(j, begin, end) = end - begin
<1>1. SamplePositions(j, begin, end) = begin..(end - 1) BY DEF SamplePositions
<1>2. samples_between(j, begin, end) = Cardinality(SamplePositions(j, begin, end))
  BY SamplesBetweenCounts DEF Ledgers
<1>3. Cardinality(begin..(end - 1)) = end - begin
  <2>1. /\ begin \in Int /\ end - 1 \in Int
        /\ (IF begin > end - 1 THEN 0 ELSE (end - 1) - begin + 1) = end - begin
    OBVIOUS
  <2> QED BY <2>1, FS_Interval
<1> QED BY <1>1, <1>2, <1>3

(* A run of samples stops before the first gap and the first break behind
   its start: every position it covers holds a sample. *)
LEMMA SampleEndClear ==
  ASSUME NEW j, JournalInv(j), NEW from \in Nat, from < j.produced,
         SampleAt(j, from),
         NEW q \in from..(sample_end(j, from) - 1)
  PROVE  SampleAt(j, q)
<1> DEFINE end == sample_end(j, from)
           limits == {j.produced}
             \cup {g.first_missing : g \in gap_next_from(j.gaps, from)}
             \cup {b.at_sequence : b \in break_next_from(j.continuity, from)}
<1>1. /\ j.gaps \in Seq(GapRecord) /\ j.continuity \in Seq(ContinuityBreakRecord)
      /\ j.produced \in Nat
      /\ \A i \in DOMAIN j.gaps : /\ j.gaps[i].first_missing \in Nat
                                  /\ gap_end(j.gaps[i]) \in Nat
      /\ \A i \in DOMAIN j.continuity : j.continuity[i].at_sequence \in Nat
      /\ GapsWithin(j.gaps, j.retained_from, j.produced)
      /\ BreaksWithin(j.continuity, j.retained_from, j.produced)
  BY JournalParts DEF JournalInv, Ledgers
<1>2. /\ \A g \in gap_next_from(j.gaps, from) : g.first_missing \in Nat
      /\ \A b \in break_next_from(j.continuity, from) : b.at_sequence \in Nat
  BY <1>1 DEF gap_next_from, break_next_from
<1>3. limits \in SUBSET Nat /\ limits # {} BY <1>1, <1>2
<1>4. end = CHOOSE s \in limits : \A t \in limits : s <= t BY DEF sample_end
<1>5. \E s \in limits : \A t \in limits : s <= t BY <1>3, LeastNat
<1>6. \A t \in limits : end <= t
  <2> HIDE DEF limits, end
  <2> QED BY <1>4, <1>5
<1>7. end \in Nat BY SampleEnd
<1>8. \A g \in gap_next_from(j.gaps, from) : end <= g.first_missing BY <1>6
<1>9. \A b \in break_next_from(j.continuity, from) : end <= b.at_sequence BY <1>6
<1>10. q \in Nat /\ from <= q /\ q < end BY <1>7
<1> HIDE DEF limits, end
<1>11. ASSUME NEW i \in DOMAIN j.gaps,
              j.gaps[i].first_missing <= q, q < gap_end(j.gaps[i])
       PROVE  FALSE
  <2> DEFINE Hit == {k \in DOMAIN j.gaps : gap_end(j.gaps[k]) > from}
  <2>1. DOMAIN j.gaps = 1..Len(j.gaps) /\ Len(j.gaps) \in Nat BY <1>1
  <2>2. i \in Hit BY <1>1, <1>10, <1>11
  <2>3. Hit \in SUBSET Nat /\ Hit # {} BY <2>1, <2>2
  <2>4. PICK m \in Hit : \A k \in Hit : m <= k BY <2>3, LeastNat
  <2>5. m \in DOMAIN j.gaps /\ m <= i /\ gap_end(j.gaps[m]) > from BY <2>2, <2>4
  <2>6. j.gaps[m] \in gap_next_from(j.gaps, from)
    <3>1. \A k \in 1..(m - 1) : gap_end(j.gaps[k]) <= from
      <4> SUFFICES ASSUME NEW k \in 1..(m - 1) PROVE gap_end(j.gaps[k]) <= from OBVIOUS
      <4>1. k \in DOMAIN j.gaps /\ k < m BY <2>1, <2>5
      <4>2. k \notin Hit BY <2>1, <2>4, <4>1
      <4> QED BY <1>1, <4>1, <4>2
    <3> QED BY <2>5, <3>1 DEF gap_next_from
  <2>7. end <= j.gaps[m].first_missing BY <1>8, <2>6
  <2>8. j.gaps[m].first_missing <= j.gaps[i].first_missing
    <3>1. CASE m = i BY <1>1, <3>1
    <3>2. CASE m < i
      <4>1. gap_end(j.gaps[m]) <= j.gaps[i].first_missing
        BY <1>1, <2>5, <3>2 DEF GapsWithin
      <4>2. j.gaps[m].first_missing <= gap_end(j.gaps[m])
        <5>1. j.gaps[m].missing_count \in Nat BY <1>1, <2>5, GapFields
        <5> QED BY <1>1, <2>5, <5>1 DEF gap_end
      <4> QED BY <1>1, <1>11, <2>5, <4>1, <4>2
    <3> QED BY <2>1, <2>5, <3>1, <3>2
  <2> QED BY <1>1, <1>7, <1>10, <1>11, <2>5, <2>7, <2>8
<1>12. ASSUME NEW i \in DOMAIN j.continuity, j.continuity[i].at_sequence = q
       PROVE  FALSE
  <2> DEFINE Hit == {k \in DOMAIN j.continuity :
                       j.continuity[k].at_sequence >= from}
  <2>1. DOMAIN j.continuity = 1..Len(j.continuity) /\ Len(j.continuity) \in Nat BY <1>1
  <2>2. i \in Hit BY <1>1, <1>10, <1>12
  <2>3. Hit \in SUBSET Nat /\ Hit # {} BY <2>1, <2>2
  <2>4. PICK m \in Hit : \A k \in Hit : m <= k BY <2>3, LeastNat
  <2>5. m \in DOMAIN j.continuity /\ m <= i /\ j.continuity[m].at_sequence >= from
    BY <2>2, <2>4
  <2>6. j.continuity[m] \in break_next_from(j.continuity, from)
    <3>1. \A k \in 1..(m - 1) : j.continuity[k].at_sequence < from
      <4> SUFFICES ASSUME NEW k \in 1..(m - 1)
                   PROVE  j.continuity[k].at_sequence < from
        OBVIOUS
      <4>1. k \in DOMAIN j.continuity /\ k < m BY <2>1, <2>5
      <4>2. k \notin Hit BY <2>1, <2>4, <4>1
      <4> QED BY <1>1, <4>1, <4>2
    <3> QED BY <2>5, <3>1 DEF break_next_from
  <2>7. end <= j.continuity[m].at_sequence BY <1>9, <2>6
  <2>8. j.continuity[m].at_sequence <= j.continuity[i].at_sequence
    <3>1. CASE m = i BY <1>1, <3>1
    <3>2. CASE m < i BY <1>1, <2>5, <3>2 DEF BreaksWithin
    <3> QED BY <2>1, <2>5, <3>1, <3>2
  <2> QED BY <1>1, <1>7, <1>10, <1>12, <2>5, <2>7, <2>8
<1> QED BY <1>11, <1>12 DEF SampleAt

(* The k-th sample of a view's spans is the one k slots behind the first,
   on either side of the wrap. *)
LEMMA SpanHolds ==
  ASSUME NEW j, j.sample_head \in Nat, NEW offset \in Nat,
         NEW size \in Nat, size <= SampleCapacity,
         NEW view,
         view.first.data = sample_physical_index(j, offset),
         view.first.size =
           IF size < SampleCapacity - sample_physical_index(j, offset)
           THEN size ELSE SampleCapacity - sample_physical_index(j, offset),
         view.second.data = 0, view.second.size = size - view.first.size,
         NEW n, n.samples = j.samples
  PROVE  /\ view.first.size + view.second.size = size
         /\ \A k \in 0..(size - 1) :
              sample_at(n, view, k) =
                j.samples[sample_physical_index(j, offset + k)]
<1>1. PICK start \in 0..(SampleCapacity - 1) :
        start = sample_physical_index(j, offset)
  <2>1. j.sample_head + offset \in Int /\ SampleCapacity \in Nat \ {0}
    BY CapacityAssumption
  <2> QED BY <2>1, ModRange DEF sample_physical_index
<1>2. SampleCapacity \in Nat \ {0} BY CapacityAssumption
<1>3. PICK head \in Int : /\ head = view.first.size
                          /\ head = IF size < SampleCapacity - start
                                    THEN size ELSE SampleCapacity - start
  BY <1>1, <1>2
<1>4. head \in 0..size /\ start + head <= SampleCapacity
      /\ (head < size => start + head = SampleCapacity)
  BY <1>1, <1>2, <1>3
<1>5. ASSUME NEW k \in 0..(size - 1)
      PROVE  sample_at(n, view, k) =
               j.samples[sample_physical_index(j, offset + k)]
  <2>1. sample_physical_index(j, offset + k) = ((start + k) % SampleCapacity)
    <3>1. PICK a \in Int : a = j.sample_head + offset OBVIOUS
    <3>2. (((a % SampleCapacity) + k) % SampleCapacity) =
            ((a + k) % SampleCapacity)
      <4>1. k \in Int OBVIOUS
      <4> QED BY <1>2, <4>1, ModAdd
    <3>3. j.sample_head + (offset + k) = a + k BY <3>1
    <3>4. start = (a % SampleCapacity) BY <1>1, <3>1 DEF sample_physical_index
    <3> QED BY <3>2, <3>3, <3>4 DEF sample_physical_index
  <2>2. CASE k < head
    <3>1. PICK x \in 0..(SampleCapacity - 1) : x = start + k BY <1>1, <1>2, <1>4, <2>2
    <3>2. (x % SampleCapacity) = x
      <4>1. ((SampleCapacity * 0 + x) % SampleCapacity) = x BY <1>2, <3>1, Remainder
      <4>2. SampleCapacity * 0 + x = x BY <1>2, <3>1
      <4> QED BY <4>1, <4>2
    <3>3. sample_at(n, view, k) = j.samples[start + k] BY <1>1, <1>3, <2>2 DEF sample_at
    <3> QED BY <2>1, <3>1, <3>2, <3>3
  <2>3. CASE ~(k < head)
    <3>1. PICK x \in 0..(SampleCapacity - 1) : x = k - head BY <1>1, <1>2, <1>4, <2>3
    <3>2. start + k = SampleCapacity + x BY <1>1, <1>2, <1>4, <2>3, <3>1
    <3>3. ((SampleCapacity + x) % SampleCapacity) = x
      <4>1. ((SampleCapacity * 1 + x) % SampleCapacity) = x BY <1>2, <3>1, Remainder
      <4>2. SampleCapacity * 1 + x = SampleCapacity + x BY <1>2, <3>1
      <4> QED BY <4>1, <4>2
    <3>4. sample_at(n, view, k) = j.samples[0 + (k - head)] BY <1>3, <2>3 DEF sample_at
    <3>5. 0 + (k - head) = x BY <3>1, <1>3
    <3> QED BY <2>1, <3>2, <3>3, <3>4, <3>5
  <2> QED BY <2>2, <2>3
<1>6. view.first.size + view.second.size = size BY <1>3
<1> QED BY <1>5, <1>6

(* A run of samples adds its length to the count. *)
LEMMA RunOffset ==
  ASSUME NEW j, Ledgers(j), NEW low \in Nat, NEW from \in Nat, NEW at \in Nat,
         low <= from, from <= at, \A q \in from..(at - 1) : SampleAt(j, q)
  PROVE  samples_between(j, low, at) = samples_between(j, low, from) + (at - from)
<1>1. samples_between(j, low, at) =
        samples_between(j, low, from) + samples_between(j, from, at)
  BY SamplesSplit
<1>2. samples_between(j, from, at) = at - from BY SamplesAll
<1> QED BY <1>1, <1>2

(* A run of samples lies in the ring, and its k-th one is k slots behind
   the first. *)
LEMMA RunInRing ==
  ASSUME NEW j, JournalInv(j),
         NEW from \in j.retained_from..(j.produced - 1), NEW count \in Nat \ {0},
         from + count <= j.produced,
         \A q \in from..(from + count - 1) : SampleAt(j, q)
  PROVE  LET offset == samples_between(j, j.retained_from, from)
         IN  /\ offset \in Nat /\ offset < j.sample_size
             /\ count <= j.sample_size - offset /\ count <= SampleCapacity
             /\ \A k \in 0..(count - 1) :
                  StoredSample(j, from + k) =
                    j.samples[sample_physical_index(j, offset + k)]
<1> DEFINE offset == samples_between(j, j.retained_from, from)
<1> HIDE DEF offset
<1>1. /\ Ledgers(j) /\ j.retained_from \in Nat /\ j.produced \in Nat
      /\ j.sample_size \in Nat /\ j.sample_size <= SampleCapacity
      /\ j.sample_size = samples_between(j, j.retained_from, j.produced)
      /\ from \in Nat /\ from <= j.produced /\ SampleCapacity \in Nat
  BY JournalParts, CapacityAssumption DEF JournalInv, RingExact
<1>2. /\ j.sample_size = offset + samples_between(j, from, j.produced)
      /\ offset \in Nat /\ samples_between(j, from, j.produced) \in Nat
  <2>1. /\ Ledgers(j) /\ j.retained_from \in Nat /\ from \in Nat
        /\ j.produced \in Nat /\ j.retained_from <= from /\ from <= j.produced
    BY <1>1
  <2>2. /\ samples_between(j, j.retained_from, j.produced) =
             samples_between(j, j.retained_from, from)
               + samples_between(j, from, j.produced)
        /\ samples_between(j, j.retained_from, from) \in Nat
        /\ samples_between(j, from, j.produced) \in Nat
    BY <2>1, SamplesSplit
  <2> QED BY <1>1, <2>2 DEF offset
<1>3. PICK stop \in Nat : stop = from + count BY <1>1
<1>4. /\ samples_between(j, from, j.produced) =
           samples_between(j, from, stop) + samples_between(j, stop, j.produced)
      /\ samples_between(j, stop, j.produced) \in Nat
  <2>1. /\ Ledgers(j) /\ from \in Nat /\ stop \in Nat /\ j.produced \in Nat
        /\ from <= stop /\ stop <= j.produced
    BY <1>1, <1>3
  <2> QED BY <2>1, SamplesSplit
<1>5. samples_between(j, from, stop) = count
  <2>1. /\ from <= stop /\ stop - from = count
        /\ \A q \in from..(stop - 1) : SampleAt(j, q)
    BY <1>1, <1>3
  <2> QED BY <1>1, <2>1, SamplesAll
<1>6. ASSUME NEW k \in 0..(count - 1)
      PROVE  StoredSample(j, from + k) =
               j.samples[sample_physical_index(j, offset + k)]
  <2>1. PICK at \in Nat : at = from + k BY <1>1
  <2>2. /\ Ledgers(j) /\ j.retained_from \in Nat /\ from \in Nat
        /\ j.retained_from <= from /\ from <= at
        /\ \A q \in from..(at - 1) : SampleAt(j, q)
    BY <1>1, <2>1
  <2>3. samples_between(j, j.retained_from, at) =
          samples_between(j, j.retained_from, from) + (at - from)
    BY <2>2, RunOffset
  <2>4. samples_between(j, j.retained_from, at) = offset + k
    BY <1>1, <1>2, <2>1, <2>3 DEF offset
  <2> QED BY <2>1, <2>4 DEF StoredSample, SlotOf
<1>7. /\ offset < j.sample_size /\ count <= j.sample_size - offset
      /\ count <= SampleCapacity
  BY <1>1, <1>2, <1>4, <1>5
<1> QED BY <1>2, <1>6, <1>7 DEF offset

(* A view is right when it covers retained positions, all of one kind, and
   tells what the journal shows at them. *)
ReadMatches(j, view, samples) ==
  LET range == view.first_sequence..(view.end_sequence - 1)
      one_segment(q, r) ==
        /\ StoredSample(j, q).config_revision = StoredSample(j, r).config_revision
        /\ StoredSample(j, q).timing_segment_id = StoredSample(j, r).timing_segment_id
  IN  /\ range \subseteq j.retained_from..(j.produced - 1)
      /\ \/ /\ view.status = "Samples"
            /\ Len(samples) = view.end_sequence - view.first_sequence
            /\ \A q \in range :
                 /\ SampleAt(j, q)
                 /\ samples[q - view.first_sequence + 1] = StoredSample(j, q)
                 /\ one_segment(q, view.first_sequence)
         \/ /\ view.status = "Gap"
            /\ view.gap.first_missing = view.first_sequence
            /\ \A q \in range : GapAt(j, q, view.gap.reason)
         \/ /\ view.status = "ContinuityBreak"
            /\ range = {view.first_sequence}
            /\ BreakAt(j, view.first_sequence, view.continuity_break.reason)

(* The samples a view's spans show. *)
ReadSamples(j, view) ==
  [k \in 1..(view.first.size + view.second.size) |-> sample_at(j, view, k - 1)]

(* A read touches nothing but the prepared view. *)
LEMMA PrepareReadStore ==
  ASSUME NEW j, JournalInv(j), NEW from, NEW limit
  PROVE  SameStore(j, prepare_read(j, from, limit).journal)
<1>1. \/ prepare_read(j, from, limit).journal = invalidate_prepared_view(j)
      \/ \E cursor : prepare_read(j, from, limit).journal
                       = prepare_through(invalidate_prepared_view(j), cursor)
  BY DEF prepare_read
<1> QED BY <1>1, PreparedStore

(* A view of samples: from the run of sample positions to the spans, the
   one segment and the end of the range. *)
LEMMA SamplesMatch ==
  ASSUME NEW j, JournalInv(j),
         NEW from \in j.retained_from..(j.produced - 1), SampleAt(j, from),
         NEW limit \in Nat \ {0}, NEW n, n.samples = j.samples,
         NEW count, count = (IF sample_end(j, from) - from < limit
                             THEN sample_end(j, from) - from ELSE limit),
         NEW offset, offset = samples_between(j, j.retained_from, from),
         NEW size, size = bounded_count(j, offset, count),
         NEW view, view.status = "Samples", view.first_sequence = from,
         view.end_sequence = from + size,
         view.first.data = sample_physical_index(j, offset),
         view.first.size =
           IF size < SampleCapacity - sample_physical_index(j, offset)
           THEN size ELSE SampleCapacity - sample_physical_index(j, offset),
         view.second.data = 0, view.second.size = size - view.first.size
  PROVE  /\ ~(\/ count = 0
              \/ offset >= j.sample_size
              \/ count > j.sample_size - offset)
         /\ ReadMatches(j, view, ReadSamples(n, view))
<1>1. /\ j.retained_from \in Nat /\ j.produced \in Nat /\ j.sample_head \in Nat
      /\ from \in Nat /\ j.retained_from <= from /\ from < j.produced
      /\ j.sample_size \in Nat
  BY JournalParts
<1>2. /\ sample_end(j, from) \in Nat /\ sample_end(j, from) <= j.produced
      /\ sample_end(j, from) > from
  <2>1. gap_containing(j.gaps, from) = {} /\ break_containing(j.continuity, from) = {}
    BY DEF SampleAt, gap_containing, break_containing
  <2> QED BY <1>1, <2>1, SampleEnd, SampleEndBehind
<1>3. /\ count \in Nat \ {0}
      /\ from + count <= j.produced
      /\ from + count <= sample_end(j, from)
  BY <1>1, <1>2
<1>4. \A q \in from..(from + count - 1) : SampleAt(j, q)
  <2> SUFFICES ASSUME NEW q \in from..(from + count - 1) PROVE SampleAt(j, q) OBVIOUS
  <2>1. q \in from..(sample_end(j, from) - 1) BY <1>1, <1>2, <1>3
  <2> QED BY <1>1, <2>1, SampleEndClear
<1>5. /\ offset \in Nat /\ offset < j.sample_size
      /\ count <= j.sample_size - offset /\ count <= SampleCapacity
      /\ \A k \in 0..(count - 1) :
           StoredSample(j, from + k) = j.samples[sample_physical_index(j, offset + k)]
  BY <1>3, <1>4, RunInRing
<1>6. /\ size \in 1..count
      /\ \A k \in 0..(size - 1) :
           /\ j.samples[sample_physical_index(j, offset + k)].config_revision
                = j.samples[sample_physical_index(j, offset + 0)].config_revision
           /\ j.samples[sample_physical_index(j, offset + k)].timing_segment_id
                = j.samples[sample_physical_index(j, offset + 0)].timing_segment_id
  <2>1. count \in Nat /\ count > 0 BY <1>3
  <2> QED BY <2>1, BoundedCount
<1>7. size \in Nat /\ size <= SampleCapacity /\ SampleCapacity \in Nat
  BY <1>3, <1>5, <1>6, CapacityAssumption
<1>8. /\ view.first.size + view.second.size = size
      /\ \A k \in 0..(size - 1) :
           sample_at(n, view, k) = j.samples[sample_physical_index(j, offset + k)]
  BY <1>1, <1>5, <1>7, SpanHolds
<1>9. /\ Len(ReadSamples(n, view)) = size
      /\ \A k \in 0..(size - 1) :
           ReadSamples(n, view)[k + 1] = sample_at(n, view, k)
  <2>1. ReadSamples(n, view) = [k \in 1..size |-> sample_at(n, view, k - 1)]
    BY <1>8 DEF ReadSamples
  <2>2. \A k \in 0..(size - 1) : k + 1 \in 1..size /\ (k + 1) - 1 = k BY <1>7
  <2> QED BY <1>7, <2>1, <2>2
<1>10. ASSUME NEW q \in from..(from + size - 1)
       PROVE  /\ q \in j.retained_from..(j.produced - 1)
              /\ SampleAt(j, q)
              /\ ReadSamples(n, view)[q - from + 1] = StoredSample(j, q)
              /\ StoredSample(j, q).config_revision = StoredSample(j, from).config_revision
              /\ StoredSample(j, q).timing_segment_id
                   = StoredSample(j, from).timing_segment_id
  <2>1. PICK k \in 0..(size - 1) : q = from + k /\ q - from = k BY <1>1, <1>7
  <2>2. k \in 0..(count - 1) /\ 0 \in 0..(count - 1) /\ from + 0 = from
    BY <1>1, <1>3, <1>6
  <2>3. /\ StoredSample(j, q) = j.samples[sample_physical_index(j, offset + k)]
        /\ StoredSample(j, from) = j.samples[sample_physical_index(j, offset + 0)]
    BY <1>5, <2>1, <2>2
  <2>4. q \in from..(from + count - 1) /\ q \in j.retained_from..(j.produced - 1)
    BY <1>1, <1>3, <2>1, <2>2
  <2>5. ReadSamples(n, view)[q - from + 1] = StoredSample(j, q)
    BY <1>8, <1>9, <2>1, <2>3
  <2> QED BY <1>4, <1>6, <2>1, <2>3, <2>4, <2>5
<1>11. from + size - from = size BY <1>1, <1>7
<1>12. ReadMatches(j, view, ReadSamples(n, view)) BY <1>9, <1>10, <1>11 DEF ReadMatches
<1>13. ~(\/ count = 0 \/ offset >= j.sample_size
         \/ count > j.sample_size - offset)
  BY <1>1, <1>3, <1>5
<1> QED BY <1>12, <1>13

(* prepare_read inside the retained data never fails: it answers with a
   view that begins at the cursor, is not empty and matches the journal. *)
LEMMA ReadShows ==
  ASSUME NEW j, JournalInv(j),
         NEW from \in j.retained_from..(j.produced - 1), NEW limit \in Nat \ {0}
  PROVE  LET r == prepare_read(j, from, limit)
         IN  /\ r.view.status \in {"Samples", "Gap", "ContinuityBreak"}
             /\ r.view.first_sequence = from
             /\ r.view.end_sequence \in (from + 1)..j.produced
             /\ ReadMatches(j, r.view, ReadSamples(r.journal, r.view))
<1> DEFINE open == invalidate_prepared_view(j)
           view(status, end) ==
             [status |-> status, first_sequence |-> from, end_sequence |-> end,
              retained_from |-> j.retained_from, produced |-> j.produced,
              first |-> NoSpan, second |-> NoSpan,
              gap |-> NoGap, continuity_break |-> NoBreak]
           in_gap == gap_containing(j.gaps, from)
           at_break == break_containing(j.continuity, from)
           g == CHOOSE x \in in_gap : TRUE
           b == CHOOSE x \in at_break : TRUE
           available == sample_end(j, from) - from
           count == IF available < limit THEN available ELSE limit
           offset == samples_between(j, j.retained_from, from)
           bounded == bounded_count(j, offset, count)
           start == sample_physical_index(j, offset)
           first_size == IF bounded < SampleCapacity - start
                         THEN bounded ELSE SampleCapacity - start
           chunk == [view("Samples", from + bounded)
                       EXCEPT !.first = [data |-> start, size |-> first_size],
                              !.second = [data |-> 0,
                                          size |-> bounded - first_size]]
           r == prepare_read(j, from, limit)
<1>1. /\ j.retained_from \in Nat /\ j.produced \in Nat /\ from \in Nat
      /\ j.retained_from <= from /\ from < j.produced
      /\ \A i \in DOMAIN j.gaps : /\ gap_end(j.gaps[i]) \in Nat
                                  /\ gap_end(j.gaps[i]) <= j.produced
      /\ \A i \in DOMAIN j.gaps : j.gaps[i].first_missing \in Nat
  BY JournalParts DEF JournalInv, GapsWithin
<1>2. ~(limit = 0) /\ ~(from < j.retained_from) /\ ~(from > j.produced)
      /\ ~(from = j.produced)
  BY <1>1
<1>3. r = IF in_gap # {} THEN
            [view    |-> [view("Gap", gap_end(g)) EXCEPT !.gap = g],
             journal |-> prepare_through(open, gap_end(g))]
          ELSE IF at_break # {} THEN
            [view    |-> [view("ContinuityBreak", break_end(b))
                            EXCEPT !.continuity_break = b],
             journal |-> prepare_through(open, break_end(b))]
          ELSE IF \/ count = 0
                  \/ offset >= j.sample_size
                  \/ count > j.sample_size - offset
               THEN [view |-> view("InternalError", from), journal |-> open]
          ELSE [view |-> chunk, journal |-> prepare_through(open, from + bounded)]
  BY <1>2 DEF prepare_read
<1>4. r.journal.samples = j.samples BY PrepareReadStore DEF SameStore
<1>5. \A st, end, x :
        LET v == [view(st, end) EXCEPT !.gap = x]
        IN  /\ v.status = st /\ v.first_sequence = from
            /\ v.end_sequence = end /\ v.gap = x
  OBVIOUS
<1>6. \A st, end, x :
        LET v == [view(st, end) EXCEPT !.continuity_break = x]
        IN  /\ v.status = st /\ v.first_sequence = from
            /\ v.end_sequence = end /\ v.continuity_break = x
  OBVIOUS
<1>7. /\ chunk.status = "Samples" /\ chunk.first_sequence = from
      /\ chunk.end_sequence = from + bounded
      /\ chunk.first.data = start /\ chunk.first.size = first_size
      /\ chunk.second.data = 0
      /\ chunk.second.size = bounded - chunk.first.size
  OBVIOUS
<1> HIDE DEF open, view, chunk, r
<1>8. CASE in_gap # {}
  <2>1. g \in in_gap BY <1>8
  <2> HIDE DEF g
  <2>2. PICK i \in DOMAIN j.gaps :
          /\ j.gaps[i].first_missing <= from /\ from < gap_end(j.gaps[i])
          /\ g = [first_missing |-> from,
                  missing_count |-> gap_end(j.gaps[i]) - from,
                  reason |-> j.gaps[i].reason]
    BY <2>1 DEF gap_containing
  <2>3. /\ g.first_missing = from /\ g.reason = j.gaps[i].reason
        /\ gap_end(g) = gap_end(j.gaps[i])
    <3>1. gap_end(g) = from + (gap_end(j.gaps[i]) - from) BY <2>2 DEF gap_end
    <3> QED BY <1>1, <2>2, <3>1
  <2>4. /\ r.view.status = "Gap" /\ r.view.first_sequence = from
        /\ r.view.end_sequence = gap_end(g) /\ r.view.gap = g
    <3>1. r.view = [view("Gap", gap_end(g)) EXCEPT !.gap = g] BY <1>3, <1>8
    <3> QED BY <1>5, <3>1
  <2> HIDE DEF in_gap
  <2>5. gap_end(g) \in (from + 1)..j.produced BY <1>1, <2>2, <2>3
  <2>6. \A q \in from..(gap_end(g) - 1) : GapAt(j, q, g.reason)
    BY <1>1, <2>2, <2>3 DEF GapAt
  <2>7. from..(gap_end(g) - 1) \subseteq j.retained_from..(j.produced - 1) BY <1>1, <2>5
  <2>8. ReadMatches(j, r.view, ReadSamples(r.journal, r.view))
    BY <2>3, <2>4, <2>6, <2>7 DEF ReadMatches
  <2> QED BY <2>4, <2>5, <2>8 DEF r
<1>9. CASE in_gap = {} /\ at_break # {}
  <2>1. b \in at_break BY <1>9
  <2> HIDE DEF b
  <2>2. PICK i \in DOMAIN j.continuity :
          j.continuity[i].at_sequence = from /\ b = j.continuity[i]
    BY <2>1 DEF break_containing
  <2>3. break_end(b) = from + 1 BY <2>2 DEF break_end
  <2>4. /\ r.view.status = "ContinuityBreak" /\ r.view.first_sequence = from
        /\ r.view.end_sequence = break_end(b) /\ r.view.continuity_break = b
    <3>1. r.view = [view("ContinuityBreak", break_end(b))
                      EXCEPT !.continuity_break = b]
      BY <1>3, <1>9
    <3> QED BY <1>6, <3>1
  <2> HIDE DEF in_gap, at_break
  <2>5. break_end(b) \in (from + 1)..j.produced BY <1>1, <2>3
  <2>6. from..(break_end(b) - 1) = {from} BY <1>1, <2>3
  <2>7. {from} \subseteq j.retained_from..(j.produced - 1) BY <1>1
  <2>8. BreakAt(j, from, b.reason) BY <2>2 DEF BreakAt
  <2>9. ReadMatches(j, r.view, ReadSamples(r.journal, r.view))
    BY <2>4, <2>6, <2>7, <2>8 DEF ReadMatches
  <2> QED BY <2>4, <2>5, <2>9 DEF r
<1>10. CASE in_gap = {} /\ at_break = {}
  <2>1. SampleAt(j, from) BY <1>10 DEF gap_containing, break_containing, SampleAt
  <2>2. /\ ~(\/ count = 0
             \/ offset >= j.sample_size
             \/ count > j.sample_size - offset)
        /\ ReadMatches(j, chunk, ReadSamples(r.journal, chunk))
    <3>1. /\ count = (IF sample_end(j, from) - from < limit
                      THEN sample_end(j, from) - from ELSE limit)
          /\ offset = samples_between(j, j.retained_from, from)
          /\ bounded = bounded_count(j, offset, count)
          /\ start = sample_physical_index(j, offset)
          /\ first_size = IF bounded < SampleCapacity - start
                          THEN bounded ELSE SampleCapacity - start
      OBVIOUS
    <3> HIDE DEF count, offset, bounded, start, first_size
    <3> QED BY <1>4, <1>7, <2>1, <3>1, SamplesMatch
  <2>3. r.view = chunk BY <1>3, <1>10, <2>2
  <2>4. r.view.status = "Samples" /\ r.view.first_sequence = from BY <1>7, <2>3
  <2>5. r.view.end_sequence \in (from + 1)..j.produced
    BY <1>1, <2>4, PrepareReadKeeps DEF r
  <2> QED BY <2>2, <2>3, <2>4, <2>5 DEF r
<1> QED BY <1>8, <1>9, <1>10

(* prepare_read outside the retained data says on which side. *)
LEMMA ReadRefuses ==
  ASSUME NEW j, JournalInv(j), NEW from \in Nat,
         from \notin j.retained_from..(j.produced - 1), NEW limit \in Nat \ {0}
  PROVE  prepare_read(j, from, limit).view.status =
           IF from < j.retained_from THEN "RangeUnavailable"
           ELSE IF from = j.produced THEN "NoData" ELSE "AheadOfProduced"
<1>1. j.retained_from \in Nat /\ j.produced \in Nat BY JournalParts
<1>2. ~(limit = 0) OBVIOUS
<1>3. CASE from < j.retained_from BY <1>2, <1>3 DEF prepare_read
<1>4. CASE ~(from < j.retained_from) /\ from = j.produced
  <2>1. ~(from > j.produced) BY <1>1, <1>4
  <2> QED BY <1>2, <1>4, <2>1 DEF prepare_read
<1>5. CASE ~(from < j.retained_from) /\ from # j.produced
  <2>1. from > j.produced BY <1>1, <1>5
  <2> QED BY <1>2, <1>5, <2>1 DEF prepare_read
<1> QED BY <1>3, <1>4, <1>5

(* A view of one journal is a view of another with the same store. *)
LEMMA MatchesStore ==
  ASSUME NEW n, NEW k, SameStore(n, k), NEW view, NEW samples,
         ReadMatches(n, view, samples),
         view.first_sequence \in view.first_sequence..(view.end_sequence - 1)
  PROVE  ReadMatches(k, view, samples)
<1> DEFINE range == view.first_sequence..(view.end_sequence - 1)
<1>1. /\ \A q : SameAt(n, k, q)
      /\ k.retained_from = n.retained_from /\ k.produced = n.produced
  BY SameStoreUndisturbed DEF SameStore
<1>2. \A q : /\ SampleAt(k, q) <=> SampleAt(n, q)
             /\ SampleAt(n, q) => StoredSample(k, q) = StoredSample(n, q)
             /\ \A why : GapAt(k, q, why) <=> GapAt(n, q, why)
             /\ \A why : BreakAt(k, q, why) <=> BreakAt(n, q, why)
  BY <1>1, SameSamples DEF SameAt
<1>3. range \subseteq k.retained_from..(k.produced - 1) BY <1>1 DEF ReadMatches
<1>4. CASE view.status = "Samples"
  <2>1. /\ Len(samples) = view.end_sequence - view.first_sequence
        /\ \A q \in range :
             /\ SampleAt(n, q)
             /\ samples[q - view.first_sequence + 1] = StoredSample(n, q)
             /\ StoredSample(n, q).config_revision
                  = StoredSample(n, view.first_sequence).config_revision
             /\ StoredSample(n, q).timing_segment_id
                  = StoredSample(n, view.first_sequence).timing_segment_id
    BY <1>4 DEF ReadMatches
  <2>2. \A q \in range : SampleAt(k, q) /\ StoredSample(k, q) = StoredSample(n, q)
    BY <1>2, <2>1
  <2>3. StoredSample(k, view.first_sequence) = StoredSample(n, view.first_sequence)
    BY <2>2
  <2>4. \A q \in range :
             /\ SampleAt(k, q)
             /\ samples[q - view.first_sequence + 1] = StoredSample(k, q)
             /\ StoredSample(k, q).config_revision
                  = StoredSample(k, view.first_sequence).config_revision
             /\ StoredSample(k, q).timing_segment_id
                  = StoredSample(k, view.first_sequence).timing_segment_id
    BY <2>1, <2>2, <2>3
  <2> QED BY <1>3, <1>4, <2>1, <2>4 DEF ReadMatches
<1>5. CASE view.status = "Gap" BY <1>2, <1>3, <1>5 DEF ReadMatches
<1>6. CASE view.status = "ContinuityBreak" BY <1>2, <1>3, <1>6 DEF ReadMatches
<1> QED BY <1>4, <1>5, <1>6 DEF ReadMatches

(* An empty journal is consistent. *)
LEMMA EmptyJournalInv == JournalInv(EmptyJournal)
<1>1. /\ SampleCapacity \in Nat \ {0} /\ MaxSequence \in Nat
      /\ GapCapacity \in Nat /\ ContinuityCapacity \in Nat
  BY CapacityAssumption
<1>2. EmptyJournal \in Journal
  <2>1. [i \in 0..(SampleCapacity - 1) |-> NoSample] \in
          [0..(SampleCapacity - 1) -> SampleRecords \cup {NoSample}]
    OBVIOUS
  <2>2. 0 \in 0..(SampleCapacity - 1) /\ 0 \in 0..SampleCapacity
        /\ 0 \in 0..MaxSequence
    BY <1>1
  <2>3. <<>> \in Seq(GapRecord) /\ <<>> \in Seq(ContinuityBreakRecord) OBVIOUS
  <2> QED BY <2>1, <2>2, <2>3 DEF EmptyJournal, Journal, Sequence
<1>3. /\ EmptyJournal.gaps = <<>> /\ EmptyJournal.continuity = <<>>
      /\ EmptyJournal.retained_from = 0 /\ EmptyJournal.produced = 0
      /\ EmptyJournal.delivered = 0 /\ EmptyJournal.released = 0
      /\ EmptyJournal.sample_size = 0 /\ EmptyJournal.prepared_valid = FALSE
  BY DEF EmptyJournal
<1>4. samples_between(EmptyJournal, 0, 0) = 0 BY DEF samples_between
<1>5. GapsWithin(<<>>, 0, 0) /\ BreaksWithin(<<>>, 0, 0)
      /\ LedgersDisjoint(<<>>, <<>>)
  BY <1>1 DEF GapsWithin, BreaksWithin, LedgersDisjoint
<1>6. CursorsOrdered(EmptyJournal) /\ PreparedWithin(EmptyJournal)
      /\ RingExact(EmptyJournal)
  BY <1>3, <1>4 DEF CursorsOrdered, PreparedWithin, RingExact
<1> QED BY <1>2, <1>3, <1>5, <1>6 DEF JournalInv
=============================================================================
