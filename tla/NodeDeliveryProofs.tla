------------------------- MODULE NodeDeliveryProofs -------------------------
(* The safety of the node's delivery half for every ring and ledger size,
   every width of the sequence space and of the token counter, and every
   set of samples. *)
EXTENDS NodeDelivery, SpscQueue, MeasurementJournalProofs, SequenceTheorems, FunctionTheorems

Kinds == {"Sample", "Gap", "Break"}

Events == [kind : Kinds, sample : SampleRecords \cup {NoSample},
           reason : GapReason \cup ContinuityBreakReason \cup {"none"}]

(* The history holds one event for every retained sequence. *)
LogExact ==
  /\ log \in Seq(Events)
  /\ Len(log) = j.produced - j.retained_from

(* The inductive invariant. *)
NodeInv ==
  /\ JournalInv(j)
  /\ s \in Session /\ s.boot_epoch = BootEpoch
  /\ LogExact
  /\ lost \subseteq Sequence \X Kinds

(* The initial state satisfies the invariant. *)
LEMMA NodeInit == Init => NodeInv
<1> SUFFICES ASSUME Init PROVE NodeInv OBVIOUS
<1>1. JournalInv(j) /\ j.produced = 0 /\ j.retained_from = 0
  BY EmptyJournalInv DEF Init, EmptyJournal
<1>2. s \in Session /\ s.boot_epoch = BootEpoch
  <2>1. /\ 1 \in 0..(TokenModulus - 1) /\ 0 \in 0..(TokenModulus - 1)
        /\ 0 \in 0..MaxSequence /\ BootEpoch \in Nat
    BY SessionAssumption, CapacityAssumption, NodeAssumption
  <2> QED BY <2>1 DEF Init, NewSession, Session, Sequence
<1>3. LogExact BY <1>1 DEF Init, LogExact
<1> QED BY <1>1, <1>2, <1>3 DEF Init, NodeInv

(* Dropping the events below the new retention cut keeps one event for
   each retained sequence. *)
LEMMA RetainedExact ==
  ASSUME NEW events \in Seq(Events), NEW k, JournalInv(j), JournalInv(k),
         Len(events) = k.produced - j.retained_from,
         j.retained_from <= k.retained_from
  PROVE  /\ Retained(events, k) \in Seq(Events)
         /\ Len(Retained(events, k)) = k.produced - k.retained_from
<1> DEFINE m == k.retained_from - j.retained_from + 1
           n == Len(events)
<1>1. /\ j.retained_from \in Nat /\ k.retained_from \in Nat /\ k.produced \in Nat
      /\ k.retained_from <= k.produced
  BY JournalParts
<1>2. /\ m \in 1..(Len(events) + 1) /\ n \in (m - 1)..Len(events)
      /\ n - m + 1 = k.produced - k.retained_from
  BY <1>1
<1>3. Retained(events, k) = SubSeq(events, m, n) BY DEF Retained
<1> HIDE DEF m, n
<1>4. /\ SubSeq(events, m, n) \in Seq(Events)
      /\ Len(SubSeq(events, m, n)) = n - m + 1
  BY <1>2, SubSeqProperties
<1> QED BY <1>2, <1>3, <1>4

(* An append, whatever its verdict, keeps the invariant. *)
LEMMA AppendedKeeps ==
  ASSUME NodeInv, NEW result, NEW events \in Seq(Events),
         AppendKeeps(j, result.journal),
         result.status = "Ok" => result.journal.produced = j.produced + Len(events),
         result.status # "Ok" => result.journal.produced = j.produced,
         Appended(result, events)
  PROVE  NodeInv'
<1> DEFINE k == result.journal
           grown == IF result.status = "Ok" THEN log \o events ELSE log
<1>1. /\ JournalInv(j) /\ JournalInv(k) /\ j.retained_from <= k.retained_from
      /\ k.retained_from <= j.produced
      /\ log \in Seq(Events) /\ Len(log) = j.produced - j.retained_from
  BY DEF NodeInv, LogExact, AppendKeeps
<1>2. /\ j.retained_from \in Nat /\ j.produced \in Nat /\ k.retained_from \in Nat
      /\ j.produced <= MaxSequence /\ MaxSequence \in Nat
      /\ j.retained_from <= j.produced
  BY <1>1, JournalParts, CapacityAssumption
<1>3. grown \in Seq(Events) /\ Len(grown) = k.produced - j.retained_from
  <2>1. CASE result.status = "Ok"
    <3>1. log \o events \in Seq(Events)
          /\ Len(log \o events) = Len(log) + Len(events)
      BY <1>1
    <3>2. Len(events) \in Nat OBVIOUS
    <3> QED BY <1>1, <1>2, <2>1, <3>1, <3>2
  <2>2. CASE result.status # "Ok" BY <1>1, <2>2
  <2> QED BY <2>1, <2>2
<1>4. /\ j' = k /\ log' = Retained(grown, k) /\ s' = s
      /\ lost' = lost \cup {<<q, event(q).kind>> :
                              q \in j.retained_from..(k.retained_from - 1)}
  BY DEF Appended
<1> HIDE DEF k, grown
<1>5. log' \in Seq(Events) /\ Len(log') = j'.produced - j'.retained_from
  BY <1>1, <1>3, <1>4, RetainedExact
<1>6. \A q \in j.retained_from..(k.retained_from - 1) :
        q \in Sequence /\ event(q).kind \in Kinds
  <2> SUFFICES ASSUME NEW q \in j.retained_from..(k.retained_from - 1)
               PROVE  q \in Sequence /\ event(q).kind \in Kinds
    OBVIOUS
  <2>1. q - j.retained_from + 1 \in 1..Len(log) BY SMTT(30), <1>1, <1>2
  <2>2. log[q - j.retained_from + 1] \in Events BY <1>1, <2>1
  <2>3. event(q).kind \in Kinds BY <2>2 DEF event, Events
  <2>4. q \in Sequence BY <1>1, <1>2 DEF Sequence
  <2> QED BY <2>3, <2>4
<1>7. lost' \subseteq Sequence \X Kinds BY <1>4, <1>6 DEF NodeInv
<1> QED BY <1>1, <1>4, <1>5, <1>7 DEF NodeInv, LogExact

(* The effect of AppendKeeps, ReleaseKeeps and ReadKeeps on the cursors. *)
CursorsStep ==
  /\ j.retained_from <= j'.retained_from
  /\ j.produced <= j'.produced
  /\ j.delivered <= j'.delivered
  /\ j.released <= j'.released
  /\ j.discarded_sequences <= j'.discarded_sequences
  /\ j'.delivered # j.delivered =>
       /\ s.prepared_token # 0 /\ s'.prepared_token = 0
       /\ j'.delivered = s.prepared_end

(* A step that releases but appends nothing keeps the invariant. *)
LEMMA ReleasedKeeps ==
  ASSUME NodeInv, ReleaseKeeps(j, j'), log' = Retained(log, j'),
         s' \in Session, s'.boot_epoch = s.boot_epoch, lost' = lost
  PROVE  NodeInv' /\ CursorsStep
<1>1. /\ JournalInv(j) /\ JournalInv(j') /\ j.retained_from <= j'.retained_from
      /\ j'.produced = j.produced /\ j'.delivered = j.delivered
      /\ j.released <= j'.released
      /\ j'.discarded_sequences >= j.discarded_sequences
      /\ log \in Seq(Events) /\ Len(log) = j.produced - j.retained_from
  BY DEF NodeInv, LogExact, ReleaseKeeps
<1>2. log' \in Seq(Events) /\ Len(log') = j'.produced - j'.retained_from
  BY <1>1, RetainedExact
<1>3. /\ j.produced \in Nat /\ j.delivered \in Nat
      /\ j.discarded_sequences \in Nat /\ j'.discarded_sequences \in Nat
  BY <1>1, JournalParts
<1>4. CursorsStep BY <1>1, <1>3 DEF CursorsStep
<1> QED BY <1>1, <1>2, <1>4 DEF NodeInv, LogExact

(* An append keeps every cursor where AppendKeeps puts it. *)
LEMMA AppendCursors ==
  ASSUME NodeInv, AppendKeeps(j, j')
  PROVE  CursorsStep
<1>1. /\ j.produced \in Nat /\ j.delivered \in Nat /\ j.released \in Nat
      /\ j.discarded_sequences \in Nat /\ j'.discarded_sequences \in Nat
  BY JournalParts DEF NodeInv, AppendKeeps
<1> QED BY <1>1 DEF CursorsStep, AppendKeeps

(* The inductive step, one case for each operation of the node. *)
LEMMA NodeNext == NodeInv /\ [Next]_vars => NodeInv' /\ CursorsStep
<1> SUFFICES ASSUME NodeInv, [Next]_vars PROVE NodeInv' /\ CursorsStep OBVIOUS
<1>0. /\ JournalInv(j) /\ s \in Session /\ s.boot_epoch = BootEpoch
      /\ log \in Seq(Events) /\ Len(log) = j.produced - j.retained_from
      /\ lost \subseteq Sequence \X Kinds
  BY DEF NodeInv, LogExact
<1>1. /\ j.produced \in Nat /\ j.retained_from \in Nat
      /\ j.delivered \in Nat /\ j.released \in Nat
      /\ j.discarded_sequences \in Nat
  BY <1>0, JournalParts
<1>2. CASE AppendSample
  <2>1. PICK q \in Claimed, r \in SampleRecords :
          Appended(append_sample(j, q, r), <<SampleEvent(r)>>)
    BY <1>2 DEF AppendSample
  <2> DEFINE result == append_sample(j, q, r)
             events == <<SampleEvent(r)>>
  <2>2. /\ AppendKeeps(j, result.journal)
        /\ result.status = "Ok" => result.journal.produced = j.produced + 1
        /\ result.status # "Ok" => result.journal.produced = j.produced
    BY <1>0, AppendSampleKeeps
  <2>3. events \in Seq(Events) /\ Len(events) = 1
    <3>1. SampleEvent(r) \in Events BY DEF SampleEvent, Events, Kinds
    <3> QED BY <3>1
  <2>4. Appended(result, events) BY <2>1
  <2> HIDE DEF result, events
  <2>5. j' = result.journal BY <2>4 DEF Appended
  <2> QED BY <2>2, <2>3, <2>4, <2>5, AppendedKeeps, AppendCursors
<1>3. CASE AppendGap
  <2>1. PICK q \in Claimed, n \in 0..MaxGapCount, why \in GapInputs :
          Appended(append_gap(j, [first_missing |-> q, missing_count |-> n,
                                  reason |-> why]),
                   [k \in 1..n |-> GapEvent(why)])
    BY <1>3 DEF AppendGap
  <2> DEFINE g == [first_missing |-> q, missing_count |-> n, reason |-> why]
             result == append_gap(j, g)
             events == [k \in 1..n |-> GapEvent(why)]
  <2>2. n \in Nat /\ why \in GapReason /\ q \in Nat BY <1>1, NodeAssumption DEF Claimed
  <2>3. g \in GapRecord /\ g.missing_count = n BY <2>2 DEF GapRecord
  <2>4. events \in Seq(Events) /\ Len(events) = n
    <3>1. GapEvent(why) \in Events BY <2>2 DEF GapEvent, Events, Kinds
    <3> QED BY <2>2, <3>1
  <2>5. Appended(result, events) BY <2>1
  <2> HIDE DEF g, result, events
  <2>6. /\ AppendKeeps(j, result.journal)
        /\ result.status = "Ok" => result.journal.produced = j.produced + n
        /\ result.status # "Ok" => result.journal.produced = j.produced
    BY <1>0, <2>3, AppendGapKeeps DEF result
  <2>7. j' = result.journal BY <2>5 DEF Appended
  <2> QED BY <2>4, <2>5, <2>6, <2>7, AppendedKeeps, AppendCursors
<1>4. CASE AppendContinuityBreak
  <2>1. PICK q \in Claimed, why \in BreakInputs :
          Appended(append_continuity_break(j, [at_sequence |-> q, reason |-> why]),
                   <<BreakEvent(why)>>)
    BY <1>4 DEF AppendContinuityBreak
  <2> DEFINE b == [at_sequence |-> q, reason |-> why]
             result == append_continuity_break(j, b)
             events == <<BreakEvent(why)>>
  <2>2. why \in ContinuityBreakReason /\ q \in Nat BY <1>1, NodeAssumption DEF Claimed
  <2>3. b \in ContinuityBreakRecord BY <2>2 DEF ContinuityBreakRecord
  <2>4. events \in Seq(Events) /\ Len(events) = 1
    <3>1. BreakEvent(why) \in Events BY <2>2 DEF BreakEvent, Events, Kinds
    <3> QED BY <3>1
  <2>5. Appended(result, events) BY <2>1
  <2> HIDE DEF b, result, events
  <2>6. /\ AppendKeeps(j, result.journal)
        /\ result.status = "Ok" => result.journal.produced = j.produced + 1
        /\ result.status # "Ok" => result.journal.produced = j.produced
    BY <1>0, <2>3, AppendBreakKeeps DEF result
  <2>7. j' = result.journal BY <2>5 DEF Appended
  <2> QED BY <2>4, <2>5, <2>6, <2>7, AppendedKeeps, AppendCursors
<1>5. CASE PreparePull
  <2>1. PICK command \in PullCommands :
          /\ j' = prepare_pull(j, s, command).journal
          /\ s' = prepare_pull(j, s, command).session
          /\ log' = Retained(log, prepare_pull(j, s, command).journal)
          /\ lost' = lost
    BY <1>5 DEF PreparePull
  <2>2. command \in PullCommand
    BY <1>1, NodeAssumption, SessionAssumption, CapacityAssumption
       DEF PullCommands, PullCommand, Sequence
  <2>3. ReleaseKeeps(j, j') /\ s' \in Session /\ s'.boot_epoch = s.boot_epoch
    BY <1>0, <2>1, <2>2, PreparePullKeeps
  <2> QED BY <2>1, <2>3, ReleasedKeeps
<1>6. CASE Complete
  <2>1. PICK token : /\ j' = complete(j, s, token).journal
                     /\ s' = complete(j, s, token).session
                     /\ log' = log /\ lost' = lost
    BY <1>6 DEF Complete, Settled
  <2>2. /\ JournalInv(j') /\ s' \in Session /\ s'.boot_epoch = s.boot_epoch
        /\ j'.retained_from = j.retained_from /\ j'.produced = j.produced
        /\ j'.released = j.released
        /\ j'.discarded_sequences = j.discarded_sequences
        /\ j.delivered <= j'.delivered
        /\ j'.delivered # j.delivered =>
             /\ s.prepared_token # 0 /\ s'.prepared_token = 0
             /\ j'.delivered = s.prepared_end
    BY <1>0, <2>1, CompleteKeeps
  <2> QED BY <1>0, <1>1, <2>1, <2>2 DEF NodeInv, LogExact, CursorsStep
<1>7. CASE Abort
  <2>1. PICK token : /\ j' = abort(j, s, token).journal
                     /\ s' = abort(j, s, token).session
                     /\ log' = log /\ lost' = lost
    BY <1>7 DEF Abort, Settled
  <2>2. ReadKeeps(j, j') /\ s' \in Session /\ s'.boot_epoch = s.boot_epoch
    BY <1>0, <2>1, AbortKeeps
  <2> QED BY <1>0, <1>1, <2>1, <2>2 DEF NodeInv, LogExact, CursorsStep, ReadKeeps
<1>8. CASE Release
  <2>1. PICK command \in [boot_epoch : {BootEpoch, OtherEpoch},
                          release_before : Sequence] :
          /\ j' = release(j, s, command).journal
          /\ log' = Retained(log, j') /\ s' = s /\ lost' = lost
    BY <1>8 DEF Release
  <2>2. command.release_before \in Nat BY CapacityAssumption DEF Sequence
  <2>3. ReleaseKeeps(j, j') BY <1>0, <2>1, <2>2, ReleaseCommandKeeps
  <2> QED BY <1>0, <2>1, <2>3, ReleasedKeeps
<1>9. CASE UNCHANGED vars BY <1>0, <1>1, <1>9 DEF NodeInv, LogExact, CursorsStep, vars
<1> QED BY <1>2, <1>3, <1>4, <1>5, <1>6, <1>7, <1>8, <1>9 DEF Next

(* The inductive invariant holds of every behaviour. *)
THEOREM NodeInvariant == Spec => []NodeInv
<1>1. Init => NodeInv BY NodeInit
<1>2. NodeInv /\ [Next]_vars => NodeInv' BY NodeNext
<1> QED BY <1>1, <1>2, PTL DEF Spec

(* measurement_journal.h: for every capacity, no interleaving of appends,
   pulls, completions, aborts and releases breaks the cursor order, the
   ledgers or the count of stored samples the sequence arithmetic uses. *)
THEOREM JournalStaysConsistent == Spec => []JournalConsistent
<1>1. NodeInv => JournalConsistent BY DEF NodeInv, JournalConsistent
<1> QED BY <1>1, NodeInvariant, PTL

(* No reachable journal refuses a valid contiguous event: overload always
   makes room. *)
THEOREM OverloadMakesRoom == Spec => []AppendAccepts
<1>1. NodeInv => AppendAccepts
  <2> SUFFICES ASSUME NodeInv PROVE AppendAccepts OBVIOUS
  <2>0. /\ JournalInv(j) /\ j.produced \in Nat /\ MaxSequence \in Nat
    BY JournalParts, CapacityAssumption DEF NodeInv
  <2>1. ASSUME NEW r \in SampleRecords, valid_sample_record(r),
               j.produced < MaxSequence
        PROVE  append_sample(j, j.produced, r).status = "Ok"
    BY <2>0, <2>1, AppendSampleKeeps
  <2>2. ASSUME NEW n \in 1..MaxGapCount, NEW why \in GapInputs,
               j.produced + n <= MaxSequence
        PROVE  append_gap(j, [first_missing |-> j.produced, missing_count |-> n,
                              reason |-> why]).status = "Ok"
    <3> DEFINE g == [first_missing |-> j.produced, missing_count |-> n,
                     reason |-> why]
    <3>1. /\ g \in GapRecord /\ gap_valid(g) /\ g.first_missing = j.produced
      BY <2>0, <2>2, NodeAssumption DEF GapRecord, gap_valid
    <3> HIDE DEF g
    <3>2. append_gap(j, g).status = "Ok" BY <2>0, <3>1, AppendGapKeeps
    <3> QED BY <3>2 DEF g
  <2>3. ASSUME NEW why \in BreakInputs, j.produced < MaxSequence
        PROVE  append_continuity_break(j, [at_sequence |-> j.produced,
                                           reason |-> why]).status = "Ok"
    <3> DEFINE b == [at_sequence |-> j.produced, reason |-> why]
    <3>1. /\ b \in ContinuityBreakRecord /\ break_valid(b)
          /\ b.at_sequence = j.produced
      BY <2>0, <2>3, NodeAssumption DEF ContinuityBreakRecord, break_valid
    <3> HIDE DEF b
    <3>2. append_continuity_break(j, b).status = "Ok" BY <2>0, <3>1, AppendBreakKeeps
    <3> QED BY <3>2 DEF b
  <2> QED BY <2>1, <2>2, <2>3 DEF AppendAccepts
<1> QED BY <1>1, NodeInvariant, PTL

(* Only a pull that answers with a view takes a token, and it takes the next. *)
LEMMA PullTakesNext ==
  ASSUME NEW journal, NEW session, NEW command
  PROVE  LET p == prepare_pull(journal, session, command)
         IN  \/ p.session = session
             \/ /\ session.prepared_token = 0 /\ session.next_token # 0
                /\ \E end : p.session = take_token(session, end)
<1> DEFINE freed == release_before(journal, command.release_before)
           requested == IF command.max_samples < MaxChunkSamples
                        THEN command.max_samples ELSE MaxChunkSamples
           shown == prepare_read(freed.journal, command.from, requested)
           verdict == view_decision(shown.journal, shown.view)
           p == prepare_pull(journal, session, command)
<1> HIDE DEF freed, requested, shown, verdict
<1>1. CASE session.prepared_token # 0 \/ session.boot_epoch = 0 \/ session.next_token = 0
           \/ command.boot_epoch # session.boot_epoch
           \/ command.max_samples = 0 \/ command.release_before > command.from
           \/ freed.status # "Ok"
           \/ verdict \in {"NoData", "RangeUnavailable", "CursorAhead"}
           \/ verdict \notin Settleable
  <2>1. p.session = session BY <1>1 DEF prepare_pull, freed, requested, shown, verdict
  <2> QED BY <2>1
<1>2. CASE ~(session.prepared_token # 0 \/ session.boot_epoch = 0 \/ session.next_token = 0
             \/ command.boot_epoch # session.boot_epoch
             \/ command.max_samples = 0 \/ command.release_before > command.from
             \/ freed.status # "Ok"
             \/ verdict \in {"NoData", "RangeUnavailable", "CursorAhead"}
             \/ verdict \notin Settleable)
  <2>1. p.session = take_token(session, shown.view.end_sequence)
    BY <1>2 DEF prepare_pull, freed, requested, shown, verdict
  <2> QED BY <1>2, <2>1
<1> QED BY <1>1, <1>2

(* A token is handed out once. *)
LEMMA TokensStep == ASSUME NodeInv, [Next]_vars PROVE TokenOnce
<1>0. s \in Session BY DEF NodeInv
<1>1. CASE \/ AppendSample \/ AppendGap \/ AppendContinuityBreak \/ Release
           \/ UNCHANGED vars
  <2>1. s' = s
    BY <1>1 DEF AppendSample, AppendGap, AppendContinuityBreak, Appended, Release, vars
  <2> QED BY <2>1 DEF TokenOnce
<1>2. CASE PreparePull
  <2>1. PICK command : s' = prepare_pull(j, s, command).session BY <1>2 DEF PreparePull
  <2>2. CASE s' = s BY <2>2 DEF TokenOnce
  <2>3. CASE /\ s.prepared_token = 0 /\ s.next_token # 0
             /\ \E end : s' = take_token(s, end)
    <3>1. /\ s'.prepared_token = s.next_token
          /\ s'.next_token = (s.next_token + 1) % TokenModulus
      BY <2>3, <1>0 DEF take_token, Session
    <3>2. (s.next_token + 1) % TokenModulus \in {0, s.next_token + 1} \ {s.next_token}
      <4>1. s.next_token \in 0 .. (TokenModulus - 1) /\ TokenModulus \in Nat \ {0, 1}
        BY <1>0, SessionAssumption DEF Session
      <4>2. CASE s.next_token = TokenModulus - 1 BY <2>3, <4>1, <4>2
      <4>3. CASE s.next_token # TokenModulus - 1 BY <4>1, <4>3
      <4> QED BY <4>2, <4>3
    <3> QED BY <2>3, <3>1, <3>2 DEF TokenOnce
  <2> QED BY <2>1, <2>2, <2>3, PullTakesNext
<1>3. CASE Complete \/ Abort
  <2>1. PICK token : \/ s' = complete(j, s, token).session
                     \/ s' = abort(j, s, token).session
    BY <1>3 DEF Complete, Abort, Settled
  <2>2. s' = s \/ s' = clear_prepared_state(s) BY <2>1 DEF complete, abort
  <2>3. s'.next_token = s.next_token /\ s'.prepared_token \in {0, s.prepared_token}
    BY <1>0, <2>2 DEF clear_prepared_state, Session
  <2> QED BY <2>3 DEF TokenOnce
<1> QED BY <1>1, <1>2, <1>3 DEF Next

(* No step moves a cursor back, delivered moves only to the end of the
   range whose completion gives the token up, and no token is handed out
   twice, for every width of the counter. *)
THEOREM CursorsOnlyAdvance == Spec => CursorsAdvance
<1>1. NodeInv /\ [Next]_vars =>
        [/\ j.retained_from <= j'.retained_from
         /\ j.produced <= j'.produced
         /\ j.delivered <= j'.delivered
         /\ j.released <= j'.released
         /\ j.discarded_sequences <= j'.discarded_sequences
         /\ j'.delivered # j.delivered =>
              /\ s.prepared_token # 0 /\ s'.prepared_token = 0
              /\ j'.delivered = s.prepared_end
         /\ TokenOnce]_vars
  BY NodeNext, TokensStep DEF CursorsStep
<1> QED BY <1>1, NodeInvariant, PTL DEF Spec, CursorsAdvance

------------------------
(* What the journal shows is what the source gave it. *)

(* event(q) of NodeDelivery, of any journal and its events. *)
EventAt(n, events, q) == events[q - n.retained_from + 1]

(* What the journal shows at q is this event. *)
ShowsEvent(n, q, e) ==
  /\ \A why : GapAt(n, q, why) => e = GapEvent(why)
  /\ \A why : BreakAt(n, q, why) => e = BreakEvent(why)
  /\ SampleAt(n, q) => e = SampleEvent(StoredSample(n, q))

(* Every retained sequence shows the event the source gave it. *)
ContentExact(n, events) ==
  \A q \in n.retained_from..(n.produced - 1) :
    ShowsEvent(n, q, EventAt(n, events, q))

(* An event is a sample exactly where the journal shows a sample. *)
LEMMA EventKinds ==
  ASSUME NEW n, NEW q, NEW e, ShowsEvent(n, q, e)
  PROVE  e.kind = "Sample" <=> SampleAt(n, q)
<1>1. CASE SampleAt(n, q) BY <1>1 DEF ShowsEvent, SampleEvent
<1>2. CASE ~SampleAt(n, q)
  <2>1. \/ \E why : GapAt(n, q, why)
        \/ \E why : BreakAt(n, q, why)
    BY <1>2, SampleAtOtherwise
  <2>2. \/ \E why : e = GapEvent(why)
        \/ \E why : e = BreakEvent(why)
    BY <2>1 DEF ShowsEvent
  <2>3. e.kind # "Sample" BY <2>2 DEF GapEvent, BreakEvent
  <2> QED BY <1>2, <2>3
<1> QED BY <1>1, <1>2

(* A sequence that shows the same shows the same event. *)
LEMMA EventKept ==
  ASSUME NEW n, NEW k, NEW q, NEW e, SameAt(n, k, q), ShowsEvent(n, q, e)
  PROVE  ShowsEvent(k, q, e)
<1>1. SampleAt(k, q) <=> SampleAt(n, q) BY SameSamples
<1> QED BY <1>1 DEF SameAt, ShowsEvent

(* A new gap, break or sample shows the event it was made of. *)
LEMMA EventShown ==
  ASSUME NEW k, NEW q
  PROVE  /\ \A why : ShowsGap(k, q, why) => ShowsEvent(k, q, GapEvent(why))
         /\ \A why : ShowsBreak(k, q, why) => ShowsEvent(k, q, BreakEvent(why))
         /\ \A x : ShowsSample(k, q, x) => ShowsEvent(k, q, SampleEvent(x))
<1>1. SampleAt(k, q) <=> /\ \A why : ~GapAt(k, q, why)
                         /\ \A why : ~BreakAt(k, q, why)
  BY SampleAtOtherwise
<1>2. ASSUME NEW why, ShowsGap(k, q, why) PROVE ShowsEvent(k, q, GapEvent(why))
  BY <1>1, <1>2 DEF ShowsGap, ShowsEvent
<1>3. ASSUME NEW why, ShowsBreak(k, q, why)
      PROVE  ShowsEvent(k, q, BreakEvent(why))
  BY <1>1, <1>3 DEF ShowsBreak, ShowsEvent
<1>4. ASSUME NEW x, ShowsSample(k, q, x) PROVE ShowsEvent(k, q, SampleEvent(x))
  BY <1>1, <1>4 DEF ShowsSample, ShowsEvent
<1> QED BY <1>2, <1>3, <1>4

(* Cutting the events at the new retention keeps them at their sequences. *)
LEMMA EventTrimmed ==
  ASSUME NEW n, JournalInv(n), NEW k, JournalInv(k),
         n.retained_from <= k.retained_from,
         NEW events \in Seq(Events), Len(events) = k.produced - n.retained_from,
         NEW q \in k.retained_from..(k.produced - 1)
  PROVE  EventAt(k, SubSeq(events, k.retained_from - n.retained_from + 1,
                           Len(events)), q)
           = EventAt(n, events, q)
<1> DEFINE m == k.retained_from - n.retained_from + 1
           len == Len(events)
           cut == SubSeq(events, m, len)
           i == q - k.retained_from + 1
<1>1. /\ n.retained_from \in Nat /\ k.retained_from \in Nat
      /\ k.produced \in Nat /\ k.retained_from <= k.produced
  BY JournalParts
<1>2. /\ m \in 1..(Len(events) + 1) /\ len \in (m - 1)..Len(events)
      /\ i \in 1..(len - m + 1) /\ m + i - 1 = q - n.retained_from + 1
  <2>1. /\ q \in Int /\ k.retained_from <= q /\ q < k.produced
        /\ len = k.produced - n.retained_from
    BY <1>1
  <2>2. m \in 1..(len + 1) /\ len \in (m - 1)..len BY <1>1, <2>1
  <2>3. i \in 1..(len - m + 1) /\ m + i - 1 = q - n.retained_from + 1
    <3>1. len - m + 1 = k.produced - k.retained_from BY <1>1, <2>1
    <3>2. i \in 1..(k.produced - k.retained_from) BY <1>1, <2>1
    <3>3. m + i - 1 = q - n.retained_from + 1 BY <1>1, <2>1
    <3> HIDE DEF m, i, len
    <3> QED BY <3>1, <3>2, <3>3
  <2> QED BY <2>2, <2>3
<1> HIDE DEF m, len, i
<1>3. cut[i] = events[m + i - 1] BY <1>2, SubSeqProperties
<1>4. /\ EventAt(k, cut, q) = cut[i]
      /\ EventAt(n, events, q) = events[q - n.retained_from + 1]
  BY DEF EventAt, i
<1> QED BY <1>2, <1>3, <1>4 DEF m, len

(* Content survives a step that keeps what the retained sequences show and
   puts the given events at the new ones. *)
LEMMA ContentAppended ==
  ASSUME NEW n, JournalInv(n), NEW k, JournalInv(k), ContentKept(n, k),
         n.retained_from <= k.retained_from, n.produced <= k.produced,
         NEW events \in Seq(Events), Len(events) = n.produced - n.retained_from,
         ContentExact(n, events),
         NEW more \in Seq(Events), Len(more) = k.produced - n.produced,
         \A q \in n.produced..(k.produced - 1) :
           ShowsEvent(k, q, more[q - n.produced + 1])
  PROVE  ContentExact(k, SubSeq(events \o more,
                                k.retained_from - n.retained_from + 1,
                                Len(events \o more)))
<1> DEFINE all == events \o more
<1>1. /\ n.retained_from \in Nat /\ n.produced \in Nat
      /\ n.retained_from <= n.produced
      /\ k.retained_from \in Nat /\ k.produced \in Nat
  BY JournalParts
<1>2. /\ all \in Seq(Events) /\ Len(all) = Len(events) + Len(more)
      /\ \A i \in 1..Len(events) : all[i] = events[i]
      /\ \A i \in 1..Len(more) : all[Len(events) + i] = more[i]
  OBVIOUS
<1> HIDE DEF all
<1>3. Len(all) = k.produced - n.retained_from
  <2>1. Len(events) \in Nat /\ Len(more) \in Nat OBVIOUS
  <2>2. Len(all) = (n.produced - n.retained_from) + (k.produced - n.produced) BY <1>2
  <2> QED BY <1>1, <2>2
<1>4. ASSUME NEW q \in k.retained_from..(k.produced - 1)
      PROVE  ShowsEvent(k, q, EventAt(n, all, q))
  <2>1. CASE q < n.produced
    <3>1. q \in n.retained_from..(n.produced - 1)
          /\ q \in k.retained_from..(n.produced - 1)
          /\ q - n.retained_from + 1 \in 1..Len(events)
      <4>1. q \in Int /\ k.retained_from <= q BY <1>1
      <4>2. q \in n.retained_from..(n.produced - 1)
            /\ q \in k.retained_from..(n.produced - 1)
        BY <1>1, <2>1, <4>1
      <4>3. q - n.retained_from + 1 \in 1..(n.produced - n.retained_from)
        BY SMTT(30), <1>1, <4>2
      <4> QED BY <4>2, <4>3
    <3>2. EventAt(n, all, q) = EventAt(n, events, q) BY <1>2, <3>1 DEF EventAt
    <3>3. ShowsEvent(n, q, EventAt(n, events, q)) /\ SameAt(n, k, q)
      BY <3>1 DEF ContentExact, ContentKept
    <3> QED BY <3>2, <3>3, EventKept
  <2>2. CASE ~(q < n.produced)
    <3>1. /\ q \in n.produced..(k.produced - 1)
          /\ q - n.produced + 1 \in 1..Len(more)
          /\ Len(events) + (q - n.produced + 1) = q - n.retained_from + 1
      <4>1. q \in Int /\ q < k.produced BY <1>1
      <4>2. q \in n.produced..(k.produced - 1) BY <1>1, <2>2, <4>1
      <4>3. q - n.produced + 1 \in 1..(k.produced - n.produced) BY SMTT(30), <1>1, <4>2
      <4>4. (n.produced - n.retained_from) + (q - n.produced + 1)
              = q - n.retained_from + 1
        BY <1>1, <4>1
      <4> QED BY <4>2, <4>3, <4>4
    <3>2. EventAt(n, all, q) = more[q - n.produced + 1] BY <1>2, <3>1 DEF EventAt
    <3> QED BY <3>1, <3>2
  <2> QED BY <2>1, <2>2
<1>5. ASSUME NEW q \in k.retained_from..(k.produced - 1)
      PROVE  EventAt(k, SubSeq(all, k.retained_from - n.retained_from + 1,
                               Len(all)), q) = EventAt(n, all, q)
  BY <1>2, <1>3, EventTrimmed
<1>6. ContentExact(k, SubSeq(all, k.retained_from - n.retained_from + 1,
                             Len(all)))
  BY <1>4, <1>5 DEF ContentExact
<1> QED BY <1>6 DEF all

(* And a step that appends nothing. *)
LEMMA ContentTrimmed ==
  ASSUME NEW n, JournalInv(n), NEW k, JournalInv(k), ContentKept(n, k),
         n.retained_from <= k.retained_from, k.produced = n.produced,
         NEW events \in Seq(Events), Len(events) = n.produced - n.retained_from,
         ContentExact(n, events)
  PROVE  ContentExact(k, SubSeq(events, k.retained_from - n.retained_from + 1,
                                Len(events)))
<1>1. /\ n.retained_from \in Nat /\ n.produced \in Nat /\ k.retained_from \in Nat
  BY JournalParts
<1>2. ASSUME NEW q \in k.retained_from..(k.produced - 1)
      PROVE  ShowsEvent(k, q, EventAt(n, events, q))
  <2>1. q \in n.retained_from..(n.produced - 1)
        /\ q \in k.retained_from..(n.produced - 1)
    BY <1>1
  <2> QED BY <2>1, EventKept DEF ContentExact, ContentKept
<1>3. ASSUME NEW q \in k.retained_from..(k.produced - 1)
      PROVE  EventAt(k, SubSeq(events, k.retained_from - n.retained_from + 1,
                               Len(events)), q) = EventAt(n, events, q)
  BY EventTrimmed
<1> QED BY <1>2, <1>3 DEF ContentExact

------------------------
(* What overload discarded. *)

(* DiscardAccounted of NodeDelivery, with what makes its count inductive:
   every recorded loss lies below the retained data. *)
LossesExact(n, losses) ==
  /\ IsFiniteSet(losses)
  /\ \A x \in losses : x[1] < n.retained_from
  /\ \A q \in 0..(n.retained_from - 1) :
       q < n.delivered \/ \E x \in losses : x[1] = q
  /\ n.discarded_sequences = Cardinality(losses)
  /\ n.discarded_samples = Cardinality({x \in losses : x[2] = "Sample"})

(* Tagging the members of a finite set does not change their number. *)
LEMMA TaggedCount ==
  ASSUME NEW S, IsFiniteSet(S), NEW kind
  PROVE  /\ IsFiniteSet({<<q, kind[q]>> : q \in S})
         /\ Cardinality({<<q, kind[q]>> : q \in S}) = Cardinality(S)
<1> DEFINE T == {<<q, kind[q]>> : q \in S}
           F == [q \in S |-> <<q, kind[q]>>]
<1>1. F \in [S -> T] OBVIOUS
<1>2. \A a, b \in S : F[a] = F[b] => a = b OBVIOUS
<1>3. \A t \in T : \E q \in S : F[q] = t OBVIOUS
<1> HIDE DEF F, T
<1>4. F \in Bijection(S, T) BY <1>1, <1>2, <1>3, Fun_IsBij
<1>5. ExistsBijection(S, T) BY <1>4 DEF ExistsBijection
<1>6. IsFiniteSet(T) /\ Cardinality(T) = Cardinality(S) BY <1>5, FS_Bijection
<1> QED BY <1>6 DEF T

(* Disjoint finite sets add up. *)
LEMMA DisjointCount ==
  ASSUME NEW S, IsFiniteSet(S), NEW T, IsFiniteSet(T), S \cap T = {}
  PROVE  /\ IsFiniteSet(S \cup T)
         /\ Cardinality(S \cup T) = Cardinality(S) + Cardinality(T)
<1>1. /\ IsFiniteSet(S \cup T)
      /\ Cardinality(S \cup T) =
           Cardinality(S) + Cardinality(T) - Cardinality(S \cap T)
  BY FS_Union
<1>2. Cardinality(S \cap T) = 0 BY FS_EmptySet
<1>3. Cardinality(S) \in Nat /\ Cardinality(T) \in Nat BY FS_CardinalityType
<1> QED BY <1>1, <1>2, <1>3

(* The losses of a collapse from n to k, by the kind of each sequence. *)
LossKinds(n, k, kind) ==
  \A q \in n.retained_from..(k.retained_from - 1) :
    kind[q] = "Sample" <=> SampleAt(n, q)

FreshLosses(n, k, kind) ==
  {<<q, kind[q]>> : q \in n.retained_from..(k.retained_from - 1)}

(* A collapse adds one loss for every sequence that leaves, of its kind. *)
LEMMA LossAppended ==
  ASSUME NEW n, JournalInv(n), NEW k, JournalInv(k),
         n.retained_from <= k.retained_from, k.retained_from <= n.produced,
         k.delivered = n.delivered, LossCounted(n, k),
         NEW losses, LossesExact(n, losses), losses \subseteq Sequence \X Kinds,
         NEW kind, LossKinds(n, k, kind)
  PROVE  LossesExact(k, losses \cup FreshLosses(n, k, kind))
<1> DEFINE R == n.retained_from..(k.retained_from - 1)
           P == SamplePositions(n, n.retained_from, k.retained_from)
           Fresh == {<<q, kind[q]>> : q \in R}
           FreshSamples == {<<q, kind[q]>> : q \in P}
           Old == {x \in losses : x[2] = "Sample"}
<1>1. /\ n.retained_from \in Nat /\ k.retained_from \in Nat
      /\ Ledgers(n)
  BY JournalParts
<1>2. IsFiniteSet(R) /\ Cardinality(R) = k.retained_from - n.retained_from
  <2>1. /\ n.retained_from \in Int /\ k.retained_from - 1 \in Int
        /\ (IF n.retained_from > k.retained_from - 1 THEN 0
            ELSE (k.retained_from - 1) - n.retained_from + 1)
             = k.retained_from - n.retained_from
    BY <1>1
  <2> QED BY <2>1, FS_Interval
<1>3. /\ IsFiniteSet(P)
      /\ samples_between(n, n.retained_from, k.retained_from) = Cardinality(P)
  BY <1>1, SamplesBetweenCounts DEF Ledgers
<1>4. P = {q \in R : kind[q] = "Sample"} BY DEF SamplePositions, LossKinds
<1>5. \A x \in losses : x[1] < n.retained_from BY DEF LossesExact
<1>6. \A x \in Fresh : ~(x[1] < n.retained_from) /\ x[1] < k.retained_from BY <1>1
<1>7. FreshSamples = {x \in Fresh : x[2] = "Sample"} BY <1>4
<1>8. /\ IsFiniteSet(losses) /\ IsFiniteSet(Old)
  <2>1. IsFiniteSet(losses) /\ Old \subseteq losses BY DEF LossesExact
  <2> QED BY <2>1, FS_Subset
<1>9. /\ IsFiniteSet(Fresh) /\ Cardinality(Fresh) = Cardinality(R)
      /\ IsFiniteSet(FreshSamples)
      /\ Cardinality(FreshSamples) = Cardinality(P)
  BY <1>2, <1>3, TaggedCount
<1>10. losses \cap Fresh = {} /\ Old \cap FreshSamples = {} BY <1>5, <1>6, <1>7
<1>11. {x \in losses \cup Fresh : x[2] = "Sample"} = Old \cup FreshSamples BY <1>7
<1>12. \A q \in R : \E x \in Fresh : x[1] = q
  <2> SUFFICES ASSUME NEW q \in R PROVE \E x \in Fresh : x[1] = q OBVIOUS
  <2>1. <<q, kind[q]>> \in Fresh /\ <<q, kind[q]>>[1] = q OBVIOUS
  <2> QED BY <2>1
<1> HIDE DEF R, P, Fresh, FreshSamples, Old
<1>13. /\ IsFiniteSet(losses \cup Fresh)
       /\ Cardinality(losses \cup Fresh)
            = Cardinality(losses) + Cardinality(Fresh)
  BY <1>8, <1>9, <1>10, DisjointCount
<1>14. Cardinality(Old \cup FreshSamples)
         = Cardinality(Old) + Cardinality(FreshSamples)
  BY <1>8, <1>9, <1>10, DisjointCount
<1>15. /\ k.discarded_sequences = Cardinality(losses \cup Fresh)
       /\ k.discarded_samples
            = Cardinality({x \in losses \cup Fresh : x[2] = "Sample"})
  <2>1. /\ n.discarded_sequences = Cardinality(losses)
        /\ n.discarded_samples = Cardinality(Old)
    BY DEF LossesExact, Old
  <2> QED BY <1>2, <1>3, <1>9, <1>11, <1>13, <1>14, <2>1 DEF LossCounted
<1>16. \A x \in losses \cup Fresh : x[1] < k.retained_from
  <2>1. ASSUME NEW x \in losses PROVE x[1] < k.retained_from
    <3>1. x[1] < n.retained_from /\ x[1] \in Int
      BY <1>5, CapacityAssumption DEF Sequence
    <3> QED BY <1>1, <3>1
  <2> QED BY <1>6, <2>1
<1>17. ASSUME NEW q \in 0..(k.retained_from - 1)
       PROVE  q < k.delivered \/ \E x \in losses \cup Fresh : x[1] = q
  <2>1. CASE q \in 0..(n.retained_from - 1)
    <3>1. q < n.delivered \/ \E x \in losses : x[1] = q BY <2>1 DEF LossesExact
    <3> QED BY <3>1
  <2>2. CASE q \in R BY <1>12, <2>2
  <2> QED BY <1>1, <2>1, <2>2 DEF R
<1>18. LossesExact(k, losses \cup Fresh) BY <1>13, <1>15, <1>16, <1>17 DEF LossesExact
<1> QED BY <1>18 DEF Fresh, R, FreshLosses

(* A release drops delivered sequences only, and counts no loss. *)
LEMMA LossReleased ==
  ASSUME NEW n, JournalInv(n), NEW k, JournalInv(k),
         n.retained_from <= k.retained_from,
         k.retained_from # n.retained_from => k.retained_from <= n.delivered,
         n.delivered <= k.delivered, CountersKept(n, k),
         NEW losses, LossesExact(n, losses), losses \subseteq Sequence \X Kinds
  PROVE  LossesExact(k, losses)
<1>1. /\ n.retained_from \in Nat /\ k.retained_from \in Nat
      /\ n.delivered \in Nat /\ k.delivered \in Nat
  BY JournalParts
<1>2. \A x \in losses : x[1] < k.retained_from
  <2> SUFFICES ASSUME NEW x \in losses PROVE x[1] < k.retained_from OBVIOUS
  <2>1. x[1] < n.retained_from /\ x[1] \in Int
    BY CapacityAssumption DEF LossesExact, Sequence
  <2> QED BY <1>1, <2>1
<1>3. ASSUME NEW q \in 0..(k.retained_from - 1)
      PROVE  q < k.delivered \/ \E x \in losses : x[1] = q
  <2>1. CASE q \in 0..(n.retained_from - 1)
    <3>1. q < n.delivered \/ \E x \in losses : x[1] = q BY <2>1 DEF LossesExact
    <3> QED BY <1>1, <3>1
  <2>2. CASE q \notin 0..(n.retained_from - 1) BY <1>1, <2>2
  <2> QED BY <2>1, <2>2
<1> QED BY <1>2, <1>3 DEF LossesExact, CountersKept

------------------------
(* What a prepared response shows. *)

(* ViewMatchesSource of NodeDelivery, of any journal and its events. *)
ViewMatches(n, events, view, samples) ==
  LET range == view.first_sequence..(view.end_sequence - 1)
      at(q) == EventAt(n, events, q)
      one_segment(q, r) ==
        /\ at(q).sample.config_revision = at(r).sample.config_revision
        /\ at(q).sample.timing_segment_id = at(r).sample.timing_segment_id
  IN  range \subseteq n.retained_from..(n.produced - 1) /\
      CASE view.status = "Samples" ->
             /\ Len(samples) = view.end_sequence - view.first_sequence
             /\ \A q \in range :
                  /\ at(q) = SampleEvent(samples[q - view.first_sequence + 1])
                  /\ one_segment(q, view.first_sequence)
        [] view.status = "Gap" ->
             /\ view.gap.first_missing = view.first_sequence
             /\ \A q \in range : at(q) = GapEvent(view.gap.reason)
        [] view.status = "ContinuityBreak" ->
             /\ range = {view.first_sequence}
             /\ at(view.first_sequence) =
                  BreakEvent(view.continuity_break.reason)
        [] OTHER -> FALSE

(* A view that tells what the journal shows tells what the source gave. *)
LEMMA MatchesSource ==
  ASSUME NEW n, NEW events, ContentExact(n, events),
         NEW view, NEW samples, ReadMatches(n, view, samples),
         view.first_sequence \in view.first_sequence..(view.end_sequence - 1)
  PROVE  ViewMatches(n, events, view, samples)
<1> DEFINE range == view.first_sequence..(view.end_sequence - 1)
           at(q) == EventAt(n, events, q)
<1>1. range \subseteq n.retained_from..(n.produced - 1) BY DEF ReadMatches
<1>2. \A q \in range : ShowsEvent(n, q, at(q)) BY <1>1 DEF ContentExact
<1> HIDE DEF at
<1>3. CASE view.status = "Samples"
  <2>1. /\ Len(samples) = view.end_sequence - view.first_sequence
        /\ \A q \in range :
             /\ SampleAt(n, q)
             /\ samples[q - view.first_sequence + 1] = StoredSample(n, q)
             /\ StoredSample(n, q).config_revision
                  = StoredSample(n, view.first_sequence).config_revision
             /\ StoredSample(n, q).timing_segment_id
                  = StoredSample(n, view.first_sequence).timing_segment_id
    BY <1>3 DEF ReadMatches
  <2>2. \A q \in range : at(q) = SampleEvent(StoredSample(n, q))
    BY <1>2, <2>1 DEF ShowsEvent
  <2>3. \A q \in range : at(q).sample = StoredSample(n, q) BY <2>2 DEF SampleEvent
  <2>4. \A q \in range :
          /\ at(q) = SampleEvent(samples[q - view.first_sequence + 1])
          /\ at(q).sample.config_revision
               = at(view.first_sequence).sample.config_revision
          /\ at(q).sample.timing_segment_id
               = at(view.first_sequence).sample.timing_segment_id
    BY <2>1, <2>2, <2>3
  <2> QED BY <1>1, <1>3, <2>1, <2>4 DEF ViewMatches, at
<1>4. CASE view.status = "Gap"
  <2>1. /\ view.gap.first_missing = view.first_sequence
        /\ \A q \in range : GapAt(n, q, view.gap.reason)
    BY <1>4 DEF ReadMatches
  <2>2. \A q \in range : at(q) = GapEvent(view.gap.reason) BY <1>2, <2>1 DEF ShowsEvent
  <2> QED BY <1>1, <1>4, <2>1, <2>2 DEF ViewMatches, at
<1>5. CASE view.status = "ContinuityBreak"
  <2>1. /\ range = {view.first_sequence}
        /\ BreakAt(n, view.first_sequence, view.continuity_break.reason)
    BY <1>5 DEF ReadMatches
  <2>2. at(view.first_sequence) = BreakEvent(view.continuity_break.reason)
    BY <1>2, <2>1 DEF ShowsEvent
  <2> QED BY <1>1, <1>5, <2>1, <2>2 DEF ViewMatches, at
<1> QED BY <1>3, <1>4, <1>5 DEF ReadMatches

(* prepare_pull refuses and touches nothing, refuses without a token, or
   hands out a token for a view that matches the journal it leaves. *)
LEMMA PullOutcome ==
  ASSUME NEW n, JournalInv(n), NEW session \in Session,
         NEW command \in PullCommand
  PROVE  LET r == prepare_pull(n, session, command)
         IN  \/ /\ r.journal = n /\ r.session = session
                /\ r.decision \notin Settleable
             \/ /\ session.prepared_token = 0 /\ r.session = session
                /\ r.decision \notin Settleable
                /\ Undisturbed(n, r.journal)
             \/ /\ r.decision \in Settleable
                /\ r.session.prepared_end = r.view.end_sequence
                /\ Undisturbed(n, r.journal)
                /\ r.view.first_sequence \in
                     r.view.first_sequence..(r.view.end_sequence - 1)
                /\ ReadMatches(r.journal, r.view, ReadSamples(r.journal, r.view))
<1> DEFINE freed == release_before(n, command.release_before)
           requested == IF command.max_samples < MaxChunkSamples
                        THEN command.max_samples ELSE MaxChunkSamples
           shown == prepare_read(freed.journal, command.from, requested)
           verdict == view_decision(shown.journal, shown.view)
           cancelled == cancel_prepared(shown.journal)
           handed == take_token(session, shown.view.end_sequence)
           r == prepare_pull(n, session, command)
<1>0. /\ command.from \in Nat /\ command.release_before \in Nat
      /\ command.max_samples \in Nat /\ MaxChunkSamples \in Nat \ {0}
  BY SessionAssumption DEF PullCommand
<1>1. \/ /\ r.journal = n /\ r.session = session
         /\ r.decision \in {"Busy", "InternalError", "StreamChanged",
                            "InvalidRequest", "InvalidRelease"}
      \/ /\ session.prepared_token = 0 /\ r.session = session
         /\ r.journal \in {freed.journal, shown.journal, cancelled}
         /\ r.decision \in {"InvalidRelease", "NoData", "RangeUnavailable",
                            "CursorAhead", "InternalError"}
      \/ /\ command.max_samples # 0 /\ verdict \in Settleable
         /\ r.decision = verdict /\ r.session = handed
         /\ r.view = shown.view /\ r.journal = shown.journal
  BY DEF prepare_pull
<1> HIDE DEF freed, requested, shown, verdict, cancelled, handed, r
<1>2. /\ ReleaseKeeps(n, freed.journal) /\ Undisturbed(n, freed.journal)
  BY <1>0, ReleaseBeforeKeeps, ReleaseBeforeContent DEF freed
<1>3. JournalInv(freed.journal) BY <1>2 DEF ReleaseKeeps
<1>4. requested \in Nat BY <1>0 DEF requested
<1>5. ReadKeeps(freed.journal, shown.journal)
  BY <1>0, <1>3, <1>4, PrepareReadKeeps DEF shown
<1>6. SameStore(freed.journal, shown.journal) BY <1>3, PrepareReadStore DEF shown
<1>7. JournalInv(shown.journal) BY <1>5 DEF ReadKeeps
<1>8. SameStore(shown.journal, cancelled) BY <1>7, PreparedStore DEF cancelled
<1>9. SameStore(freed.journal, cancelled) BY <1>6, <1>8 DEF SameStore, CountersKept
<1>10. ASSUME NEW k, SameStore(freed.journal, k) PROVE Undisturbed(n, k)
  <2>1. Undisturbed(freed.journal, k) BY <1>10, SameStoreUndisturbed
  <2>2. /\ n.produced \in Nat /\ freed.journal.produced \in Nat
        /\ freed.journal.retained_from \in Nat /\ k.retained_from \in Nat
        /\ freed.journal.retained_from <= k.retained_from
        /\ n.produced <= freed.journal.produced
    <3>1. /\ n.produced \in Nat /\ freed.journal.retained_from \in Nat
      BY <1>3, JournalParts
    <3>2. freed.journal.produced = n.produced BY <1>2 DEF ReleaseKeeps
    <3>3. k.retained_from = freed.journal.retained_from BY <1>10 DEF SameStore
    <3> QED BY <3>1, <3>2, <3>3
  <2> QED BY <1>2, <2>1, <2>2, UndisturbedCompose
<1>11. CASE /\ r.journal = n /\ r.session = session
            /\ r.decision \in {"Busy", "InternalError", "StreamChanged",
                               "InvalidRequest", "InvalidRelease"}
  BY <1>11 DEF Settleable, r
<1>12. CASE /\ session.prepared_token = 0 /\ r.session = session
            /\ r.journal \in {freed.journal, shown.journal, cancelled}
            /\ r.decision \in {"InvalidRelease", "NoData", "RangeUnavailable",
                               "CursorAhead", "InternalError"}
  <2>1. Undisturbed(n, r.journal) BY <1>2, <1>6, <1>9, <1>10, <1>12
  <2> QED BY <1>12, <2>1 DEF Settleable, r
<1>13. CASE /\ command.max_samples # 0 /\ verdict \in Settleable
            /\ r.decision = verdict /\ r.session = handed
            /\ r.view = shown.view /\ r.journal = shown.journal
  <2>1. requested \in Nat \ {0} BY <1>0, <1>13 DEF requested
  <2>2. shown.view.status \in {"Gap", "ContinuityBreak", "Samples"}
    BY <1>13 DEF verdict, view_decision, Settleable
  <2>3. command.from \in
          freed.journal.retained_from..(freed.journal.produced - 1)
    <3> SUFFICES ASSUME command.from \notin
             freed.journal.retained_from..(freed.journal.produced - 1)
                 PROVE  FALSE
      OBVIOUS
    <3>1. shown.view.status \in {"RangeUnavailable", "NoData", "AheadOfProduced"}
      BY <1>0, <1>3, <2>1, ReadRefuses DEF shown
    <3> QED BY <2>2, <3>1
  <2>4. /\ shown.view.first_sequence = command.from
        /\ shown.view.end_sequence \in
             (command.from + 1)..freed.journal.produced
        /\ ReadMatches(freed.journal, shown.view,
                       ReadSamples(shown.journal, shown.view))
    BY <1>3, <2>1, <2>3, ReadShows DEF shown
  <2>5. shown.view.first_sequence \in
          shown.view.first_sequence..(shown.view.end_sequence - 1)
    <3>1. freed.journal.produced \in Nat BY <1>3, JournalParts
    <3> QED BY <1>0, <2>4, <3>1
  <2>6. ReadMatches(shown.journal, shown.view,
                    ReadSamples(shown.journal, shown.view))
    BY <1>6, <2>4, <2>5, MatchesStore
  <2>7. handed.prepared_end = shown.view.end_sequence BY DEF handed, take_token, Session
  <2>8. Undisturbed(n, shown.journal) BY <1>6, <1>10
  <2> QED BY <1>13, <2>5, <2>6, <2>7, <2>8 DEF r
<1> QED BY <1>1, <1>11, <1>12, <1>13

------------------------
(* The node tells the truth about its stream. *)

(* The inductive invariant of DeliveryExact: on top of NodeInv, what the
   journal shows at each retained sequence is what the source gave it, the
   recorded losses are those counted, and the prepared response still
   shows what it was built from. *)
ExactInv ==
  /\ NodeInv
  /\ ContentExact(j, log)
  /\ LossesExact(j, lost)
  /\ PreparedViewIntact

(* The state predicates of NodeDelivery in terms of the journal and log. *)
LEMMA ViewsOfState ==
  ASSUME NEW view, NEW samples
  PROVE  /\ ViewMatchesSource(view, samples) <=> ViewMatches(j, log, view, samples)
         /\ ViewSamples(j, view) = ReadSamples(j, view)
  BY DEF ViewMatchesSource, ViewMatches, SameSegment, event, EventAt,
         ViewSamples, ReadSamples

(* PreparedViewIntact after a step, spelled out. *)
LEMMA IntactNext ==
  PreparedViewIntact' <=>
    ((s'.prepared_token # 0 /\ mark_delivered(j', s'.prepared_end).status = "Ok") =>
       /\ ReadSamples(j', plan'.view) = plan'.samples
       /\ ViewMatches(j', log', plan'.view, plan'.samples)
       /\ plan'.view.end_sequence = s'.prepared_end)
  BY DEF PreparedViewIntact, ViewMatchesSource, ViewMatches, SameSegment, event,
         EventAt, ViewSamples, ReadSamples

(* PreparedViewIntact now, in terms of the journal and the samples. *)
LEMMA IntactNow ==
  PreparedViewIntact <=>
    ((s.prepared_token # 0 /\ mark_delivered(j, s.prepared_end).status = "Ok") =>
       /\ ReadSamples(j, plan.view) = plan.samples
       /\ ViewMatches(j, log, plan.view, plan.samples)
       /\ plan.view.end_sequence = s.prepared_end)
  BY DEF PreparedViewIntact, ViewMatchesSource, ViewMatches, SameSegment, event,
         EventAt, ViewSamples, ReadSamples

(* Nothing is prepared without a token or a valid prepared range, and what
   a step leaves alone stays intact. *)
LEMMA IntactWhen ==
  ASSUME \/ s'.prepared_token = 0
         \/ ~j'.prepared_valid
         \/ PreparedViewIntact /\ j' = j /\ s' = s /\ log' = log /\ plan' = plan
  PROVE  PreparedViewIntact'
<1>1. CASE s'.prepared_token = 0 BY <1>1, IntactNext
<1>2. CASE ~j'.prepared_valid
  <2>1. mark_delivered(j', s'.prepared_end).status = "BeyondPreparedRange"
    BY <1>2 DEF mark_delivered
  <2> QED BY <2>1, IntactNext
<1>3. CASE PreparedViewIntact /\ j' = j /\ s' = s /\ log' = log /\ plan' = plan
  BY <1>3, IntactNext, IntactNow
<1> QED BY <1>1, <1>2, <1>3

(* Retained cuts nothing where the retention does not move. *)
LEMMA RetainedSame ==
  ASSUME NodeInv, NEW k, k.retained_from = j.retained_from
  PROVE  Retained(log, k) = log
<1>1. log \in Seq(Events) /\ j.retained_from \in Nat
  BY JournalParts DEF NodeInv, LogExact
<1>2. k.retained_from - j.retained_from + 1 = 1 BY <1>1
<1>3. Retained(log, k) = SubSeq(log, 1, Len(log)) BY <1>2 DEF Retained
<1> QED BY <1>1, <1>3

(* Events stay where a journal with the same store shows them. *)
LEMMA ContentSameStore ==
  ASSUME NEW n, NEW k, SameStore(n, k), NEW events, ContentExact(n, events)
  PROVE  ContentExact(k, events)
<1>1. /\ \A q : SameAt(n, k, q)
      /\ k.retained_from = n.retained_from /\ k.produced = n.produced
  BY SameStoreUndisturbed DEF SameStore
<1>2. \A q : EventAt(k, events, q) = EventAt(n, events, q) BY <1>1 DEF EventAt
<1> QED BY <1>1, <1>2, EventKept DEF ContentExact

(* Nothing is lost or shown yet. *)
LEMMA ExactInit == Init => ExactInv
<1> SUFFICES ASSUME Init PROVE ExactInv OBVIOUS
<1>1. NodeInv BY NodeInit
<1>2. /\ j.retained_from = 0 /\ j.produced = 0
      /\ j.discarded_sequences = 0 /\ j.discarded_samples = 0
      /\ lost = {} /\ s.prepared_token = 0
  BY DEF Init, EmptyJournal, NewSession
<1>3. ContentExact(j, log) BY <1>2 DEF ContentExact
<1>4. LossesExact(j, lost)
  <2>1. {x \in {} : x[2] = "Sample"} = {} OBVIOUS
  <2>2. IsFiniteSet({}) /\ Cardinality({}) = 0 BY FS_EmptySet
  <2> QED BY <1>2, <2>1, <2>2 DEF LossesExact
<1>5. PreparedViewIntact BY <1>2, IntactNow
<1> QED BY <1>1, <1>3, <1>4, <1>5 DEF ExactInv

(* An append, refused or accepted, with or without a collapse. *)
LEMMA AppendedExact ==
  ASSUME ExactInv, NEW result, NEW events \in Seq(Events),
         AppendKeeps(j, result.journal),
         result.status # "Ok" => result.journal = j,
         result.status = "Ok" =>
           /\ LossExact(j, result.journal)
           /\ Len(events) = result.journal.produced - j.produced
           /\ \A q \in j.produced..(result.journal.produced - 1) :
                ShowsEvent(result.journal, q, events[q - j.produced + 1]),
         Appended(result, events)
  PROVE  /\ ContentExact(j', log')
         /\ LossesExact(j', lost')
         /\ PreparedViewIntact'
<1> DEFINE k == result.journal
           gone == j.retained_from..(k.retained_from - 1)
           kind == [q \in gone |-> event(q).kind]
<1>1. /\ j' = k /\ s' = s /\ plan' = plan
      /\ log' = Retained(IF result.status = "Ok" THEN log \o events ELSE log, k)
      /\ lost' = lost \cup {<<q, event(q).kind>> : q \in gone}
  BY DEF Appended
<1>2. /\ NodeInv /\ JournalInv(j) /\ JournalInv(k)
      /\ log \in Seq(Events) /\ Len(log) = j.produced - j.retained_from
      /\ lost \subseteq Sequence \X Kinds
      /\ ContentExact(j, log) /\ LossesExact(j, lost) /\ PreparedViewIntact
      /\ j.retained_from <= k.retained_from /\ k.retained_from <= j.produced
      /\ j.produced <= k.produced /\ k.delivered = j.delivered
  BY DEF ExactInv, NodeInv, LogExact, AppendKeeps
<1>3. j.retained_from \in Nat /\ j.produced \in Nat /\ k.retained_from \in Nat
  BY <1>2, JournalParts
<1>4. {<<q, event(q).kind>> : q \in gone} = {<<q, kind[q]>> : q \in gone} OBVIOUS
<1>5. ASSUME NEW q \in gone PROVE kind[q] = "Sample" <=> SampleAt(j, q)
  <2>1. q \in j.retained_from..(j.produced - 1) BY <1>2, <1>3
  <2>2. ShowsEvent(j, q, event(q)) BY <1>2, <2>1 DEF ContentExact, event, EventAt
  <2>3. kind[q] = event(q).kind OBVIOUS
  <2> QED BY <2>2, <2>3, EventKinds
<1> HIDE DEF k, kind
<1>6. CASE result.status = "Ok"
  <2>1. /\ ContentKept(j, k) /\ LossCounted(j, k) /\ ~k.prepared_valid
        /\ Len(events) = k.produced - j.produced
        /\ \A q \in j.produced..(k.produced - 1) :
             ShowsEvent(k, q, events[q - j.produced + 1])
    BY <1>6 DEF LossExact, k
  <2>2. ContentExact(k, SubSeq(log \o events,
                               k.retained_from - j.retained_from + 1,
                               Len(log \o events)))
    BY <1>2, <2>1, ContentAppended
  <2>3. ContentExact(j', log') BY <1>1, <1>6, <2>2 DEF Retained
  <2>4. LossesExact(k, lost \cup FreshLosses(j, k, kind))
    <3>1. LossKinds(j, k, kind) BY <1>5 DEF LossKinds
    <3> QED BY <1>2, <2>1, <3>1, LossAppended
  <2>5. LossesExact(j', lost') BY <1>1, <1>4, <2>4 DEF FreshLosses
  <2>6. PreparedViewIntact' BY <1>1, <2>1, IntactWhen
  <2> QED BY <2>3, <2>5, <2>6
<1>7. CASE result.status # "Ok"
  <2>1. k = j BY <1>7 DEF k
  <2>2. log' = log BY <1>1, <1>2, <1>7, <2>1, RetainedSame
  <2>3. gone = {} BY <1>3, <2>1
  <2>4. {<<q, kind[q]>> : q \in gone} = {} BY <2>3
  <2>5. lost' = lost BY <1>1, <1>4, <2>4
  <2> QED BY <1>1, <1>2, <2>1, <2>2, <2>5, IntactWhen
<1> QED BY <1>6, <1>7

(* A step that releases or reads, and appends nothing. *)
LEMMA ReleasedExact ==
  ASSUME ExactInv, ReleaseKeeps(j, j'), Undisturbed(j, j'),
         log' = Retained(log, j'), lost' = lost
  PROVE  ContentExact(j', log') /\ LossesExact(j', lost')
<1>1. /\ JournalInv(j) /\ log \in Seq(Events)
      /\ Len(log) = j.produced - j.retained_from
      /\ lost \subseteq Sequence \X Kinds
      /\ ContentExact(j, log) /\ LossesExact(j, lost)
  BY DEF ExactInv, NodeInv, LogExact
<1>2. PICK k : k = j' OBVIOUS
<1>3. /\ JournalInv(k) /\ j.retained_from <= k.retained_from
      /\ k.produced = j.produced /\ k.delivered = j.delivered
      /\ k.retained_from # j.retained_from => k.retained_from <= j.delivered
      /\ ContentKept(j, k) /\ CountersKept(j, k)
  BY <1>2 DEF ReleaseKeeps, Undisturbed
<1>4. ContentExact(k, SubSeq(log, k.retained_from - j.retained_from + 1, Len(log)))
  BY <1>1, <1>3, ContentTrimmed
<1>5. LossesExact(k, lost)
  <2>1. j.delivered <= k.delivered BY <1>1, <1>3, JournalParts
  <2> QED BY <1>1, <1>3, <2>1, LossReleased
<1> QED BY <1>2, <1>4, <1>5 DEF Retained

(* A journal is undisturbed by nothing at all. *)
LEMMA UndisturbedSelf ==
  ASSUME NEW n PROVE Undisturbed(n, n)
<1>1. SameStore(n, n) BY DEF SameStore, CountersKept
<1> QED BY <1>1, SameStoreUndisturbed

(* complete and abort change no more than the prepared view and delivered,
   and only when they give the token up. *)
LEMMA SettleOutcome ==
  ASSUME NEW n, JournalInv(n), NEW session \in Session, NEW token
  PROVE  /\ LET r == complete(n, session, token)
            IN  /\ SameStore(n, r.journal)
                /\ \/ r.journal = n /\ r.session = session
                   \/ r.session.prepared_token = 0
         /\ LET r == abort(n, session, token)
            IN  /\ SameStore(n, r.journal)
                /\ \/ r.journal = n /\ r.session = session
                   \/ r.session.prepared_token = 0
<1>1. SameStore(n, n) BY DEF SameStore, CountersKept
<1>2. /\ SameStore(n, mark_delivered(n, session.prepared_end).journal)
      /\ SameStore(n, cancel_prepared(n))
  BY PreparedStore
<1>3. clear_prepared_state(session).prepared_token = 0 BY ClearPrepared
<1>4. LET r == complete(n, session, token)
      IN  \/ r.journal = n /\ r.session = session
          \/ /\ r.journal = mark_delivered(n, session.prepared_end).journal
             /\ r.session = clear_prepared_state(session)
  BY DEF complete
<1>5. LET r == abort(n, session, token)
      IN  \/ r.journal = n /\ r.session = session
          \/ /\ r.journal = cancel_prepared(n)
             /\ r.session = clear_prepared_state(session)
  BY DEF abort
<1> QED BY <1>1, <1>2, <1>3, <1>4, <1>5

(* A settlement loses nothing and keeps the content. *)
LEMMA SettledExact ==
  ASSUME ExactInv, NEW result, Settled(result),
         JournalInv(result.journal),
         j.delivered <= result.journal.delivered,
         SameStore(j, result.journal),
         \/ result.journal = j /\ result.session = s
         \/ result.session.prepared_token = 0
  PROVE  /\ ContentExact(j', log')
         /\ LossesExact(j', lost')
         /\ PreparedViewIntact'
<1>1. /\ j' = result.journal /\ s' = result.session
      /\ plan' = (IF result.session.prepared_token = 0 THEN NoPlan ELSE plan)
      /\ log' = log /\ lost' = lost
  BY DEF Settled
<1>2. /\ JournalInv(j) /\ ContentExact(j, log) /\ LossesExact(j, lost)
      /\ lost \subseteq Sequence \X Kinds /\ PreparedViewIntact
  BY DEF ExactInv, NodeInv
<1>3. ContentExact(result.journal, log) BY <1>2, ContentSameStore
<1>4. LossesExact(result.journal, lost)
  <2>1. /\ j.retained_from <= result.journal.retained_from
        /\ result.journal.retained_from = j.retained_from
        /\ CountersKept(j, result.journal)
    BY <1>2, JournalParts DEF SameStore
  <2> QED BY <1>2, <2>1, LossReleased
<1>5. PreparedViewIntact'
  <2>1. CASE s'.prepared_token = 0 BY <2>1, IntactWhen
  <2>2. CASE s'.prepared_token # 0
    <3>1. j' = j /\ s' = s /\ plan' = plan BY <1>1, <2>2
    <3> QED BY <1>1, <1>2, <3>1, IntactWhen
  <2> QED BY <2>1, <2>2
<1> QED BY <1>1, <1>3, <1>4, <1>5

(* The inductive step. *)
LEMMA ExactNext == ExactInv /\ [Next]_vars => ExactInv'
<1> SUFFICES ASSUME ExactInv, [Next]_vars PROVE ExactInv' OBVIOUS
<1>0. NodeInv /\ NodeInv' BY NodeNext DEF ExactInv
<1>1. /\ JournalInv(j) /\ s \in Session
      /\ ContentExact(j, log) /\ LossesExact(j, lost) /\ PreparedViewIntact
  BY DEF ExactInv, NodeInv
<1>2. SUFFICES /\ ContentExact(j', log')
               /\ LossesExact(j', lost')
               /\ PreparedViewIntact'
  BY <1>0 DEF ExactInv
<1>3. j.produced \in Nat /\ j.retained_from \in Nat BY <1>1, JournalParts
<1>4. CASE AppendSample
  <2>1. PICK q \in Claimed, r \in SampleRecords :
          Appended(append_sample(j, q, r), <<SampleEvent(r)>>)
    BY <1>4 DEF AppendSample
  <2> DEFINE result == append_sample(j, q, r)
             events == <<SampleEvent(r)>>
  <2>2. events \in Seq(Events) /\ Len(events) = 1 /\ events[1] = SampleEvent(r)
    <3>1. SampleEvent(r) \in Events BY DEF SampleEvent, Events, Kinds
    <3> QED BY <3>1
  <2>3. Appended(result, events) BY <2>1
  <2> HIDE DEF result, events
  <2>4. /\ AppendKeeps(j, result.journal)
        /\ result.status = "Ok" => result.journal.produced = j.produced + 1
        /\ result.status # "Ok" => result.journal = j
        /\ result.status = "Ok" =>
             /\ LossExact(j, result.journal)
             /\ ShowsSample(result.journal, j.produced, r)
    BY <1>1, AppendSampleKeeps, AppendSampleShows DEF result
  <2>5. ASSUME result.status = "Ok"
        PROVE  \A p \in j.produced..(result.journal.produced - 1) :
                 ShowsEvent(result.journal, p, events[p - j.produced + 1])
    <3>1. ShowsEvent(result.journal, j.produced, SampleEvent(r))
      BY <2>4, <2>5, EventShown
    <3>2. \A p \in j.produced..(result.journal.produced - 1) :
            p = j.produced /\ p - j.produced + 1 = 1
      BY <1>3, <2>4, <2>5
    <3> QED BY <2>2, <3>1, <3>2
  <2>6. result.status = "Ok" =>
          Len(events) = result.journal.produced - j.produced
    BY <1>3, <2>2, <2>4
  <2> QED BY <2>2, <2>3, <2>4, <2>5, <2>6, AppendedExact
<1>5. CASE AppendGap
  <2>1. PICK q \in Claimed, n \in 0..MaxGapCount, why \in GapInputs :
          Appended(append_gap(j, [first_missing |-> q, missing_count |-> n,
                                  reason |-> why]),
                   [k \in 1..n |-> GapEvent(why)])
    BY <1>5 DEF AppendGap
  <2> DEFINE g == [first_missing |-> q, missing_count |-> n, reason |-> why]
             result == append_gap(j, g)
             events == [k \in 1..n |-> GapEvent(why)]
  <2>2. n \in Nat /\ why \in GapReason /\ q \in Nat BY <1>3, NodeAssumption DEF Claimed
  <2>3. g \in GapRecord /\ g.missing_count = n /\ g.reason = why BY <2>2 DEF GapRecord
  <2>4. /\ events \in Seq(Events) /\ Len(events) = n
        /\ \A i \in 1..n : events[i] = GapEvent(why)
    <3>1. GapEvent(why) \in Events BY <2>2 DEF GapEvent, Events, Kinds
    <3> QED BY <2>2, <3>1
  <2>5. Appended(result, events) BY <2>1
  <2> HIDE DEF g, result, events
  <2>6. /\ AppendKeeps(j, result.journal)
        /\ result.status = "Ok" => result.journal.produced = j.produced + n
        /\ result.status # "Ok" => result.journal = j
        /\ result.status = "Ok" =>
             /\ LossExact(j, result.journal)
             /\ \A p \in j.produced..(result.journal.produced - 1) :
                  ShowsGap(result.journal, p, why)
    BY <1>1, <2>3, AppendGapKeeps, AppendGapShows DEF result
  <2>7. ASSUME result.status = "Ok"
        PROVE  \A p \in j.produced..(result.journal.produced - 1) :
                 ShowsEvent(result.journal, p, events[p - j.produced + 1])
    <3> SUFFICES ASSUME NEW p \in j.produced..(result.journal.produced - 1)
                 PROVE  ShowsEvent(result.journal, p, events[p - j.produced + 1])
      OBVIOUS
    <3>1. ShowsEvent(result.journal, p, GapEvent(why)) BY <2>6, <2>7, EventShown
    <3>2. p - j.produced + 1 \in 1..n BY <1>3, <2>2, <2>6, <2>7
    <3> QED BY <2>4, <3>1, <3>2
  <2>8. result.status = "Ok" =>
          Len(events) = result.journal.produced - j.produced
    BY <1>3, <2>2, <2>4, <2>6
  <2> QED BY <2>4, <2>5, <2>6, <2>7, <2>8, AppendedExact
<1>6. CASE AppendContinuityBreak
  <2>1. PICK q \in Claimed, why \in BreakInputs :
          Appended(append_continuity_break(j, [at_sequence |-> q, reason |-> why]),
                   <<BreakEvent(why)>>)
    BY <1>6 DEF AppendContinuityBreak
  <2> DEFINE b == [at_sequence |-> q, reason |-> why]
             result == append_continuity_break(j, b)
             events == <<BreakEvent(why)>>
  <2>2. why \in ContinuityBreakReason /\ q \in Nat BY <1>3, NodeAssumption DEF Claimed
  <2>3. b \in ContinuityBreakRecord /\ b.reason = why BY <2>2 DEF ContinuityBreakRecord
  <2>4. events \in Seq(Events) /\ Len(events) = 1 /\ events[1] = BreakEvent(why)
    <3>1. BreakEvent(why) \in Events BY <2>2 DEF BreakEvent, Events, Kinds
    <3> QED BY <3>1
  <2>5. Appended(result, events) BY <2>1
  <2> HIDE DEF b, result, events
  <2>6. /\ AppendKeeps(j, result.journal)
        /\ result.status = "Ok" => result.journal.produced = j.produced + 1
        /\ result.status # "Ok" => result.journal = j
        /\ result.status = "Ok" =>
             /\ LossExact(j, result.journal)
             /\ ShowsBreak(result.journal, j.produced, why)
    BY <1>1, <2>3, AppendBreakKeeps, AppendBreakShows DEF result
  <2>7. ASSUME result.status = "Ok"
        PROVE  \A p \in j.produced..(result.journal.produced - 1) :
                 ShowsEvent(result.journal, p, events[p - j.produced + 1])
    <3>1. ShowsEvent(result.journal, j.produced, BreakEvent(why))
      BY <2>6, <2>7, EventShown
    <3>2. \A p \in j.produced..(result.journal.produced - 1) :
            p = j.produced /\ p - j.produced + 1 = 1
      BY <1>3, <2>6, <2>7
    <3> QED BY <2>4, <3>1, <3>2
  <2>8. result.status = "Ok" =>
          Len(events) = result.journal.produced - j.produced
    BY <1>3, <2>4, <2>6
  <2> QED BY <2>4, <2>5, <2>6, <2>7, <2>8, AppendedExact
<1>7. CASE PreparePull
  <2>1. PICK command \in PullCommands :
          LET result == prepare_pull(j, s, command)
          IN  /\ j' = result.journal
              /\ s' = result.session
              /\ plan' = IF result.decision \in Settleable THEN PlanOf(result)
                         ELSE plan
              /\ log' = Retained(log, result.journal)
              /\ lost' = lost
    BY <1>7 DEF PreparePull
  <2> DEFINE r == prepare_pull(j, s, command)
  <2>2. command \in PullCommand
    BY <1>3, NodeAssumption, SessionAssumption, CapacityAssumption
       DEF PullCommands, PullCommand, Sequence
  <2>3. /\ j' = r.journal /\ s' = r.session
        /\ plan' = (IF r.decision \in Settleable THEN PlanOf(r) ELSE plan)
        /\ log' = Retained(log, r.journal) /\ lost' = lost
    BY <2>1
  <2> HIDE DEF r
  <2>4. ReleaseKeeps(j, j') BY <1>1, <2>2, <2>3, PreparePullKeeps DEF r
  <2>5. \/ /\ r.journal = j /\ r.session = s
           /\ r.decision \notin Settleable
        \/ /\ s.prepared_token = 0 /\ r.session = s
           /\ r.decision \notin Settleable
           /\ Undisturbed(j, r.journal)
        \/ /\ r.decision \in Settleable
           /\ r.session.prepared_end = r.view.end_sequence
           /\ Undisturbed(j, r.journal)
           /\ r.view.first_sequence \in
                r.view.first_sequence..(r.view.end_sequence - 1)
           /\ ReadMatches(r.journal, r.view, ReadSamples(r.journal, r.view))
    BY <1>1, <2>2, PullOutcome DEF r
  <2>6. Undisturbed(j, j') BY <2>3, <2>5, UndisturbedSelf
  <2>7. ContentExact(j', log') /\ LossesExact(j', lost')
    BY <2>3, <2>4, <2>6, ReleasedExact
  <2>8. PreparedViewIntact'
    <3>1. CASE r.journal = j /\ r.session = s /\ r.decision \notin Settleable
      <4>1. j' = j /\ s' = s /\ plan' = plan BY <2>3, <3>1
      <4>2. log' = log BY <1>0, <2>3, <3>1, RetainedSame
      <4> QED BY <1>1, <4>1, <4>2, IntactWhen
    <3>2. CASE s.prepared_token = 0 /\ r.session = s BY <2>3, <3>2, IntactWhen
    <3>3. CASE /\ r.decision \in Settleable
               /\ r.session.prepared_end = r.view.end_sequence
               /\ r.view.first_sequence \in
                    r.view.first_sequence..(r.view.end_sequence - 1)
               /\ ReadMatches(r.journal, r.view, ReadSamples(r.journal, r.view))
      <4>1. /\ plan'.view = r.view
            /\ plan'.samples = ReadSamples(j', r.view)
        BY <2>3, <3>3 DEF PlanOf, ViewSamples, ReadSamples
      <4>2. ViewMatches(j', log', r.view, ReadSamples(j', r.view))
        BY <2>3, <2>7, <3>3, MatchesSource
      <4>3. r.view.end_sequence = s'.prepared_end BY <2>3, <3>3
      <4> QED BY <4>1, <4>2, <4>3, IntactNext
    <3> QED BY <2>5, <3>1, <3>2, <3>3
  <2> QED BY <2>7, <2>8
<1>8. CASE Complete
  <2>1. PICK token : Settled(complete(j, s, token)) BY <1>8 DEF Complete
  <2>2. /\ JournalInv(complete(j, s, token).journal)
        /\ j.delivered <= complete(j, s, token).journal.delivered
    BY <1>1, CompleteKeeps
  <2>3. /\ SameStore(j, complete(j, s, token).journal)
        /\ \/ /\ complete(j, s, token).journal = j
              /\ complete(j, s, token).session = s
           \/ complete(j, s, token).session.prepared_token = 0
    BY <1>1, SettleOutcome
  <2> QED BY <2>1, <2>2, <2>3, SettledExact
<1>9. CASE Abort
  <2>1. PICK token : Settled(abort(j, s, token)) BY <1>9 DEF Abort
  <2>2. /\ JournalInv(abort(j, s, token).journal)
        /\ j.delivered <= abort(j, s, token).journal.delivered
    BY <1>1, AbortKeeps, JournalParts DEF ReadKeeps
  <2>3. /\ SameStore(j, abort(j, s, token).journal)
        /\ \/ /\ abort(j, s, token).journal = j
              /\ abort(j, s, token).session = s
           \/ abort(j, s, token).session.prepared_token = 0
    BY <1>1, SettleOutcome
  <2> QED BY <2>1, <2>2, <2>3, SettledExact
<1>10. CASE Release
  <2>1. PICK command \in [boot_epoch : {BootEpoch, OtherEpoch},
                          release_before : Sequence] :
          /\ j' = release(j, s, command).journal
          /\ log' = Retained(log, j') /\ s' = s /\ lost' = lost /\ plan' = plan
    BY <1>10 DEF Release
  <2>2. command.release_before \in Nat BY CapacityAssumption DEF Sequence
  <2>3. ReleaseKeeps(j, j') BY <1>1, <2>1, <2>2, ReleaseCommandKeeps
  <2>4. \/ j' = j
        \/ /\ s.prepared_token = 0
           /\ j' = release_before(j, command.release_before).journal
    BY <2>1 DEF release
  <2>5. Undisturbed(j, j') BY <1>1, <2>2, <2>4, UndisturbedSelf, ReleaseBeforeContent
  <2>6. ContentExact(j', log') /\ LossesExact(j', lost')
    BY <2>1, <2>3, <2>5, ReleasedExact
  <2>7. PreparedViewIntact'
    <3>1. CASE j' = j
      <4>1. log' = log BY <1>0, <2>1, <3>1, RetainedSame
      <4> QED BY <1>1, <2>1, <3>1, <4>1, IntactWhen
    <3>2. CASE s.prepared_token = 0 BY <2>1, <3>2, IntactWhen
    <3> QED BY <2>4, <3>1, <3>2
  <2> QED BY <2>6, <2>7
<1>11. CASE UNCHANGED vars BY <1>1, <1>11, IntactWhen DEF vars
<1> QED BY <1>4, <1>5, <1>6, <1>7, <1>8, <1>9, <1>10, <1>11 DEF Next

(* A read at any cursor with any limit tells what the source gave. *)
LEMMA ReadsAreFaithful == NodeInv /\ ContentExact(j, log) => ReadFaithful
<1> SUFFICES ASSUME NodeInv, ContentExact(j, log),
                    NEW from \in Sequence, NEW limit \in 1..MaxChunkSamples
             PROVE  LET shown == prepare_read(j, from, limit)
                    IN  IF from \in j.retained_from..(j.produced - 1)
                        THEN /\ shown.view.end_sequence \in (from + 1)..j.produced
                             /\ ViewMatchesSource(shown.view,
                                  ViewSamples(shown.journal, shown.view))
                        ELSE shown.view.status =
                               IF from < j.retained_from THEN "RangeUnavailable"
                               ELSE IF from = j.produced THEN "NoData"
                               ELSE "AheadOfProduced"
  BY DEF ReadFaithful
<1> DEFINE shown == prepare_read(j, from, limit)
<1>1. /\ JournalInv(j) /\ from \in Nat /\ limit \in Nat \ {0}
      /\ j.produced \in Nat
  BY JournalParts, SessionAssumption, CapacityAssumption DEF NodeInv, Sequence
<1>2. CASE from \in j.retained_from..(j.produced - 1)
  <2>1. /\ shown.view.first_sequence = from
        /\ shown.view.end_sequence \in (from + 1)..j.produced
        /\ ReadMatches(j, shown.view, ReadSamples(shown.journal, shown.view))
    BY <1>1, <1>2, ReadShows
  <2> HIDE DEF shown
  <2>2. shown.view.first_sequence \in
          shown.view.first_sequence..(shown.view.end_sequence - 1)
    BY <1>1, <2>1
  <2>3. ViewMatches(j, log, shown.view, ReadSamples(shown.journal, shown.view))
    BY <2>1, <2>2, MatchesSource
  <2>4. ViewSamples(shown.journal, shown.view) = ReadSamples(shown.journal, shown.view)
    BY DEF ViewSamples, ReadSamples
  <2>5. ViewMatchesSource(shown.view, ViewSamples(shown.journal, shown.view))
    BY <2>3, <2>4, ViewsOfState
  <2> QED BY <1>2, <2>1, <2>5 DEF shown
<1>3. CASE from \notin j.retained_from..(j.produced - 1) BY <1>1, <1>3, ReadRefuses
<1> QED BY <1>2, <1>3

(* measurement_journal.h, delivery_session.h: whatever the source appends,
   the host pulls, releases, completes or lets expire, and however often
   the ring wraps or overload collapses the retention, a read shows
   exactly what the source gave each sequence, an outstanding response
   still does, and every sequence that is gone was delivered or is counted
   as lost, sample by sample. *)
THEOREM DeliveryIsExact == Spec => []DeliveryExact
<1>1. Init => ExactInv BY ExactInit
<1>2. ExactInv /\ [Next]_vars => ExactInv' BY ExactNext
<1>3. ExactInv => DeliveryExact
  <2> SUFFICES ASSUME ExactInv PROVE DeliveryExact OBVIOUS
  <2>1. ReadFaithful BY ReadsAreFaithful DEF ExactInv
  <2>2. DiscardAccounted BY DEF ExactInv, LossesExact, DiscardAccounted
  <2> QED BY <2>1, <2>2 DEF ExactInv, DeliveryExact
<1> QED BY <1>1, <1>2, <1>3, PTL DEF Spec

------------------------
(* The cross-core queue, for every capacity that divides the cursors'
   modulus: its two owners never share a slot, and what the consumer takes
   is what the producer pushed, in order. *)

(* What the queue holds, as the distance of the cursors shows it. *)
Held == distance(write, read)

Cursors == 0..(CursorModulus - 1)

------------------------
(* Cursors that wrapped once are brought back by one subtraction. *)
LEMMA WrapsOnce ==
  ASSUME NEW a \in (-CursorModulus)..(2 * CursorModulus - 1)
  PROVE  (a % CursorModulus) = IF a < 0 THEN a + CursorModulus
                               ELSE IF a < CursorModulus THEN a
                               ELSE a - CursorModulus
<1>1. CursorModulus \in Nat \ {0} BY QueueAssumption
<1>2. CASE a < 0
  <2>1. a = CursorModulus * (-1) + (a + CursorModulus) BY <1>1, <1>2
  <2>2. (a + CursorModulus) \in 0..(CursorModulus - 1) BY <1>1, <1>2
  <2> QED BY <1>1, <1>2, <2>1, <2>2, Remainder
<1>3. CASE a >= 0 /\ a < CursorModulus
  <2>1. a = CursorModulus * 0 + a BY <1>1
  <2>2. a \in 0..(CursorModulus - 1) BY <1>1, <1>3
  <2> QED BY <1>1, <1>3, <2>1, <2>2, Remainder
<1>4. CASE a >= CursorModulus
  <2>1. a = CursorModulus * 1 + (a - CursorModulus) BY <1>1
  <2>2. (a - CursorModulus) \in 0..(CursorModulus - 1) BY <1>1, <1>4
  <2> QED BY <1>1, <1>4, <2>1, <2>2, Remainder
<1> QED BY <1>1, <1>2, <1>3, <1>4

(* The slot of a number does not change when the cursor wraps, because the
   capacity divides the modulus. *)
LEMMA SlotOfWrap ==
  ASSUME NEW a \in Int
  PROVE  ((a - CursorModulus) % Capacity) = (a % Capacity)
<1>1. Capacity \in Nat \ {0} /\ CursorModulus \in Int BY QueueAssumption
<1>2. PICK k \in Int : CursorModulus = Capacity * k
  <2>1. PICK k \in Int : CursorModulus = Capacity * k + (CursorModulus % Capacity)
    BY <1>1, Division
  <2> QED BY <1>1, <2>1, QueueAssumption
<1>3. PICK q \in Int : a = Capacity * q + (a % Capacity) BY <1>1, Division
<1>4. (a % Capacity) \in 0..(Capacity - 1) BY <1>1, Division
<1>5. a - CursorModulus = Capacity * (q - k) + (a % Capacity)
  <2>1. Capacity * (q - k) = Capacity * q - Capacity * k BY <1>1
  <2> QED BY <1>1, <1>2, <1>3, <1>4, <2>1
<1>6. q - k \in Int OBVIOUS
<1> QED BY <1>1, <1>4, <1>5, <1>6, Remainder

(* Two numbers less than a capacity apart have different slots. *)
LEMMA NearSlotsDiffer ==
  ASSUME NEW a \in Int, NEW b \in Int, a < b, b - a < Capacity
  PROVE  (a % Capacity) # (b % Capacity)
<1>1. Capacity \in Nat \ {0} BY QueueAssumption
<1>2. PICK p \in Int : a = Capacity * p + (a % Capacity) BY <1>1, Division
<1>3. PICK q \in Int : b = Capacity * q + (b % Capacity) BY <1>1, Division
<1>4. (a % Capacity) \in Int /\ (b % Capacity) \in Int BY <1>1, Division
<1>5. SUFFICES ASSUME (a % Capacity) = (b % Capacity) PROVE FALSE OBVIOUS
<1>6. b - a = Capacity * (q - p)
  <2>1. Capacity * (q - p) = Capacity * q - Capacity * p BY <1>1
  <2> QED BY <1>1, <1>2, <1>3, <1>4, <1>5, <2>1
<1>7. CASE q - p >= 1
  <2>1. Capacity * (q - p) >= Capacity BY <1>1, <1>7, SMTT(30)
  <2> QED BY <1>1, <1>6, <2>1
<1>8. CASE q - p <= 0
  <2>1. Capacity * (q - p) <= 0 BY <1>1, <1>8, SMTT(30)
  <2> QED BY <1>1, <1>6, <2>1
<1> QED BY <1>7, <1>8

------------------------
(* A slot is an index of the ring. *)
LEMMA SlotIsIndex ==
  ASSUME NEW a \in Int
  PROVE  (a % Capacity) \in 0..(Capacity - 1)
  BY QueueAssumption, Division

(* The slot at an offset behind the read cursor, before and after wrapping. *)
LEMMA OffsetSlot ==
  ASSUME NEW r \in Cursors, NEW m \in 0..Capacity
  PROVE  slot((r + m) % CursorModulus) = (r + m) % Capacity
<1>1. /\ Capacity \in Nat \ {0} /\ CursorModulus \in Nat
      /\ 2 * Capacity <= CursorModulus
  BY QueueAssumption
<1>2. r + m \in (-CursorModulus)..(2 * CursorModulus - 1) /\ r + m >= 0
  BY <1>1 DEF Cursors
<1>3. ((r + m) % CursorModulus) \in {r + m, (r + m) - CursorModulus}
  BY <1>1, <1>2, WrapsOnce
<1>4. (((r + m) - CursorModulus) % Capacity) = ((r + m) % Capacity) BY <1>2, SlotOfWrap
<1> QED BY <1>3, <1>4 DEF slot

(* Distance and advance of cursors as plain arithmetic. *)
LEMMA CursorArithmetic ==
  ASSUME NEW w \in Cursors, NEW r \in Cursors
  PROVE  /\ distance(w, r) = IF w < r THEN (w - r) + CursorModulus ELSE w - r
         /\ distance(w, r) \in Cursors
         /\ advance(r) = IF r = CursorModulus - 1 THEN 0 ELSE r + 1
         /\ advance(r) \in Cursors
<1>1. CursorModulus \in Nat /\ CursorModulus >= 2 BY QueueAssumption
<1>2. w - r \in (-CursorModulus)..(2 * CursorModulus - 1) BY <1>1 DEF Cursors
<1>3. r + 1 \in (-CursorModulus)..(2 * CursorModulus - 1) BY <1>1 DEF Cursors
<1>4. distance(w, r) = IF w < r THEN (w - r) + CursorModulus ELSE w - r
  BY <1>1, <1>2, WrapsOnce DEF Cursors, distance
<1>5. advance(r) = IF r = CursorModulus - 1 THEN 0 ELSE r + 1
  BY <1>1, <1>3, WrapsOnce DEF Cursors, advance
<1> QED BY <1>1, <1>4, <1>5 DEF Cursors

(* The write cursor's slot is the one the held values end before. *)
LEMMA WriteFollowsHeld ==
  ASSUME NEW w \in Cursors, NEW r \in Cursors
  PROVE  slot(w) = (r + distance(w, r)) % Capacity
<1>1. CursorModulus \in Nat BY QueueAssumption
<1>2. CASE w < r
  <2>1. r + distance(w, r) \in Int /\ w = (r + distance(w, r)) - CursorModulus
    BY <1>1, <1>2, CursorArithmetic DEF Cursors
  <2> QED BY <2>1, SlotOfWrap DEF slot
<1>3. CASE ~(w < r)
  <2>1. w = r + distance(w, r) BY <1>1, <1>3, CursorArithmetic DEF Cursors
  <2> QED BY <2>1 DEF slot
<1> QED BY <1>2, <1>3

(* A store of the write cursor makes one more value visible. *)
LEMMA StoreGrows ==
  ASSUME NEW w \in Cursors, NEW r \in Cursors, distance(w, r) < Capacity
  PROVE  distance(advance(w), r) = distance(w, r) + 1
<1>1. /\ Capacity \in Nat \ {0} /\ CursorModulus \in Nat
      /\ 2 * Capacity <= CursorModulus
  BY QueueAssumption
<1>2. /\ advance(w) \in Cursors
      /\ advance(w) = IF w = CursorModulus - 1 THEN 0 ELSE w + 1
  BY CursorArithmetic
<1>3. distance(w, r) = IF w < r THEN (w - r) + CursorModulus ELSE w - r
  BY CursorArithmetic
<1>4. distance(advance(w), r) =
        IF advance(w) < r THEN (advance(w) - r) + CursorModulus ELSE advance(w) - r
  BY <1>2, CursorArithmetic
<1> QED BY <1>1, <1>2, <1>3, <1>4 DEF Cursors

(* A store of the read cursor takes one value away. *)
LEMMA StoreShrinks ==
  ASSUME NEW w \in Cursors, NEW r \in Cursors, w # r
  PROVE  /\ distance(w, advance(r)) = distance(w, r) - 1
         /\ distance(w, r) >= 1
<1>1. /\ Capacity \in Nat \ {0} /\ CursorModulus \in Nat
      /\ 2 * Capacity <= CursorModulus
  BY QueueAssumption
<1>2. /\ advance(r) \in Cursors
      /\ advance(r) = IF r = CursorModulus - 1 THEN 0 ELSE r + 1
  BY CursorArithmetic
<1>3. distance(w, r) = IF w < r THEN (w - r) + CursorModulus ELSE w - r
  BY CursorArithmetic
<1>4. distance(w, advance(r)) =
        IF w < advance(r) THEN (w - advance(r)) + CursorModulus ELSE w - advance(r)
  BY <1>2, CursorArithmetic
<1> QED BY <1>1, <1>2, <1>3, <1>4 DEF Cursors

------------------------
(* The inductive invariant, in parts.  The types of the variables. *)
QueueTypes ==
  /\ slots \in [0..(Capacity - 1) -> Values \cup {NoValue, Torn}]
  /\ write \in Cursors
  /\ read \in Cursors
  /\ producer \in [at : {"idle", "write", "store"}, value : Values \cup {NoValue}]
  /\ consumer \in [at : {"idle", "front", "used"},
                    value : Values \cup {NoValue, Torn}]

(* What the loads showed stays true until the store: only the owner of a
   cursor moves it, and the other cursor only moves away. *)
LoadsStayTrue ==
  /\ Held <= Capacity
  /\ producer.at # "idle" => Held < Capacity /\ producer.value \in Values
  /\ consumer.at # "idle" => read # write

(* Every value behind the read cursor is whole, and the copies agree. *)
HeldWhole ==
  /\ \A m \in 0..(Held - 1) : slots[(read + m) % Capacity] \in Values
  /\ producer.at = "store" => slots[slot(write)] = producer.value
  /\ consumer.at = "used" => consumer.value = slots[slot(read)]

QueueInv == QueueTypes /\ LoadsStayTrue /\ HeldWhole

(* An empty ring satisfies the invariant. *)
LEMMA InitHolds == QueueInit => QueueInv
<1> SUFFICES ASSUME QueueInit PROVE QueueInv OBVIOUS
<1> USE QueueAssumption DEF QueueInit
<1>1. QueueTypes BY DEF QueueTypes, Cursors, Idle
<1>2. Held = 0 BY <1>1, CursorArithmetic DEF Held, QueueTypes
<1>3. LoadsStayTrue BY <1>2 DEF LoadsStayTrue, Idle
<1>4. HeldWhole BY <1>2 DEF HeldWhole, Idle
<1> QED BY <1>1, <1>3, <1>4 DEF QueueInv

(* The two owners are in different slots while both are at work. *)
LEMMA OwnersApart ==
  ASSUME QueueInv, producer.at # "idle", read # write
  PROVE  /\ Held \in Int /\ 1 <= Held /\ Held < Capacity
         /\ slot(write) = (read + Held) % Capacity
         /\ slot(write) # slot(read)
         /\ \A m \in 0..(Held - 1) : slot(write) # (read + m) % Capacity
<1>1. /\ read \in Cursors /\ write \in Cursors /\ Held < Capacity
      /\ Capacity \in Nat
  BY QueueAssumption DEF QueueInv, QueueTypes, LoadsStayTrue
<1>2. Held \in Int /\ read \in Int
  BY <1>1, QueueAssumption, CursorArithmetic DEF Held, Cursors
<1>3. 1 <= Held BY <1>1, StoreShrinks DEF Held
<1>4. slot(write) = (read + Held) % Capacity BY <1>1, WriteFollowsHeld DEF Held
<1>5. ASSUME NEW m \in 0..(Held - 1)
      PROVE  slot(write) # (read + m) % Capacity
  <2>1. read + m \in Int /\ read + Held \in Int /\ read + m < read + Held
        /\ (read + Held) - (read + m) < Capacity
    BY <1>1, <1>2
  <2> QED BY <1>4, <2>1, NearSlotsDiffer
<1>6. slot(write) # slot(read)
  <2>1. read = read + 0 /\ 0 \in 0..(Held - 1) BY <1>2, <1>3
  <2> QED BY <1>5, <2>1 DEF slot
<1> QED BY <1>1, <1>2, <1>3, <1>4, <1>5, <1>6

(* The producer's slot lies behind every held value. *)
LEMMA ProducerBehind ==
  ASSUME QueueInv, producer.at # "idle"
  PROVE  /\ Held \in Nat /\ Held < Capacity
         /\ slot(write) = (read + Held) % Capacity
         /\ \A m \in 0..(Held - 1) : slot(write) # (read + m) % Capacity
<1>1. /\ read \in Cursors /\ write \in Cursors /\ Held < Capacity
  BY DEF QueueInv, QueueTypes, LoadsStayTrue
<1>2. Held \in Nat BY <1>1, QueueAssumption, CursorArithmetic DEF Held, Cursors
<1>3. slot(write) = (read + Held) % Capacity BY <1>1, WriteFollowsHeld DEF Held
<1>4. CASE read = write
  <2>1. Held = 0 BY <1>1, <1>4, QueueAssumption, CursorArithmetic DEF Held, Cursors
  <2> QED BY <1>1, <1>2, <1>3, <2>1
<1>5. CASE read # write BY <1>1, <1>2, <1>3, <1>5, OwnersApart
<1> QED BY <1>4, <1>5

(* Every step of either owner keeps it. *)
LEMMA StepHolds == QueueInv /\ [QueueNext]_queueVars => QueueInv'
<1> SUFFICES ASSUME QueueInv, [QueueNext]_queueVars PROVE QueueInv' OBVIOUS
<1>1. /\ Capacity \in Nat \ {0} /\ CursorModulus \in Nat
      /\ NoValue \notin Values /\ Torn \notin Values /\ Torn # NoValue
  BY QueueAssumption
<1>2. /\ read \in Cursors /\ write \in Cursors /\ read \in Int /\ write \in Int
  BY <1>1 DEF QueueInv, QueueTypes, Cursors
<1>3. Held \in Nat BY <1>1, <1>2, CursorArithmetic DEF Held, Cursors
<1>4. slot(read) \in 0..(Capacity - 1) /\ slot(write) \in 0..(Capacity - 1)
  BY <1>2, SlotIsIndex DEF slot
<1>5. CASE TryPush
  <2>1. QueueTypes' BY <1>5 DEF TryPush, QueueInv, QueueTypes
  <2>2. LoadsStayTrue'
    BY <1>1, <1>3, <1>5 DEF TryPush, has_room, QueueInv, LoadsStayTrue, Held
  <2>3. HeldWhole' BY <1>5 DEF TryPush, QueueInv, HeldWhole, Held
  <2> QED BY <2>1, <2>2, <2>3 DEF QueueInv
<1>6. CASE WriteSlot
  <2>1. producer.at # "idle" /\ producer.value \in Values
    BY <1>6 DEF WriteSlot, QueueInv, LoadsStayTrue
  <2>2. /\ UNCHANGED <<write, read, consumer>>
        /\ producer'.at \in {"write", "store"} /\ producer'.value = producer.value
    BY <1>6 DEF WriteSlot, QueueInv, QueueTypes
  <2>3. QueueTypes' BY <1>4, <1>6, <2>1 DEF WriteSlot, QueueInv, QueueTypes
  <2>4. Held' = Held BY <2>2 DEF Held
  <2>5. LoadsStayTrue' BY <2>1, <2>2, <2>4 DEF QueueInv, LoadsStayTrue
  <2>6. \A i \in 0..(Capacity - 1) : i # slot(write) => slots'[i] = slots[i]
    BY <1>6 DEF WriteSlot, QueueInv, QueueTypes
  <2>7. \A m \in 0..(Held - 1) : slots'[(read + m) % Capacity] \in Values
    <3>1. SUFFICES ASSUME NEW m \in 0..(Held - 1)
                   PROVE  slots'[(read + m) % Capacity] \in Values
      OBVIOUS
    <3>2. (read + m) % Capacity \in 0..(Capacity - 1) BY <1>2, <1>3, SlotIsIndex
    <3>3. slot(write) # (read + m) % Capacity BY <2>1, ProducerBehind
    <3> QED BY <2>6, <3>2, <3>3 DEF QueueInv, HeldWhole
  <2>8. producer'.at = "store" => slots'[slot(write)] = producer'.value
    BY <1>4, <1>6 DEF WriteSlot, QueueInv, QueueTypes
  <2>9. consumer.at = "used" => consumer.value = slots'[slot(read)]
    <3>1. SUFFICES ASSUME consumer.at = "used"
                   PROVE  consumer.value = slots'[slot(read)]
      OBVIOUS
    <3>2. read # write BY <3>1 DEF QueueInv, LoadsStayTrue
    <3>3. slot(write) # slot(read) BY <2>1, <3>2, OwnersApart
    <3> QED BY <1>4, <2>6, <3>1, <3>3 DEF QueueInv, HeldWhole
  <2>10. HeldWhole' BY <2>2, <2>4, <2>7, <2>8, <2>9 DEF HeldWhole, slot
  <2> QED BY <2>3, <2>5, <2>10 DEF QueueInv
<1>7. CASE StoreWrite
  <2>1. producer.at = "store" /\ Held < Capacity /\ producer.value \in Values
    BY <1>7 DEF StoreWrite, QueueInv, LoadsStayTrue
  <2>2. /\ UNCHANGED <<slots, read, consumer>> /\ write' = advance(write)
        /\ producer' = Idle
    BY <1>7 DEF StoreWrite
  <2>3. Held' = Held + 1 BY <1>2, <2>1, <2>2, StoreGrows DEF Held
  <2>4. QueueTypes' BY <1>2, <2>2, CursorArithmetic DEF QueueInv, QueueTypes, Idle
  <2>5. read # write'
    <3>1. write' \in Cursors BY <2>4 DEF QueueTypes
    <3>2. SUFFICES ASSUME read = write' PROVE FALSE OBVIOUS
    <3>3. distance(write', read) = 0
      BY <1>1, <1>2, <3>1, <3>2, CursorArithmetic DEF Cursors
    <3>4. Held' = 0 BY <2>2, <3>3 DEF Held
    <3> QED BY <1>3, <2>3, <3>4
  <2>6. LoadsStayTrue' BY <1>1, <1>3, <2>1, <2>2, <2>3, <2>5 DEF LoadsStayTrue, Idle
  <2>7. slots[(read + Held) % Capacity] \in Values
    BY <1>2, <2>1, WriteFollowsHeld DEF QueueInv, HeldWhole, Held
  <2>8. \A m \in 0..Held : slots[(read + m) % Capacity] \in Values
    BY <1>3, <2>7 DEF QueueInv, HeldWhole
  <2>9. HeldWhole' BY <1>3, <2>2, <2>3, <2>8 DEF QueueInv, HeldWhole, Idle
  <2> QED BY <2>4, <2>6, <2>9 DEF QueueInv
<1>8. CASE TryFront
  <2>1. QueueTypes' BY <1>8 DEF TryFront, QueueInv, QueueTypes
  <2>2. LoadsStayTrue' BY <1>8 DEF TryFront, QueueInv, LoadsStayTrue, Held
  <2>3. HeldWhole' BY <1>8 DEF TryFront, QueueInv, HeldWhole, Held
  <2> QED BY <2>1, <2>2, <2>3 DEF QueueInv
<1>9. CASE UseFront
  <2>1. QueueTypes' BY <1>4, <1>9 DEF UseFront, QueueInv, QueueTypes
  <2>2. LoadsStayTrue' BY <1>9 DEF UseFront, QueueInv, LoadsStayTrue, Held
  <2>3. HeldWhole' BY <1>9 DEF UseFront, QueueInv, HeldWhole, Held
  <2> QED BY <2>1, <2>2, <2>3 DEF QueueInv
<1>10. CASE PopFront
  <2>1. read # write /\ consumer.at = "used"
    BY <1>10 DEF PopFront, QueueInv, LoadsStayTrue
  <2>2. /\ UNCHANGED <<slots, write, producer>> /\ read' = advance(read)
        /\ consumer' = Idle
    BY <1>10, <2>1 DEF PopFront
  <2>3. Held' = Held - 1 /\ Held >= 1 BY <1>2, <2>1, <2>2, StoreShrinks DEF Held
  <2>4. QueueTypes' BY <1>2, <2>2, CursorArithmetic DEF QueueInv, QueueTypes, Idle
  <2>5. LoadsStayTrue' BY <1>1, <1>3, <2>2, <2>3 DEF QueueInv, LoadsStayTrue, Idle
  <2>6. \A m \in 0..(Held - 2) : slots[(read' + m) % Capacity] \in Values
    <3>1. SUFFICES ASSUME NEW m \in 0..(Held - 2)
                   PROVE  slots[(read' + m) % Capacity] \in Values
      OBVIOUS
    <3>2. m + 1 \in 0..(Held - 1) /\ read + (m + 1) \in Int BY <1>2, <1>3
    <3>3. (read' + m) % Capacity = (read + (m + 1)) % Capacity
      <4>1. read' = IF read = CursorModulus - 1 THEN 0 ELSE read + 1
        BY <1>2, <2>2, CursorArithmetic
      <4>2. CASE read = CursorModulus - 1
        <5>1. read' + m = (read + (m + 1)) - CursorModulus BY <1>1, <1>3, <4>1, <4>2
        <5> QED BY <3>2, <5>1, SlotOfWrap
      <4>3. CASE read # CursorModulus - 1
        <5>1. read' + m = read + (m + 1) BY <1>2, <1>3, <4>1, <4>3
        <5> QED BY <5>1
      <4> QED BY <4>2, <4>3
    <3> QED BY <3>2, <3>3 DEF QueueInv, HeldWhole
  <2>7. HeldWhole' BY <1>3, <2>2, <2>3, <2>6 DEF QueueInv, HeldWhole, Idle
  <2> QED BY <2>4, <2>5, <2>7 DEF QueueInv
<1>11. CASE UNCHANGED queueVars
  BY <1>11 DEF queueVars, QueueInv, QueueTypes, LoadsStayTrue, HeldWhole, Held
<1> QED BY <1>5, <1>6, <1>7, <1>8, <1>9, <1>10, <1>11 DEF QueueNext

------------------------
(* The invariant holds in every reachable state. *)
LEMMA QueueInvariant == QueueSpec => []QueueInv
<1>1. QueueInit => QueueInv BY InitHolds
<1>2. QueueInv /\ [QueueNext]_queueVars => QueueInv' BY StepHolds
<1> QED BY <1>1, <1>2, PTL DEF QueueSpec

(* For every capacity the queue keeps its types, and the distance of its
   cursors never exceeds its slots although both cursors wrap. *)
THEOREM QueueTypeCorrect == QueueSpec => []QueueTypeOK
<1>1. QueueInv => QueueTypeOK
  BY DEF QueueInv, QueueTypes, LoadsStayTrue, Held, Cursors, QueueTypeOK
<1> QED BY <1>1, QueueInvariant, PTL

(* For every capacity the producer never fills the slot that the consumer
   holds a pointer to: no data race on a slot, whatever the interleaving. *)
THEOREM OwnersNeverShareASlot == QueueSpec => []NoSlotRace
<1>1. QueueInv => NoSlotRace
  <2>1. SUFFICES ASSUME QueueInv, producer.at \in {"write", "store"},
                        consumer.at # "idle"
                 PROVE  slot(write) # slot(read)
    BY DEF NoSlotRace
  <2>2. read # write BY <2>1 DEF QueueInv, LoadsStayTrue
  <2> QED BY <2>1, <2>2, OwnersApart
<1> QED BY <1>1, QueueInvariant, PTL

------------------------
(* The sequence the ring stands for. *)
Queued == [k \in 1..Held |-> slots[slot((read + k - 1) % CursorModulus)]]

QueuedIsHeld ==
  /\ Queued \in Seq(Values)
  /\ Len(Queued) = Held
  /\ Held \in Nat
  /\ \A k \in 1..Held : Queued[k] = slots[(read + (k - 1)) % Capacity]

(* It holds whole values, and wraps where the ring wraps. *)
LEMMA QueuedShape == QueueInv => QueuedIsHeld
<1> SUFFICES ASSUME QueueInv PROVE QueuedIsHeld OBVIOUS
<1>1. /\ read \in Cursors /\ write \in Cursors /\ Held <= Capacity
      /\ Capacity \in Nat \ {0} /\ CursorModulus \in Nat
  BY QueueAssumption DEF QueueInv, QueueTypes, LoadsStayTrue
<1>2. Held \in Nat BY <1>1, CursorArithmetic DEF Held, Cursors
<1>3. ASSUME NEW k \in 1..Held
      PROVE  /\ Queued[k] = slots[(read + (k - 1)) % Capacity]
             /\ Queued[k] \in Values
  <2>1. k - 1 \in 0..Capacity /\ k - 1 \in 0..(Held - 1)
        /\ read + k - 1 = read + (k - 1)
    BY <1>1, <1>2 DEF Cursors
  <2>2. slot((read + (k - 1)) % CursorModulus) = (read + (k - 1)) % Capacity
    BY <1>1, <2>1, OffsetSlot
  <2>3. Queued[k] = slots[slot((read + k - 1) % CursorModulus)] BY DEF Queued
  <2> QED BY <2>1, <2>2, <2>3 DEF QueueInv, HeldWhole
<1>4. Queued \in [1..Held -> Values] BY <1>3 DEF Queued
<1> QED BY <1>2, <1>3, <1>4 DEF QueuedIsHeld

(* The same after a step. *)
LEMMA QueuedShapeAfter == QueueInv' => QueuedIsHeld'
  BY QueuedShape, PTL

(* Storing the write cursor appends the producer's value. *)
LEMMA StoreAppends ==
  ASSUME QueueInv, QueueInv', StoreWrite
  PROVE  /\ Queued' = Append(Queued, producer.value)
         /\ Len(Queued) < Capacity /\ producer.value \in Values
<1>1. producer.at = "store" /\ Held < Capacity /\ producer.value \in Values
  BY DEF StoreWrite, QueueInv, LoadsStayTrue
<1>2. UNCHANGED <<slots, read>> /\ write' = advance(write) BY DEF StoreWrite
<1>3. read \in Cursors /\ write \in Cursors BY DEF QueueInv, QueueTypes
<1>4. Held' = Held + 1 BY <1>1, <1>2, <1>3, StoreGrows DEF Held
<1>5. /\ Queued \in Seq(Values) /\ Len(Queued) = Held /\ Held \in Nat
      /\ \A k \in 1..Held : Queued[k] = slots[(read + (k - 1)) % Capacity]
  BY QueuedShape DEF QueuedIsHeld
<1>6. /\ Queued' \in Seq(Values) /\ Len(Queued') = Held'
      /\ \A k \in 1..Held' : Queued'[k] = slots[(read + (k - 1)) % Capacity]
  <2>1. /\ Queued' \in Seq(Values) /\ Len(Queued') = Held'
        /\ \A k \in 1..Held' : Queued'[k] = slots'[(read' + (k - 1)) % Capacity]
    BY QueuedShapeAfter DEF QueuedIsHeld
  <2> QED BY <1>2, <2>1
<1>7. Queued'[Held + 1] = producer.value
  <2>1. (Held + 1) - 1 = Held /\ Held + 1 \in 1..Held' BY <1>4, <1>5
  <2>2. Queued'[Held + 1] = slots[(read + Held) % Capacity] BY <1>6, <2>1
  <2>3. slots[slot(write)] = producer.value BY <1>1 DEF QueueInv, HeldWhole
  <2> QED BY <1>3, <2>2, <2>3, WriteFollowsHeld DEF Held
<1>8. \A k \in 1..(Held + 1) : Queued'[k] = Append(Queued, producer.value)[k]
  BY <1>1, <1>4, <1>5, <1>6, <1>7
<1>9. /\ Append(Queued, producer.value) \in Seq(Values)
      /\ Len(Append(Queued, producer.value)) = Held + 1
  BY <1>1, <1>5
<1> QED BY <1>1, <1>4, <1>5, <1>6, <1>8, <1>9

(* Storing the read cursor takes the oldest value. *)
LEMMA StoreTakes ==
  ASSUME QueueInv, QueueInv', PopFront
  PROVE  Queued # << >> /\ taken' = Head(Queued) /\ Queued' = Tail(Queued)
<1>1. consumer.at = "used" /\ read # write /\ consumer.value = slots[slot(read)]
  BY DEF PopFront, QueueInv, LoadsStayTrue, HeldWhole
<1>2. /\ UNCHANGED <<slots, write>> /\ read' = advance(read)
      /\ taken' = consumer.value
  BY <1>1 DEF PopFront
<1>3. /\ read \in Cursors /\ write \in Cursors /\ read \in Int
      /\ CursorModulus \in Nat
  BY QueueAssumption DEF QueueInv, QueueTypes, Cursors
<1>4. Held' = Held - 1 /\ Held >= 1 BY <1>1, <1>2, <1>3, StoreShrinks DEF Held
<1>5. /\ Queued \in Seq(Values) /\ Len(Queued) = Held /\ Held \in Nat
      /\ \A k \in 1..Held : Queued[k] = slots[(read + (k - 1)) % Capacity]
  BY QueuedShape DEF QueuedIsHeld
<1>6. /\ Queued' \in Seq(Values) /\ Len(Queued') = Held'
      /\ \A k \in 1..Held' : Queued'[k] = slots[(read' + (k - 1)) % Capacity]
  <2>1. /\ Queued' \in Seq(Values) /\ Len(Queued') = Held'
        /\ \A k \in 1..Held' : Queued'[k] = slots'[(read' + (k - 1)) % Capacity]
    BY QueuedShapeAfter DEF QueuedIsHeld
  <2> QED BY <1>2, <2>1
<1>7. Queued # << >> /\ taken' = Head(Queued)
  <2>1. 1 \in 1..Held /\ read + (1 - 1) = read BY <1>3, <1>4, <1>5
  <2>2. Queued[1] = slots[slot(read)] BY <1>5, <2>1 DEF slot
  <2> QED BY <1>1, <1>2, <1>4, <1>5, <2>2
<1>8. ASSUME NEW k \in 1..(Held - 1)
      PROVE  Queued'[k] = Queued[k + 1]
  <2>1. /\ k \in 1..Held' /\ k + 1 \in 1..Held /\ (k + 1) - 1 = k
        /\ read + k \in Int
    BY <1>3, <1>4, <1>5
  <2>2. (read' + (k - 1)) % Capacity = (read + k) % Capacity
    <3>1. read' = IF read = CursorModulus - 1 THEN 0 ELSE read + 1
      BY <1>2, <1>3, CursorArithmetic
    <3>2. CASE read = CursorModulus - 1
      <4>1. read' + (k - 1) = (read + k) - CursorModulus BY <1>3, <1>5, <3>1, <3>2
      <4> QED BY <2>1, <4>1, SlotOfWrap
    <3>3. CASE read # CursorModulus - 1
      <4>1. read' + (k - 1) = read + k BY <1>3, <1>5, <3>1, <3>3
      <4> QED BY <4>1
    <3> QED BY <3>2, <3>3
  <2> QED BY <1>5, <1>6, <2>1, <2>2
<1>9. Queued' = Tail(Queued)
  <2>1. /\ Tail(Queued) \in Seq(Values) /\ Len(Tail(Queued)) = Held - 1
        /\ \A k \in 1..(Held - 1) : Tail(Queued)[k] = Queued[k + 1]
    BY <1>4, <1>5, <1>7
  <2> QED BY <1>4, <1>5, <1>6, <1>8, <2>1
<1> QED BY <1>7, <1>9

(* No other step changes what the ring stands for. *)
LEMMA OthersStutter ==
  ASSUME QueueInv, QueueInv',
         TryPush \/ WriteSlot \/ TryFront \/ UseFront \/ UNCHANGED queueVars
  PROVE  Queued' = Queued /\ taken' = taken
<1>1. UNCHANGED <<read, write, taken>>
  BY DEF TryPush, WriteSlot, TryFront, UseFront, queueVars
<1>2. Held' = Held BY <1>1 DEF Held
<1>3. CASE WriteSlot
  <2>1. producer.at # "idle" BY <1>3 DEF WriteSlot
  <2>2. /\ Held \in Nat
        /\ \A m \in 0..(Held - 1) : slot(write) # (read + m) % Capacity
    BY <2>1, ProducerBehind
  <2>3. /\ Queued \in Seq(Values) /\ Len(Queued) = Held
        /\ \A k \in 1..Held : Queued[k] = slots[(read + (k - 1)) % Capacity]
    BY QueuedShape DEF QueuedIsHeld
  <2>4. /\ Queued' \in Seq(Values) /\ Len(Queued') = Held
        /\ \A k \in 1..Held : Queued'[k] = slots'[(read + (k - 1)) % Capacity]
    <3>1. /\ Queued' \in Seq(Values) /\ Len(Queued') = Held'
          /\ \A k \in 1..Held' : Queued'[k] = slots'[(read' + (k - 1)) % Capacity]
      BY QueuedShapeAfter DEF QueuedIsHeld
    <3> QED BY <1>1, <1>2, <3>1
  <2>5. read \in Int BY QueueAssumption DEF QueueInv, QueueTypes, Cursors
  <2>6. ASSUME NEW k \in 1..Held
        PROVE  slots'[(read + (k - 1)) % Capacity] = slots[(read + (k - 1)) % Capacity]
    <3>1. k - 1 \in 0..(Held - 1) /\ read + (k - 1) \in Int BY <2>2, <2>5
    <3>2. (read + (k - 1)) % Capacity \in 0..(Capacity - 1) BY <3>1, SlotIsIndex
    <3>3. slot(write) # (read + (k - 1)) % Capacity BY <2>2, <3>1
    <3> QED BY <1>3, <3>2, <3>3 DEF WriteSlot, QueueInv, QueueTypes
  <2> QED BY <1>1, <2>2, <2>3, <2>4, <2>6
<1>4. CASE ~WriteSlot
  <2>1. slots' = slots BY <1>4 DEF TryPush, TryFront, UseFront, queueVars
  <2> QED BY <1>1, <1>2, <2>1 DEF Queued
<1> QED BY <1>3, <1>4

(* For every capacity and modulus the queue is a bounded FIFO: no value is
   lost, repeated, reordered or torn between the two cores. *)
THEOREM QueueIsFifo == QueueSpec => ImplementsFifo
<1>1. QueueInit => Fifo!Init
  <2>1. SUFFICES ASSUME QueueInit PROVE Queued = << >> /\ taken = NoValue
    BY DEF Fifo!Init, Queued, Held
  <2>2. Len(Queued) = Held /\ Queued \in Seq(Values)
    BY <2>1, InitHolds, QueuedShape DEF QueuedIsHeld
  <2>3. 0 \in Cursors BY QueueAssumption DEF Cursors
  <2>4. Held = 0 BY <2>1, <2>3, CursorArithmetic DEF QueueInit, Held
  <2> QED BY <2>1, <2>2, <2>4 DEF QueueInit
<1>2. QueueInv /\ QueueInv' /\ [QueueNext]_queueVars
        => [Fifo!Push \/ Fifo!Pop]_<<Queued, taken>>
  <2> SUFFICES ASSUME QueueInv, QueueInv', [QueueNext]_queueVars
               PROVE  [Fifo!Push \/ Fifo!Pop]_<<Queued, taken>>
    OBVIOUS
  <2>1. CASE StoreWrite
    <3>1. taken' = taken BY <2>1 DEF StoreWrite
    <3>2. Fifo!Push BY <2>1, <3>1, StoreAppends DEF Fifo!Push, Queued, Held
    <3> QED BY <3>2
  <2>2. CASE PopFront
    <3>1. Fifo!Pop BY <2>2, StoreTakes DEF Fifo!Pop, Queued, Held
    <3> QED BY <3>1
  <2>3. CASE TryPush \/ WriteSlot \/ TryFront \/ UseFront \/ UNCHANGED queueVars
    BY <2>3, OthersStutter
  <2> QED BY <2>1, <2>2, <2>3 DEF QueueNext
<1>3. QueueSpec => []QueueInv BY QueueInvariant
<1> QED BY <1>1, <1>2, <1>3, PTL DEF QueueSpec, ImplementsFifo, Fifo!Spec, Queued, Held
=============================================================================
