-------------------------- MODULE DeliverySession --------------------------
(* The rules by which the node exposes one journal to its host
   (node/measurement/delivery_session.h): at most one prepared chunk, held
   by a token until the transport settles it.  A session is a record; each
   method is an operator on the journal `j' and the session `s'. *)
EXTENDS MeasurementJournal

CONSTANTS
  MaxChunkSamples,      \* samples in one response
  TokenModulus          \* 2^64 of the uint64_t token counter

ASSUME SessionAssumption ==
  /\ MaxChunkSamples \in Nat \ {0}
  /\ TokenModulus \in Nat \ {0, 1}

NewSession(epoch) ==
  [boot_epoch |-> epoch, next_token |-> 1, prepared_token |-> 0,
   prepared_end |-> 0]

clear_prepared_state(s) == [s EXCEPT !.prepared_token = 0, !.prepared_end = 0]

(* Hand out the next token for the range that ends at `end'. *)
take_token(s, end) ==
  [s EXCEPT !.prepared_token = s.next_token,
            !.next_token = (@ + 1) % TokenModulus,
            !.prepared_end = end]

(* The decision for a view that must be settled later, or none. *)
view_decision(j, view) ==
  CASE view.status = "NoData" -> "NoData"
    [] view.status = "RangeUnavailable" -> "RangeUnavailable"
    [] view.status = "AheadOfProduced" -> "CursorAhead"
    [] view.status = "Gap" -> "Gap"
    [] view.status = "ContinuityBreak" -> "ContinuityBreak"
    [] view.status = "Samples" /\ summarize_timing(j, view) = "Ok"
         -> "SampleChunk"
    [] OTHER -> "InternalError"

Settleable == {"SampleChunk", "Gap", "ContinuityBreak"}

(* prepare_pull: [decision, view, journal, session].  The response's state
   fields are those of the journal returned, its chunk, gap or break those
   of the view; a plan without a view carries NoView. *)
NoView == [status |-> "None"]

prepare_pull(j, s, command) ==
  LET plan(decision, view, journal, session) ==
        [decision |-> decision, view |-> view,
         journal |-> journal, session |-> session]
      refused(decision) == plan(decision, NoView, j, s)
      freed == release_before(j, command.release_before)
      requested == IF command.max_samples < MaxChunkSamples
                   THEN command.max_samples ELSE MaxChunkSamples
      read == prepare_read(freed.journal, command.from, requested)
      verdict == view_decision(read.journal, read.view)
      cancelled == cancel_prepared(read.journal)
  IN  IF s.prepared_token # 0 THEN refused("Busy")
      ELSE IF s.boot_epoch = 0 THEN refused("InternalError")
      ELSE IF command.boot_epoch # s.boot_epoch THEN refused("StreamChanged")
      ELSE IF command.max_samples = 0 THEN refused("InvalidRequest")
      ELSE IF command.release_before > command.from
           THEN refused("InvalidRelease")
      ELSE IF freed.status # "Ok"
           THEN plan("InvalidRelease", NoView, freed.journal, s)
      ELSE IF verdict \in {"NoData", "RangeUnavailable", "CursorAhead"}
           THEN plan(verdict, read.view, read.journal, s)
      ELSE IF s.next_token = 0 \/ verdict \notin Settleable
           THEN plan("InternalError", NoView, cancelled, s)
      ELSE plan(verdict, read.view, read.journal,
                take_token(s, read.view.end_sequence))

complete(j, s, token) ==
  LET result(status, journal, session) ==
        [status |-> status, journal |-> journal, session |-> session]
      marked == mark_delivered(j, s.prepared_end)
  IN  IF s.prepared_token = 0 THEN result("NoPreparedChunk", j, s)
      ELSE IF token # s.prepared_token THEN result("TokenMismatch", j, s)
      ELSE result(IF marked.status = "Ok" THEN "Ok" ELSE "JournalChanged",
                  marked.journal, clear_prepared_state(s))

abort(j, s, token) ==
  LET result(status, journal, session) ==
        [status |-> status, journal |-> journal, session |-> session]
  IN  IF s.prepared_token = 0 THEN result("NoPreparedChunk", j, s)
      ELSE IF token # s.prepared_token THEN result("TokenMismatch", j, s)
      ELSE result("Ok", cancel_prepared(j), clear_prepared_state(s))

release(j, s, command) ==
  LET result(decision, journal) == [decision |-> decision, journal |-> journal]
      freed == release_before(j, command.release_before)
  IN  IF s.prepared_token # 0 THEN result("Busy", j)
      ELSE IF s.boot_epoch = 0 THEN result("InternalError", j)
      ELSE IF command.boot_epoch # s.boot_epoch THEN result("StreamChanged", j)
      ELSE IF freed.status # "Ok" THEN result("InvalidRelease", freed.journal)
      ELSE result("Applied", freed.journal)
=============================================================================
