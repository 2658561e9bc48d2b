--------------------------- MODULE DeliveryChain ---------------------------
(* One stream from the node's journal to the capture on the host's disk:
   the journal and the pull handler of the node, the serial line, the
   session of the host and its write-ahead log, with requests and answers
   lost or late, timeouts at any moment, a node that reboots into a new
   boot epoch and a host that crashes between any two of its steps.

   The line hands the host only the answer to its current request: that
   late answers are discarded is what the model of the channel shows.  A
   late request is different: it still reaches the node and still moves
   the journal's cursors. *)
EXTENDS DeliverySession, NodeSession

CONSTANTS
  MaxEpoch,             \* bound: boots of the node, 1 .. MaxEpoch
  MaxCrashes,           \* bound: crashes of the host
  MaxOnLine,            \* bound: requests sent and not yet handled
  RecordsFirst          \* values of `early' to explore

ASSUME ChainAssumption ==
  /\ MaxEpoch \in Nat \ {0}
  /\ MaxCrashes \in Nat
  /\ MaxOnLine \in Nat \ {0}
  /\ RecordsFirst \subseteq BOOLEAN

VARIABLES
  j,                    \* the node's journal
  epoch,                \* the node's boot epoch
  requests,             \* pulls on the line, oldest first
  reply,                \* the answer to the host's current pull, or NoReply
  h,                    \* the host's session
  seen,                 \* the node's state as recovery read it, or NoState
  disk,                 \* the capture of each epoch, or NoCapture
  source,               \* history: what the source gave each epoch
  overwritten,          \* history: <<epoch, sequence>> lost to overload
  crashes,              \* how often the host crashed
  early                 \* the node may already record when its capture is
                        \* created (another host, or storage, started it)

vars == <<j, epoch, requests, reply, h, seen, disk, source, overwritten,
          crashes, early>>

Epochs == 1..MaxEpoch
NoReply == [decision |-> "None"]
NoState == [epoch |-> 0]
NoCapture == [first |-> 0, data |-> <<>>, open |-> FALSE]
durable_cursor(c) == c.first + Len(c.data)

(* What a sequence carried, as it is stored in the capture.  Samples are
   told apart by their device time. *)
SampleOf(r) == <<"Sample", r.device_time_us>>
GapOf(reason) == <<"Gap", reason>>
BreakOf(reason) == <<"Break", reason>>

Init ==
  /\ j = EmptyJournal
  /\ epoch = 1
  /\ requests = <<>>
  /\ reply = NoReply
  /\ h = Offline
  /\ seen = NoState
  /\ disk = [e \in Epochs |-> NoCapture]
  /\ source = [e \in Epochs |-> <<>>]
  /\ overwritten = {}
  /\ crashes = 0
  /\ early \in RecordsFirst

------------------------
(* The node. *)

Appended(result, events) ==
  /\ result.status = "Ok"
  /\ j' = result.journal
  /\ source' = [source EXCEPT ![epoch] = @ \o events]
  /\ overwritten' = overwritten \cup
       {<<epoch, q>> : q \in j.retained_from..(result.journal.retained_from - 1)}
  /\ UNCHANGED <<epoch, requests, reply, h, seen, disk, crashes, early>>

(* The host sends Start once the capture of the boot epoch exists. *)
Recording == early \/ disk[epoch].open

ProduceSample ==
  /\ Recording
  /\ \E r \in SampleRecords :
       /\ r.device_time_us = j.produced + 1
       /\ \E result \in {append_sample(j, j.produced, r)} :
            Appended(result, <<SampleOf(r)>>)

ProduceGap ==
  /\ Recording
  /\ \E result \in {append_gap(j, [first_missing |-> j.produced,
                     missing_count |-> 1, reason |-> "SourceLoss"])} :
       Appended(result, <<GapOf("SourceLoss")>>)

ProduceBreak ==
  /\ Recording
  /\ \E result \in {append_continuity_break(j, [at_sequence |-> j.produced,
                                                 reason |-> "Unknown"])} :
       Appended(result, <<BreakOf("Unknown")>>)

Produce == ProduceSample \/ ProduceGap \/ ProduceBreak

stream_state(e, journal) ==
  [epoch |-> e, retained_from |-> journal.retained_from,
   produced |-> journal.produced, released |-> journal.released]

view_data(journal, view) ==
  CASE view.status = "Samples" ->
         [k \in 1..(view.first.size + view.second.size) |->
            SampleOf(sample_at(journal, view, k - 1))]
    [] view.status = "Gap" ->
         [k \in 1..view.gap.missing_count |-> GapOf(view.gap.reason)]
    [] view.status = "ContinuityBreak" ->
         <<BreakOf(view.continuity_break.reason)>>
    [] OTHER -> <<>>

(* The answer of MeasurementHandler::handle_pull to a plan. *)
answer(plan) ==
  [decision |-> plan.decision, epoch |-> epoch,
   retained_from |-> plan.journal.retained_from,
   produced |-> plan.journal.produced, released |-> plan.journal.released,
   first |-> IF plan.decision \in Settleable THEN plan.view.first_sequence
             ELSE 0,
   data |-> view_data(plan.journal, plan.view)]

planned(request) ==
  prepare_pull(j, NewSession(epoch),
    [boot_epoch |-> request.epoch, from |-> request.from,
     release_before |-> request.release_before, max_samples |-> MaxSamples])

(* In the call that queues the answer, the journal is told that the range
   is delivered. *)
settle_response(plan) ==
  IF plan.decision \in Settleable
  THEN complete(plan.journal, plan.session, plan.session.prepared_token)
  ELSE [status |-> "Ok", journal |-> plan.journal]

(* Between two pulls the delivery session is idle; its tokens are the
   subject of NodeDelivery. *)
HandleRequest ==
  /\ requests # <<>>
  /\ \E plan \in {planned(Head(requests))} :
       \E settled \in {settle_response(plan)} :
         /\ j' = settled.journal
         /\ reply' = IF Head(requests).current /\ settled.status = "Ok"
                     THEN answer(plan) ELSE reply
  /\ requests' = Tail(requests)
  /\ UNCHANGED <<epoch, h, seen, disk, source, overwritten, crashes, early>>

(* Power is lost or the watchdog fires: a new epoch, an empty journal. *)
NodeReboots ==
  /\ epoch < MaxEpoch
  /\ epoch' = epoch + 1
  /\ j' = EmptyJournal
  /\ UNCHANGED <<requests, reply, h, seen, disk, source, overwritten, crashes, early>>

------------------------
(* The line. *)

LoseRequest ==
  /\ requests # <<>>
  /\ requests' = Tail(requests)
  /\ UNCHANGED <<j, epoch, reply, h, seen, disk, source, overwritten, crashes, early>>

(* The host stops waiting: no answer under way is current any more. *)
Forget ==
  /\ requests' = [k \in DOMAIN requests |->
                    [requests[k] EXCEPT !.current = FALSE]]
  /\ reply' = NoReply

------------------------
(* The host. *)

Pull ==
  /\ h.phase = "Ready"
  /\ Len(requests) < MaxOnLine
  /\ h' = begin_pull(h)
  /\ requests' = Append(requests,
       [epoch |-> h'.epoch, from |-> h'.pull.from,
        release_before |-> h'.pull.release_before, current |-> TRUE])
  /\ UNCHANGED <<j, epoch, reply, seen, disk, source, overwritten, crashes, early>>

(* The deadline passes, or writing the request failed. *)
AttemptUncertain ==
  /\ h.phase = "AwaitingPull"
  /\ h' = abandon_pull_for_retry(h)
  /\ Forget
  /\ UNCHANGED <<j, epoch, seen, disk, source, overwritten, crashes, early>>

(* The one timeout the host cannot avoid: no answer is under way. *)
Unanswered ==
  reply = NoReply /\ \A k \in DOMAIN requests : ~requests[k].current

DeadlinePasses == Unanswered /\ AttemptUncertain

Accept ==
  /\ h.phase = "AwaitingPull" /\ reply # NoReply
  /\ h' = accept_response(h, reply)
  /\ reply' = NoReply
  /\ UNCHANGED <<j, epoch, requests, seen, disk, source, overwritten, crashes, early>>

(* The storage thread appends the record, which must continue the capture,
   and syncs. *)
Persist ==
  /\ h.phase = "Persisting"
  /\ h.pending.first = durable_cursor(disk[h.epoch])
  /\ disk' = [disk EXCEPT ![h.epoch].data = @ \o h.pending.data]
  /\ UNCHANGED <<j, epoch, requests, reply, h, seen, source, overwritten,
                 crashes, early>>

(* The channel thread takes the receipt, some time after the write. *)
Confirm ==
  /\ h.phase = "Persisting"
  /\ durable_cursor(disk[h.epoch]) = record_end(h.pending)
  /\ h' = confirm_durable(h)
  /\ UNCHANGED <<j, epoch, requests, reply, seen, disk, source, overwritten,
                 crashes, early>>

(* Maintenance quiesces the channel; to resume, every session is rebuilt
   from the node's account, as recovery does. *)
Quiesce ==
  /\ h.phase = "Ready"
  /\ h' = [h EXCEPT !.phase = "RecoveryRequired"]
  /\ UNCHANGED <<j, epoch, requests, reply, seen, disk, source, overwritten,
                 crashes, early>>

HostCrashes ==
  /\ crashes < MaxCrashes
  /\ h.phase # "Offline"
  /\ h' = Offline
  /\ seen' = NoState
  /\ Forget
  /\ crashes' = crashes + 1
  /\ UNCHANGED <<j, epoch, disk, source, overwritten, early>>

Recovering == h.phase \in {"Offline", "RecoveryRequired"}

(* Identity and journal state are read from the node; they may be old by
   the time they are used. *)
ReadNodeState ==
  /\ Recovering /\ seen = NoState
  /\ seen' = stream_state(epoch, j)
  /\ UNCHANGED <<j, epoch, requests, reply, h, disk, source, overwritten,
                 crashes, early>>

(* The evidence was incomplete, or a later step of recovery failed. *)
RecoveryFails ==
  /\ Recovering /\ seen # NoState
  /\ seen' = NoState
  /\ UNCHANGED <<j, epoch, requests, reply, h, disk, source, overwritten,
                 crashes, early>>

(* A boot epoch that has no capture yet gets one, which begins where the
   node stands. *)
CreateCapture ==
  /\ Recovering /\ seen # NoState
  /\ ~disk[seen.epoch].open
  /\ disk' = [disk EXCEPT ![seen.epoch] =
                [first |-> seen.produced, data |-> <<>>, open |-> TRUE]]
  /\ UNCHANGED <<j, epoch, requests, reply, h, seen, source, overwritten,
                 crashes, early>>

(* Mutant: the cursor in memory is used whatever epoch it belongs to. *)
Reconcile_memory ==
  /\ Recovering /\ seen # NoState
  /\ disk[seen.epoch].open
  /\ h' = reconcile(seen.epoch,
            IF h.phase = "RecoveryRequired" THEN h.durable
            ELSE durable_cursor(disk[seen.epoch]), seen)
  /\ seen' = NoState
  /\ UNCHANGED <<j, epoch, requests, reply, disk, source, overwritten, crashes, early>>

(* Online, the same epoch is reconciled with the cursor in memory; after a
   crash or in a new epoch, with what the capture on disk proves. *)
Reconcile ==
  /\ Recovering /\ seen # NoState
  /\ disk[seen.epoch].open
  /\ h' = reconcile(seen.epoch,
            IF h.phase = "RecoveryRequired" /\ h.epoch = seen.epoch
            THEN h.durable ELSE durable_cursor(disk[seen.epoch]), seen)
  /\ seen' = NoState
  /\ UNCHANGED <<j, epoch, requests, reply, disk, source, overwritten, crashes, early>>

Host ==
  \/ Pull \/ Accept \/ Persist \/ Confirm
  \/ ReadNodeState \/ CreateCapture \/ Reconcile
Faults ==
  \/ LoseRequest \/ (~Unanswered /\ AttemptUncertain) \/ Quiesce
  \/ RecoveryFails \/ HostCrashes \/ NodeReboots

Next == Produce \/ HandleRequest \/ Host \/ DeadlinePasses \/ Faults

Spec == Init /\ [][Next]_vars

(* A request leaves the line: once losses stop, only to be handled. *)
LineMoves == requests # <<>> /\ requests' = Tail(requests)

(* The host's loop and the node's handler keep running, and a deadline
   with no answer under way passes. *)
FairSpec ==
  Spec /\ WF_requests(LineMoves) /\ WF_vars(Host) /\ WF_vars(DeadlinePasses)

------------------------
(* Nothing leaves the node before it is safe: what the journal released,
   and so may overwrite without a trace, is in the capture on disk; and
   the host's cursors never claim more than the next link of the chain
   can show (node release <= disk <= received <= produced). *)
DurabilityChain ==
  /\ j.released <= durable_cursor(disk[epoch])
  /\ h.phase \notin {"Offline", "Failed"} =>
       /\ h.released <= h.durable
       /\ h.durable <= durable_cursor(disk[h.epoch])
       /\ durable_cursor(disk[h.epoch]) <= h.received
       /\ h.epoch = epoch => h.released <= j.released /\ h.received <= j.produced

(* Every position of every capture holds what the source gave that
   sequence in that boot, once and in order, or an overflow mark for a
   sequence that overload really took: no crash, retry, late request or
   reboot makes the capture skip, repeat, shift or invent a sample; and
   nothing is released before it is there. *)
CaptureExact ==
  /\ DurabilityChain
  /\ \A e \in Epochs : \A k \in DOMAIN disk[e].data :
       LET q == disk[e].first + k - 1
       IN  \/ disk[e].data[k] = source[e][q + 1]
           \/ disk[e].data[k] = Overflow /\ <<e, q>> \in overwritten

(* The two halves agree on the protocol: no answer of the node ever fails
   the host's validation, recovery never finds the node ahead of the disk
   or the disk ahead of the node, a pending record always continues its
   capture, and the node never finds a pull malformed or ahead of it.  Nor
   does it refuse a release, unless the capture began in the middle of a
   recording. *)
ProtocolAgrees ==
  /\ h.phase # "Failed"
  /\ reply.decision \notin {"CursorAhead", "InvalidRequest", "InternalError",
                            "Busy"}
  /\ reply.decision = "InvalidRelease" => early
  /\ h.phase = "Persisting" =>
       durable_cursor(disk[h.epoch]) \in {h.pending.first, record_end(h.pending)}

(* Once crashes, reboots, losses and timeouts stop, everything the node
   has produced since its capture began becomes durable on the host (when
   the capture began with the recording). *)
Captured == disk[epoch].open /\ durable_cursor(disk[epoch]) = j.produced
EventuallyCaptured == <>[][~Faults]_vars => <>[](early \/ Captured)
=============================================================================
