---------------------------- MODULE ObservationStore ----------------------------
(* Time and Telemetry storage of the host: the bounded queue a channel submits
   to, the WAL of every stream, the executor thread that alone touches the
   disk, the completions it returns and the health the host keeps from them.
   A failed Time append is recovered by reopening the WALs and counting
   records; a failed Telemetry append is final. *)
EXTENDS Naturals, Sequences, SequencesExt, FiniteSets

CONSTANTS
    Channels,          \* one node on each channel
    MaxEpoch,          \* bound of the model: boot epochs of a node
    Capacity,          \* queue_capacity_records, of both queues
    MaxFailures        \* bound of the model: disk operations, channel starts and channel steps that fail

(* TimeRuntimeConfig::new, TelemetryRuntimeConfig::new: at least one stream and a queue *)
RuntimeConfigValid == Channels # {} /\ Capacity \in Nat \ {0}
ASSUME StoreAssumption == RuntimeConfigValid /\ MaxEpoch \in Nat \ {0} /\ MaxFailures \in Nat

VARIABLES
    disk,        \* disk[k][s]: the records in the WAL of stream s, k = "time" or "telemetry"
    repository,  \* repository[k]: the open sinks, a function on the streams that are open
    queue,       \* queue[k]: records handed over and not yet taken by the executor
    control,     \* control[k]: the one control request the executor has not taken
    reply,       \* reply[k]: its answer
    executor,    \* executor[k]: where the thread is and what its worker holds
    completions, \* completions[k]: the bounded channel back to the host
    streams,     \* TimeRuntime::streams: what a reopen opens
    health,      \* TimePersistenceHealth
    senders,     \* who still holds a submitter of the Telemetry queue
    failures     \* failures so far

storeVars == <<disk, repository, queue, control, reply, executor, completions, streams, health, senders, failures>>

Kinds == {"time", "telemetry"}
(* TimeStreamKey, TelemetryStreamKey: a node and its boot epoch *)
Streams == Channels \X (1 .. MaxEpoch)
None == [op |-> "none"]
NoReply == [result |-> "none", count |-> 0]
NoRecord == [stream |-> <<>>, at |-> 0]
CompletionCapacity == Capacity + 1
------------------------
(* The WALs.  A sink is what a WalSink knows of its file. *)
record_count(k, s) == Len(disk[k][s])
Absent == [count |-> 0, poisoned |-> FALSE]
(* recover: a torn tail is cut, every complete record is counted *)
recovered(k, s) == [count |-> record_count(k, s), poisoned |-> FALSE]
(* TimeRepository::open, TelemetryRepository::open *)
opened(k, set) == [s \in set |-> recovered(k, s)]

(* validate_observation: every clock moves forward *)
validate_observation(last, record) == record.at > last.at
(* validate_snapshot: the same snapshot again is a duplicate *)
validate_snapshot(last, record) ==
    CASE record.at > last.at -> "appended"
      [] record.at = last.at -> "duplicate"
      [] OTHER -> "refused"

last_record(k, s) == IF disk[k][s] = <<>> THEN NoRecord ELSE Last(disk[k][s])

(* What one append did: the sink, the file and the result.  "written" is a
   complete record whose sync failed; a write that failed leaves at most a torn
   record, which the next open cuts off. *)
Outcome(result, sink, file) == [result |-> result, sink |-> sink, file |-> file]
appended(k, record) ==
    LET s == record.stream   sink == repository[k][s]
    IN Outcome("ok", [sink EXCEPT !.count = @ + 1], Append(disk[k][s], record))
broken(k, record) ==
    LET s == record.stream   sink == repository[k][s]
    IN { Outcome("failed", [sink EXCEPT !.poisoned = TRUE], disk[k][s]),
         Outcome("failed", [sink EXCEPT !.poisoned = TRUE], Append(disk[k][s], record)) }
refused(k, record) == { Outcome("failed", repository[k][record.stream], disk[k][record.stream]) }

(* TimeWalSink::append_batch of one observation *)
time_append(record) ==
    IF repository.time[record.stream].poisoned \/ ~validate_observation(last_record("time", record.stream), record)
    THEN refused("time", record)
    ELSE {appended("time", record)} \cup (IF failures < MaxFailures THEN broken("time", record) ELSE {})

(* TelemetryWalSink::append *)
telemetry_append(record) ==
    LET s == record.stream   verdict == validate_snapshot(last_record("telemetry", s), record)
    IN CASE repository.telemetry[s].poisoned \/ verdict = "refused" -> refused("telemetry", record)
         [] verdict = "duplicate" -> {Outcome("ok", repository.telemetry[s], disk.telemetry[s])}
         [] OTHER -> {appended("telemetry", record)}
                     \cup (IF failures < MaxFailures THEN broken("telemetry", record) ELSE {})

(* TimeRepository::persist, TelemetryRepository::persist: what may come of it *)
outcomes(k, record) ==
    IF record.stream \notin DOMAIN repository[k] THEN {Outcome("failed", Absent, disk[k][record.stream])}
    ELSE IF k = "time" THEN time_append(record) ELSE telemetry_append(record)

(* The effect of persist on the store; an unknown stream touches nothing. *)
persist(k, record, outcome) ==
    IF record.stream \notin DOMAIN repository[k] THEN UNCHANGED <<repository, disk, failures>> ELSE
    /\ repository' = [repository EXCEPT ![k][record.stream] = outcome.sink]
    /\ disk' = [disk EXCEPT ![k][record.stream] = outcome.file]
    /\ failures' = failures + (IF outcome.sink.poisoned /\ ~repository[k][record.stream].poisoned THEN 1 ELSE 0)

(* TimeRepository::rollover_stream, TelemetryRepository::rollover_stream: the node's
   stream of another epoch is opened, once; a repeated request finds it open. *)
may_roll_over(k, previous, next) ==
    previous \in DOMAIN repository[k] /\ previous[1] = next[1] /\ previous[2] # next[2]
rolled_over(k, next) ==
    IF next \in DOMAIN repository[k] THEN repository[k]
    ELSE [s \in DOMAIN repository[k] \cup {next} |-> IF s = next THEN recovered(k, s) ELSE repository[k][s]]
------------------------
(* Handing over: try_submit never waits. *)
try_submit(k, record) ==
    queue' = [queue EXCEPT ![k] = IF Len(@) < Capacity /\ executor[k].at # "exited" THEN Append(@, record) ELSE @]
accepts(k) == Len(queue[k]) < Capacity /\ executor[k].at # "exited"

Completion(record, result, count) == [record |-> record, result |-> result, count |-> count]
Idle == [at |-> "run", out |-> <<>>, after |-> "run", retry |-> NoRecord, failed |-> NoRecord, base |-> 0, faulted |-> FALSE]

(* TimePersistenceHealth::from_recovery *)
from_recovery(found) == [state |-> "Healthy", uncertain |-> NoRecord, error |-> "none", count |-> [s \in found |-> 0]]

(* start of both executors on the streams found at startup
   a repository with every stream found open and empty; the two ends of a queue *)
NewRepository(found) == [s \in found |-> Absent]
NewQueue == <<>>
FirstSenders == {"executor"}
StartStore(found) ==
    /\ disk = [k \in Kinds |-> [s \in Streams |-> <<>>]]
    /\ repository = [k \in Kinds |-> NewRepository(found)]
    /\ queue = [k \in Kinds |-> NewQueue] /\ completions = [k \in Kinds |-> <<>>]
    /\ control = [k \in Kinds |-> None] /\ reply = [k \in Kinds |-> NoReply]
    /\ executor = [k \in Kinds |-> Idle]
    /\ streams = found /\ senders = FirstSenders /\ failures = 0
    /\ health = from_recovery(found)

goto(k, place) == executor' = [executor EXCEPT ![k].at = place]
answer(k, result, count) ==
    reply' = [reply EXCEPT ![k] = [result |-> result, count |-> count]] /\ control' = [control EXCEPT ![k] = None]

(* A completion goes to the host; without room the thread blocks with it. *)
emit(k, worker, completion, after) ==
    IF Len(completions[k]) < CompletionCapacity
    THEN /\ completions' = [completions EXCEPT ![k] = Append(@, completion)]
         /\ executor' = [executor EXCEPT ![k] = [worker EXCEPT !.at = after]]
    ELSE /\ executor' = [executor EXCEPT ![k] = [worker EXCEPT !.at = "send", !.out = <<completion>>, !.after = after]]
         /\ UNCHANGED completions

(* the blocked thread found room *)
Deliver(k) ==
    /\ executor[k].at = "send" /\ Len(completions[k]) < CompletionCapacity
    /\ completions' = [completions EXCEPT ![k] = Append(@, Head(executor[k].out))]
    /\ executor' = [executor EXCEPT ![k].out = <<>>, ![k].at = executor[k].after, ![k].after = "run"]
    /\ UNCHANGED <<disk, repository, queue, control, reply, streams, health, senders, failures>>

(* the file of the new stream cannot be opened (a file a failed open left without
   its whole header is refused again, which counts as one more failure) *)
open_fails(k, next) == next \notin DOMAIN repository[k] /\ failures < MaxFailures

AnswerRollover(k) ==
    LET request == control[k]
        granted == ~executor[k].faulted /\ may_roll_over(k, request.previous, request.next)
        rolled == rolled_over(k, request.next)
    IN /\ request.op = "rollover"
       /\ \/ /\ granted /\ repository' = [repository EXCEPT ![k] = rolled]
             /\ answer(k, "ok", rolled[request.next].count) /\ UNCHANGED failures
          \/ /\ granted /\ open_fails(k, request.next) /\ failures' = failures + 1
             /\ answer(k, "error", 0) /\ UNCHANGED repository
          \/ ~granted /\ answer(k, "error", 0) /\ UNCHANGED <<repository, failures>>
       /\ UNCHANGED <<disk, queue, executor, completions, streams, health, senders>>
------------------------
(* run_time_persistence_executor: control is looked at before every record *)

(* Mutant: a repository that lost nothing it had is taken to hold the record. *)
replace_lenient(worker, repo) ==
    IF repo[worker.failed.stream].count >= worker.base
    THEN [worker EXCEPT !.faulted = FALSE, !.failed = NoRecord, !.base = 0] ELSE worker

(* TimePersistenceWorker::replace_recovered_repository: the worker after it; still
   faulted when the counts fit neither outcome. *)
replace_recovered_repository(worker, repo) ==
    LET s == worker.failed.stream
        cleared == [worker EXCEPT !.faulted = FALSE, !.failed = NoRecord, !.base = 0]
    IN CASE s \notin DOMAIN repo -> worker
         [] repo[s].count = worker.base -> [cleared EXCEPT !.retry = worker.failed]
         [] repo[s].count = worker.base + 1 -> cleared
         [] OTHER -> worker

(* a rollover is answered; a shutdown ends the thread and leaves the queue as it is *)
TimeControl ==
    /\ executor.time.at = "run"
    /\ \/ AnswerRollover("time")
       \/ /\ control.time.op = "shutdown" /\ goto("time", "exited")
          /\ UNCHANGED <<disk, repository, queue, control, reply, completions, streams, health, senders, failures>>

(* a faulted worker gets the repository the host reopened: the failed record is
   written again, or it was on disk already and is reported now *)
TimeReplace ==
    LET worker == replace_recovered_repository(executor.time, control.time.repository)
    IN /\ executor.time.at = "run" /\ executor.time.faulted /\ control.time.op = "replace"
       /\ repository' = IF worker.faulted THEN repository ELSE [repository EXCEPT !.time = control.time.repository]
       /\ IF worker.faulted \/ worker.retry # NoRecord
          THEN executor' = [executor EXCEPT !.time = worker] /\ UNCHANGED completions
          ELSE emit("time", worker, Completion(executor.time.failed, "ok", executor.time.base + 1), "run")
       /\ answer("time", IF worker.faulted THEN "error" ELSE "ok", 0)
       /\ UNCHANGED <<disk, queue, streams, health, senders, failures>>

(* persist_record: the result is kept for the host, the failed record for recovery *)
persist_record(record, outcome) ==
    LET failed == outcome.result = "failed"   s == record.stream
    IN emit("time", [executor.time EXCEPT !.retry = NoRecord, !.faulted = failed,
                        !.failed = IF failed THEN record ELSE NoRecord,
                        !.base = IF failed /\ s \in DOMAIN repository.time THEN repository.time[s].count ELSE 0],
            Completion(record, outcome.result, outcome.sink.count), "run")

(* process_next_wait: the record to retry comes before the queue *)
TimeProcess ==
    LET retry == executor.time.retry
        record == IF retry # NoRecord THEN retry ELSE Head(queue.time)
    IN /\ executor.time.at = "run" /\ ~executor.time.faulted /\ control.time.op = "none"
       /\ ~(retry = NoRecord /\ queue.time = <<>>)
       /\ queue' = IF retry # NoRecord THEN queue ELSE [queue EXCEPT !.time = Tail(@)]
       /\ \E outcome \in outcomes("time", record) :
             persist("time", record, outcome) /\ persist_record(record, outcome)
       /\ UNCHANGED <<control, reply, streams, health, senders>>
------------------------
(* run_telemetry_persistence_executor *)

(* a shutdown turns to the rest of the queue, unless the thread already waits faulted *)
TelemetryControl ==
    /\ executor.telemetry.at = "run"
    /\ \/ AnswerRollover("telemetry")
       \/ /\ control.telemetry.op = "shutdown"
          /\ goto("telemetry", "drain") \/ (executor.telemetry.faulted /\ goto("telemetry", "exited"))
          /\ UNCHANGED <<disk, repository, queue, control, reply, completions, streams, health, senders, failures>>

(* one snapshot is written; the first failure stops the thread, while draining for good *)
StoreSnapshot(after) ==
    LET record == Head(queue.telemetry)
    IN /\ queue.telemetry # <<>>
       /\ queue' = [queue EXCEPT !.telemetry = Tail(@)]
       /\ \E outcome \in outcomes("telemetry", record) :
             /\ persist("telemetry", record, outcome)
             /\ emit("telemetry", [executor.telemetry EXCEPT !.faulted = @ \/ outcome.result = "failed"],
                     Completion(record, outcome.result, outcome.sink.count),
                     IF after = "drain" /\ outcome.result = "failed" THEN "exited" ELSE after)
       /\ UNCHANGED <<control, reply, streams, health, senders>>

TelemetryProcess ==
    /\ executor.telemetry.at = "run" /\ ~executor.telemetry.faulted /\ control.telemetry.op = "none"
    /\ StoreSnapshot("run")

(* After Shutdown the queue is read until it is empty and every submitter is gone. *)
TelemetryDrain ==
    /\ executor.telemetry.at = "drain"
    /\ \/ StoreSnapshot("drain")
       \/ /\ queue.telemetry = <<>> /\ senders = {} /\ goto("telemetry", "exited")
          /\ UNCHANGED <<disk, repository, queue, control, reply, completions, streams, health, senders, failures>>
------------------------
(* TimePersistenceHealth, as the host updates it *)
failed_health(h, error) == [h EXCEPT !.state = "IntegrityFault", !.error = error]

observe_completion(h, c) ==
    LET s == c.record.stream
    IN CASE h.state = "IntegrityFault" -> h
         [] s \notin DOMAIN h.count -> failed_health(h, "UnknownStream")
         [] c.result = "failed" ->
              IF h.state # "Healthy" THEN failed_health(h, "UnexpectedFailure")
              ELSE [h EXCEPT !.uncertain = c.record, !.state = "RecoveryRequired"]
         [] h.uncertain # NoRecord /\ (h.uncertain # c.record \/ h.state # "Recovering") ->
              failed_health(h, "UnexpectedRecoveryCompletion")
         [] h.uncertain = NoRecord /\ h.state # "Healthy" -> failed_health(h, "UnexpectedSuccess")
         [] c.count # h.count[s] + 1 -> failed_health(h, "NonSequentialRecordCount")
         [] OTHER -> [h EXCEPT !.count[s] = c.count, !.uncertain = NoRecord, !.state = "Healthy"]

observe_recovery(h) ==
    IF h.state = "RecoveryRequired" /\ h.uncertain # NoRecord THEN [h EXCEPT !.state = "Recovering"]
    ELSE failed_health(h, "UnexpectedRecovery")

register_stream(h, s, count) ==
    [h EXCEPT !.count = [t \in DOMAIN h.count \cup {s} |-> IF t = s THEN count ELSE h.count[t]]]
=============================================================================
