---------------------------- MODULE HostSupervision ----------------------------
(* The host process: it starts the shared Time and Telemetry services and one
   supervised thread per channel, takes one bounded supervision turn at a time,
   and on any global fault or signal stops and joins the channels before it
   closes Telemetry and then Time.  A channel submits observations, asks for
   the next stream when its node restarted, and may fault alone. *)
EXTENDS ObservationStore, Functions

CONSTANTS
    MaxTime, MaxTelemetry,  \* bounds of the model: Time and Telemetry answers of the nodes, in all
    Restarting              \* bound of the model: the channels whose node restarts

ASSUME SupervisionAssumption == MaxTime \in Nat /\ MaxTelemetry \in Nat /\ Restarting \subseteq Channels

VARIABLES
    host,      \* the main thread: where it is, its lifecycle, the cause of the stop, ...
    channel,   \* SupervisedChannel: thread phase, stop command, join result
    rollover,  \* rollover[k]: requests the channels put in the mailbox
    ticket,    \* ticket[k][c]: what the channel waits for
    session,   \* the boot epoch the channel works with
    node,      \* the node itself: its boot epoch, and the age of its telemetry cache
    sent       \* answers so far: Time observations of each stream, Telemetry

hostVars == <<host, channel, rollover, ticket, session, node, sent>>
supervisionVars == <<storeVars, hostVars>>

NewChannel == [phase |-> "Absent", stop |-> FALSE, finished |-> FALSE, clean |-> TRUE, target |-> 1]
Threads == {c \in Channels : channel[c].phase \notin {"Absent", "Unavailable"}}

(* TimeRuntime::start, TelemetryRuntime::start: the streams of the first inventory *)
FirstStreams == {<<c, 1>> : c \in Channels}

(* HostCoordinatorRuntime and the loop around it, before the first channel is tried *)
NewHost == [at |-> "start", lifecycle |-> "Running", cause |-> "none", next |-> SetToSeq(Channels), request |-> None,
            phase |-> "Running", level |-> "Healthy", lost |-> FALSE]
(* time_rollover_mailbox, telemetry_rollover_mailbox: the server's end and the clients' *)
NewMailbox == <<>>
NoTickets == [c \in Channels |-> "none"]

Init ==
    /\ StartStore(FirstStreams)
    /\ host = NewHost
    /\ channel = [c \in Channels |-> NewChannel]
    /\ rollover = [k \in Kinds |-> NewMailbox]
    /\ ticket = [k \in Kinds |-> NoTickets]
    /\ session = [c \in Channels |-> 1]
    /\ node = [c \in Channels |-> [epoch |-> 1, age |-> 0]]
    /\ sent = [time |-> [s \in Streams |-> 0], telemetry |-> 0]
------------------------
(* Stopping: one command goes into the slot of every channel, a full slot is enough.
   Mutant: the first channel alone gets the command. *)
request_stop_first(chans) ==
    LET first == CHOOSE c \in Channels : Threads = {} \/ c \in Threads IN [chans EXCEPT ![first].stop = TRUE]

request_stop_all(chans) == [c \in Channels |-> IF c \in Threads THEN [chans[c] EXCEPT !.stop = TRUE] ELSE chans[c]]

(* HostCoordinatorRuntime::request_stop, and the loop of run leaves with its cause *)
request_stop(fault) ==
    /\ host' = [host EXCEPT !.lifecycle = "StopRequested", !.at = "stopping", !.cause = fault]
    /\ channel' = request_stop_all(channel)
------------------------
(* start_host_runtime: one channel after the other.  The Telemetry submitter of
   the channel at hand is held in a local variable until it is moved or dropped. *)
Local == "local"

(* one more failure within the bound *)
fails == failures < MaxFailures /\ failures' = failures + 1

(* Everything that was started is stopped again: cleanup_running_channels *)
FailStart(held) ==
    /\ host' = [host EXCEPT !.at = "joining", !.cause = "fault", !.lifecycle = "StopRequested"]
    /\ channel' = request_stop_all(channel)
    /\ senders' = held

(* the audit WAL of the channel cannot be opened, or its work ids overflow: the
   Time submitter is dropped before the cleanup, the Telemetry submitter is not *)
StartAuditFails ==
    /\ host.at = "start" /\ host.next # <<>>
    /\ FailStart(senders \cup {Local}) /\ fails
    /\ UNCHANGED <<disk, repository, queue, control, reply, executor, completions, streams, health,
                   rollover, ticket, session, node, sent>>

spawn_channel(c) == [channel EXCEPT ![c].phase = "Running"]

(* compose_channel_recording, then ChannelSupervisorSet::add *)
StartChannel ==
    LET c == Head(host.next)
    IN /\ host.at = "start" /\ host.next # <<>>
       /\ \/ /\ channel' = spawn_channel(c)
             /\ senders' = senders \cup {c}
             /\ host' = [host EXCEPT !.next = Tail(@)]
             /\ UNCHANGED failures
          \/ /\ channel' = [channel EXCEPT ![c].phase = "Unavailable"] /\ fails
             /\ host' = [host EXCEPT !.next = Tail(@)] /\ UNCHANGED senders
          \/ FailStart(senders) /\ fails
       /\ UNCHANGED <<disk, repository, queue, control, reply, executor, completions, streams, health,
                      rollover, ticket, session, node, sent>>

(* every channel was tried; at least one must run, and the operations socket be bound *)
StartDone ==
    /\ host.at = "start" /\ host.next = <<>>
    /\ \/ /\ Threads # {} /\ host' = [host EXCEPT !.at = "loop"]
          /\ UNCHANGED <<channel, senders, failures>>
       \/ FailStart(senders) /\ (IF Threads = {} THEN UNCHANGED failures ELSE fails)
    /\ UNCHANGED <<disk, repository, queue, control, reply, executor, completions, streams, health,
                   rollover, ticket, session, node, sent>>
------------------------
(* evaluate_host_health *)
evaluate_host_health(reasons) ==
    IF health.state = "IntegrityFault" \/ host.cause = "storage" THEN "StopRequired"
    ELSE IF reasons = {} /\ health.state = "Healthy" THEN "Healthy" ELSE "Degraded"

(* apply_shutdown_summary: at the end a channel is faulted when it was not stopped clean *)
terminal_level == evaluate_host_health({c \in Channels : c \notin Threads \/ ~channel[c].clean})

(* TerminationSignalReceiver; StorageHealthProbe::observe, which may also fail itself *)
Signals == {"Interrupt", "Terminate"}
StorageFaults == {"ReserveBreached", "ReadOnly", "ProbeFailed"}

(* The loop of run: a signal, every channel at its end, or the storage probe stops
   the host.  A fault of the operations server or of the status file differs from a
   signal in the cause only: JoinChannels may still set it. *)
HostStops ==
    /\ host.at = "loop"
    /\ \/ \E signal \in Signals : request_stop("none")
       \/ (\A c \in Threads : channel[c].finished) /\ request_stop("fault")
       \/ \E fault \in StorageFaults : request_stop("storage")     \* report_shared_storage_fault
    /\ UNCHANGED <<storeVars, rollover, ticket, session, node, sent>>

Stage(k) == IF k = "time" THEN "serve time" ELSE "serve telemetry"
(* what the rest of the turn has to do *)
Rest(k) == IF k = "time" /\ rollover.time # <<>> THEN "serve time"
           ELSE IF rollover.telemetry # <<>> THEN "serve telemetry" ELSE "loop"
AfterStage(k) == [host EXCEPT !.at = IF k = "time" THEN Rest("telemetry") ELSE "loop", !.request = None]

(* TimeRuntime::recover: every registered WAL is opened again for the executor; one
   that cannot be opened stops the host, so that this happens once at most *)
StartRecovery(h) ==
    /\ health' = h
    /\ \/ /\ control' = [control EXCEPT !.time = [op |-> "replace", repository |-> opened("time", streams)]]
          /\ host' = [host EXCEPT !.at = "recovering"] /\ UNCHANGED channel
       \/ request_stop("fault") /\ UNCHANGED control

(* TimeRuntime::poll_health and TelemetryRuntime::poll_health: at most one completion each *)
poll_time_health == IF completions.time = <<>> THEN health ELSE observe_completion(health, Head(completions.time))
poll_telemetry_health == IF completions.telemetry = <<>> THEN "ok" ELSE Head(completions.telemetry).result

(* supervise_once: one completion of each service, then the decision *)
Supervise ==
    LET h == poll_time_health
    IN /\ host.at = "loop" /\ \E c \in Threads : ~channel[c].finished
       /\ completions' = [k \in Kinds |-> IF completions[k] = <<>> \/ (k = "telemetry" /\ h.state = "IntegrityFault")
                                          THEN completions[k] ELSE Tail(completions[k])]
       /\ \/ h.state = "IntegrityFault" /\ health' = h /\ request_stop("fault") /\ UNCHANGED control
          \/ /\ h.state # "IntegrityFault" /\ poll_telemetry_health = "failed"
             /\ health' = h /\ request_stop("fault") /\ UNCHANGED control
          \/ /\ h.state # "IntegrityFault" /\ poll_telemetry_health = "ok"
             /\ IF h.state = "RecoveryRequired" THEN StartRecovery(h)
                ELSE /\ host' = [host EXCEPT !.at = Rest("time")] /\ health' = h
                     /\ UNCHANGED <<control, channel>>
       /\ UNCHANGED <<disk, repository, queue, reply, executor, streams, senders, failures,
                      rollover, ticket, session, node, sent>>

(* the executor answered the recovery *)
RecoveryAnswered ==
    /\ host.at = "recovering" /\ reply.time # NoReply
    /\ reply' = [reply EXCEPT !.time = NoReply]
    /\ IF reply.time.result = "ok"
       THEN host' = [host EXCEPT !.at = Rest("telemetry")] /\ health' = observe_recovery(health) /\ UNCHANGED channel
       ELSE request_stop("fault") /\ UNCHANGED health
    /\ UNCHANGED <<disk, repository, queue, control, executor, completions, streams, senders, failures,
                   rollover, ticket, session, node, sent>>

Waiting(k) == IF k = "time" THEN "time rollover" ELSE "telemetry rollover"
answer_ticket(k, from, result) ==
    ticket' = IF from \in Channels THEN [ticket EXCEPT ![k][from] = result] ELSE ticket

(* one rollover request of the mailbox; the call waits for the executor *)
ServeRollover(k) ==
    LET request == Head(rollover[k])
    IN /\ host.at = Stage(k)
       /\ rollover' = [rollover EXCEPT ![k] = Tail(@)]
       /\ IF k = "time" /\ health.state # "Healthy"
          THEN /\ host' = AfterStage(k)
               /\ answer_ticket(k, request.from, "error") /\ UNCHANGED control
          ELSE /\ host' = [host EXCEPT !.at = Waiting(k), !.request = request]
               /\ control' = [control EXCEPT ![k] = [op |-> "rollover", previous |-> request.previous,
                                                     next |-> request.next]]
               /\ UNCHANGED ticket
       /\ UNCHANGED <<disk, repository, queue, reply, executor, completions, streams, health, senders, failures,
                      channel, session, node, sent>>

(* TimeRuntime::rollover_stream after the answer: a new stream is registered once *)
RolloverAnswered(k) ==
    LET request == host.request   new == k = "time" /\ reply[k].result = "ok" /\ request.next \notin streams
    IN /\ host.at = Waiting(k) /\ reply[k] # NoReply
       /\ reply' = [reply EXCEPT ![k] = NoReply] /\ host' = AfterStage(k)
       /\ answer_ticket(k, request.from, reply[k].result)
       /\ health' = IF new THEN register_stream(health, request.next, reply[k].count) ELSE health
       /\ streams' = IF new THEN streams \cup {request.next} ELSE streams
       /\ UNCHANGED <<disk, repository, queue, control, executor, completions, senders, failures,
                      channel, rollover, session, node, sent>>
------------------------
(* run_channel_task, and the steps of the task that reach the shared services *)
Working(c) == channel[c].phase = "Running" /\ ~channel[c].finished
Recording(c) == Working(c) /\ ticket.time[c] = "none" /\ ticket.telemetry[c] = "none"

(* settle_time_sync_event: the agent only lets an answer of the expected epoch through *)
TimeAnswer(c) ==
    LET s == <<c, session[c]>>   record == [stream |-> s, at |-> sent.time[s] + 1]
    IN /\ Recording(c) /\ node[c].epoch = session[c]
       /\ FoldFunction(+, 0, sent.time) < MaxTime
       /\ sent' = [sent EXCEPT !.time[s] = IF accepts("time") THEN @ + 1 ELSE @]
       /\ try_submit("time", record)
       /\ UNCHANGED <<disk, repository, control, reply, executor, completions, streams, health, senders, failures,
                      host, channel, rollover, ticket, session, node>>

(* settle_telemetry_event: the snapshot is filed under the epoch of the session *)
TelemetryAnswer(c) ==
    LET record == [stream |-> <<c, session[c]>>, at |-> node'[c].age]
    IN /\ Recording(c) /\ sent.telemetry < MaxTelemetry
       /\ sent' = [sent EXCEPT !.telemetry = @ + 1]
       /\ \E age \in {node[c].age, node[c].age + 1} \ {0} : node' = [node EXCEPT ![c].age = age]
       /\ try_submit("telemetry", record)
       /\ UNCHANGED <<disk, repository, control, reply, executor, completions, streams, health, senders, failures,
                      host, channel, rollover, ticket, session>>

NodeRestarts(c) ==
    /\ c \in Restarting /\ node[c].epoch < MaxEpoch /\ Recording(c)
    /\ node' = [node EXCEPT ![c] = [epoch |-> @.epoch + 1, age |-> 0]]
    /\ UNCHANGED <<storeVars, host, channel, rollover, ticket, session, sent>>

(* The channel lets go of its tickets: what is still asked for is answered to nobody. *)
abandon(c, r) == [k \in Kinds |-> [i \in DOMAIN r[k] |-> IF r[k][i].from = c THEN [r[k][i] EXCEPT !.from = "dropped"] ELSE r[k][i]]]
forget(c) == host' = IF host.request.op = "rollover" /\ host.request.from = c
                     THEN [host EXCEPT !.request.from = "dropped"] ELSE host
Room(k) == Len(rollover[k]) < Cardinality(Channels)
Request(c) == [op |-> "rollover", from |-> c, previous |-> <<c, session[c]>>, next |-> <<c, node[c].epoch>>]

(* begin_epoch_rollover: Time is asked first; without room for Telemetry its ticket is dropped *)
BeginRollover(c) ==
    /\ Recording(c) /\ node[c].epoch # session[c] /\ Room("time")
    /\ IF Room("telemetry")
       THEN /\ rollover' = [k \in Kinds |-> Append(rollover[k], Request(c))]
            /\ ticket' = [k \in Kinds |-> [ticket[k] EXCEPT ![c] = "waiting"]]
       ELSE /\ rollover' = [rollover EXCEPT !.time = Append(@, [Request(c) EXCEPT !.from = "dropped"])]
            /\ UNCHANGED ticket
    /\ channel' = [channel EXCEPT ![c].target = node[c].epoch]
    /\ UNCHANGED <<storeVars, host, session, node, sent>>

(* the tickets are looked at: both granted, or the recovery attempt failed *)
CheckTickets(c) ==
    LET answers == {ticket[k][c] : k \in Kinds}
    IN /\ Working(c) /\ ("error" \in answers \/ answers = {"ok"})
       /\ ticket' = [k \in Kinds |-> [ticket[k] EXCEPT ![c] = "none"]]
       /\ rollover' = abandon(c, rollover) /\ forget(c)
       /\ session' = IF answers = {"ok"} THEN [session EXCEPT ![c] = channel[c].target] ELSE session
       /\ UNCHANGED <<storeVars, channel, node, sent>>

(* step fails: the thread keeps its error and shuts its task down *)
StepFails(c) ==
    /\ Working(c)
    /\ channel' = [channel EXCEPT ![c].phase = "Faulted", ![c].clean = FALSE] /\ fails
    /\ UNCHANGED <<disk, repository, queue, control, reply, executor, completions, streams, health, senders, host, rollover, ticket, session, node, sent>>

(* the stop command is taken before the next step *)
TakeStop(c) ==
    /\ Working(c) /\ channel[c].stop
    /\ channel' = [channel EXCEPT ![c].phase = "StopRequested"]
    /\ UNCHANGED <<storeVars, host, rollover, ticket, session, node, sent>>

(* the shutdown of the task ends, clean or not; its submitters and tickets go with it *)
ThreadEnds(c) ==
    /\ channel[c].phase \in {"Faulted", "StopRequested"} /\ ~channel[c].finished
    /\ \E clean \in {TRUE, FALSE} :
          channel' = [channel EXCEPT ![c].finished = TRUE, ![c].clean = @ /\ clean,
                                     ![c].phase = IF @ = "StopRequested" THEN "Stopped" ELSE @]
          /\ IF clean THEN UNCHANGED failures ELSE fails
    /\ senders' = senders \ {c}
    /\ ticket' = [k \in Kinds |-> [ticket[k] EXCEPT ![c] = "none"]]
    /\ rollover' = abandon(c, rollover) /\ forget(c)
    /\ UNCHANGED <<disk, repository, queue, control, reply, executor, completions, streams, health,
                   session, node, sent>>
------------------------
(* run leaves its loop: the Stopping status, then HostCoordinatorRuntime::shutdown,
   whose join_all waits for every channel before a shared service is closed *)
JoinChannels ==
    /\ host.at \in {"stopping", "joining"} /\ \A c \in Threads : channel[c].finished
    /\ \E published \in BOOLEAN : host' = [host EXCEPT !.at = "closing telemetry", !.cause = IF @ = "none" /\ ~published THEN "fault" ELSE @]
    /\ senders' = senders \ {"executor"}
    /\ control' = [control EXCEPT !.telemetry = [op |-> "shutdown"]]
    /\ UNCHANGED <<disk, repository, queue, reply, executor, completions, streams, health, failures,
                   channel, rollover, ticket, session, node, sent>>

(* HostProcessShutdownSummary::clean *)
summary_clean == ~host.lost /\ \A c \in Threads : channel[c].clean

(* Mutant: the completions read while closing are not looked at. *)
CloseTelemetry_blind ==
    /\ host.at = "closing telemetry"
    /\ \/ /\ completions.telemetry # <<>>
          /\ completions' = [completions EXCEPT !.telemetry = Tail(@)]
          /\ UNCHANGED <<host, control>>
       \/ /\ completions.telemetry = <<>> /\ executor.telemetry.at = "exited"
          /\ host' = [host EXCEPT !.at = "closing time"]
          /\ control' = [control EXCEPT !.time = [op |-> "shutdown"]] /\ UNCHANGED completions
    /\ UNCHANGED <<disk, repository, queue, reply, executor, streams, health, senders, failures,
                   channel, rollover, ticket, session, node, sent>>

(* TelemetryPersistenceExecutor::shutdown: completions are read until the thread is gone *)
CloseTelemetry ==
    /\ host.at = "closing telemetry"
    /\ \/ /\ completions.telemetry # <<>>
          /\ completions' = [completions EXCEPT !.telemetry = Tail(@)]
          /\ host' = [host EXCEPT !.lost = @ \/ Head(completions.telemetry).result = "failed"]
          /\ UNCHANGED control
       \/ /\ completions.telemetry = <<>> /\ executor.telemetry.at = "exited"
          /\ host' = [host EXCEPT !.at = "closing time"]
          /\ control' = [control EXCEPT !.time = [op |-> "shutdown"]] /\ UNCHANGED completions
    /\ UNCHANGED <<disk, repository, queue, reply, executor, streams, health, senders, failures,
                   channel, rollover, ticket, session, node, sent>>

(* TimePersistenceExecutor::shutdown, then the terminal status *)
CloseTime ==
    /\ host.at = "closing time"
    /\ \/ completions.time # <<>> /\ completions' = [completions EXCEPT !.time = Tail(@)] /\ UNCHANGED host
       \/ /\ completions.time = <<>> /\ executor.time.at = "exited" /\ UNCHANGED completions
          /\ host' = [host EXCEPT !.at = "ended", !.level = terminal_level,
                         !.phase = IF host.cause = "none" /\ summary_clean THEN "Stopped" ELSE "Faulted"]
    /\ UNCHANGED <<disk, repository, queue, control, reply, executor, streams, health, senders, failures,
                   channel, rollover, ticket, session, node, sent>>
------------------------
TimeThread == (TimeControl \/ TimeReplace \/ TimeProcess \/ Deliver("time")) /\ UNCHANGED hostVars
TelemetryThread == (TelemetryControl \/ TelemetryProcess \/ TelemetryDrain \/ Deliver("telemetry")) /\ UNCHANGED hostVars
Start == StartAuditFails \/ StartChannel \/ StartDone
Turn == Supervise \/ RecoveryAnswered \/ \E k \in Kinds : ServeRollover(k) \/ RolloverAnswered(k)
Stop == JoinChannels \/ CloseTelemetry \/ CloseTime
Thread(c) == TakeStop(c) \/ ThreadEnds(c)
Work(c) == TimeAnswer(c) \/ TelemetryAnswer(c) \/ NodeRestarts(c) \/ BeginRollover(c) \/ CheckTickets(c) \/ StepFails(c)

Next == TimeThread \/ TelemetryThread \/ Start \/ HostStops \/ Turn \/ Stop \/ \E c \in Channels : Thread(c) \/ Work(c)

(* Every thread the process started keeps running: the executors, the main thread,
   and each channel, whose controlled shutdown has a time limit. *)
Fairness ==
    /\ WF_supervisionVars(TimeThread) /\ WF_supervisionVars(TelemetryThread)
    /\ WF_supervisionVars(Start) /\ WF_supervisionVars(Turn) /\ WF_supervisionVars(Stop)
    /\ \A c \in Channels : WF_supervisionVars(Thread(c))

Spec == Init /\ [][Next]_supervisionVars /\ Fairness
------------------------
ObservationNumbers(n) == [i \in 1 .. n |-> i]
Numbers(records) == [i \in DOMAIN records |-> records[i].at]
(* The record a failed append left with the worker, while it is not in the file. *)
Uncertain(s) == LET held == {r \in {executor.time.failed, executor.time.retry} : r.stream = s /\ r.at > Len(disk.time[s])}
                IN IF held = {} THEN <<>> ELSE <<CHOOSE r \in held : TRUE>>

(* Every Time observation the queue took is in the WAL of its stream, in order and once,
   or still waits in the order it came, whatever appends failed and were recovered. *)
TimeWalExact ==
    \A s \in Streams : Numbers(disk.time[s] \o Uncertain(s) \o SelectSeq(queue.time, LAMBDA r : r.stream = s))
                       = ObservationNumbers(sent.time[s])

Successes(s, records) == Len(SelectSeq(records, LAMBDA c : c.record.stream = s /\ c.result = "ok"))
(* The counts TimePersistenceHealth publishes never run ahead of the WAL and miss only
   completions still on their way; the only integrity fault is a recovery that failed
   again, never a miscounted or an unknown stream. *)
HealthTruthful ==
    /\ health.error \in {"none", "UnexpectedFailure"}
    /\ health.error = "UnexpectedFailure" => failures > 1
    /\ host.lifecycle = "Running" => \A s \in DOMAIN health.count :
          /\ s \in DOMAIN repository.time
          /\ health.count[s] + Successes(s, completions.time) + Successes(s, executor.time.out) = repository.time[s].count

(* A process that reports Stopped lost no Telemetry record it had taken, every channel
   thread it ran was stopped clean, and no fault that demands a stop is in its health. *)
StoppedIsClean ==
    host.phase = "Stopped" =>
       /\ queue.telemetry = <<>> /\ ~executor.telemetry.faulted /\ host.level # "StopRequired"
       /\ \A c \in Threads : channel[c].phase = "Stopped" /\ channel[c].clean

(* What the process says of itself is so, while it runs and when it has ended. *)
ReportsTruthful == HealthTruthful /\ StoppedIsClean

(* Once a stop is requested and no submitter is left behind by a failed start, the
   process ends: every channel, Telemetry and Time are closed, none waits for another. *)
ProcessEnds == (host.lifecycle = "StopRequested" /\ Local \notin senders) ~> host.at = "ended"

(* "All submitter clones owned by channel workers must be dropped first", says
   TelemetryPersistenceExecutor::shutdown of its caller. *)
SubmittersDroppedFirst == host.at = "closing telemetry" => senders = {}
=============================================================================
