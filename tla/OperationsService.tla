--------------------------- MODULE OperationsService ---------------------------
(* How an operator's command reaches a channel and what is kept of it: the
   sensor-operations client with its bounded retries, the datagram socket that
   may lose every message, the IPC server of the host process, the mailbox and
   ledger of the channel (ChannelOperations), and the audit WAL, which alone
   outlives a crash of the process.  What a started operation does is the
   business of ChannelWorker; here it succeeds or fails. *)
EXTENDS ChannelOperations, TLC

CONSTANTS
    Clients,        \* processes of sensor-operations
    SubmitTries,    \* exchanges of one submission (3 in the code)
    SocketCapacity, \* datagrams the socket holds
    MaxGets,        \* bound of the model: result queries of a client before its deadline
    MaxRestarts     \* bound of the model: crashes of the host process

(* parse_arguments: the operations that have a command *)
CommandKinds == OperationKinds \ {"ReadStatus", "SetTelemetryInterval"}

(* bind_with_budget refuses a zero budget; parse_arguments a zero timeout *)
ASSUME ServiceAssumption ==
    /\ Kinds \subseteq CommandKinds
    /\ SubmitTries \in Nat \ {0} /\ SocketCapacity \in Nat \ {0}
    /\ MaxGets \in Nat \ {0} /\ MaxRestarts \in Nat

VARIABLES
    client,     \* run_operation of each client
    socket,     \* datagrams the server has not received
    published,  \* ChannelOperationsSnapshot::records
    file,       \* the audit WAL: events, and a torn record at its end
    sequence,   \* OperationsAuditWal::next_sequence
    process,    \* the host process: up, down, or refused by its own audit
    restarts,   \* crashes so far
    started     \* how often this process started the operation of each id

serviceVars == <<client, socket, published, file, sequence, process, restarts, started>>
allVars == <<opsVars, serviceVars>>

NoAnswer == [ok |-> TRUE, phase |-> "none", reason |-> "none"]
Torn == [sequence |-> 0, id |-> 0, phase |-> "torn"]
------------------------
(* parse_arguments: the fields each command line sends *)
NodeCommands == {"GetConfiguration", "ValidateConfiguration", "ApplyConfiguration", "ResetConfiguration", "RestartNode"}
cli_fields(kind) ==
    (IF kind \in NodeCommands THEN {"node_address"} ELSE {})
    \cup (IF kind \in {"ValidateConfiguration", "ApplyConfiguration"} THEN {"configuration"} ELSE {})
    \cup (IF kind \in {"ApplyConfiguration", "ResetConfiguration"} THEN {"expected_revision"} ELSE {})
    \cup (CASE kind = "ScanUnassigned" -> {"round_nonce", "slot_count"}
            [] kind = "AssignAddress" -> {"round_nonce", "hardware_id", "new_node_address"}
            [] OTHER -> {})

(* submit_response: what the server asks of a request of each kind *)
ipc_fields(kind) ==
    CASE kind \in {"EnterMaintenance", "ResumeRecording"} -> {}
      [] kind \in {"GetConfiguration", "RestartNode"} -> {"node_address"}
      [] kind = "ValidateConfiguration" -> {"node_address", "configuration"}
      [] kind = "ApplyConfiguration" -> {"node_address", "configuration", "expected_revision"}
      [] kind = "ResetConfiguration" -> {"node_address", "expected_revision"}
      [] kind = "SetTelemetryInterval" -> {"node_address", "telemetry_interval_seconds"}
      [] kind = "ScanUnassigned" -> {"round_nonce", "slot_count"}
      [] kind = "AssignAddress" -> {"round_nonce", "hardware_id", "new_node_address"}

(* Mutant: a configuration is sent to the channel. *)
ipc_target_short(kind) ==
    IF kind \in {"GetConfiguration", "ValidateConfiguration", "ResetConfiguration",
                 "SetTelemetryInterval", "RestartNode"} THEN "node" ELSE "channel"
(* submit_response: the target it builds *)
ipc_target(kind) ==
    IF kind \in {"GetConfiguration", "ValidateConfiguration", "ApplyConfiguration", "ResetConfiguration",
                 "SetTelemetryInterval", "RestartNode"} THEN "node" ELSE "channel"

(* the kinds with parameters the command line takes unchecked *)
Ranged == {"ValidateConfiguration", "ApplyConfiguration", "SetTelemetryInterval", "ScanUnassigned", "AssignAddress"}

(* configuration_field and OperationRequest::validate: the values are in range *)
validate(kind, inRange) == kind \in Ranged => inRange

(* validate_scope *)
validate_scope(target, kind) ==
    \/ kind = "ReadStatus"
    \/ target = "channel" /\ kind \in {"EnterMaintenance", "ResumeRecording", "ScanUnassigned", "AssignAddress"}
    \/ target = "node" /\ kind \in {"GetConfiguration", "ValidateConfiguration", "ApplyConfiguration",
                                    "ResetConfiguration", "SetTelemetryInterval", "RestartNode"}
------------------------
(* The operation id is the operator's, or fresh: one id never names two requests. *)
ServiceInit ==
    /\ OpsInit
    /\ client \in [Clients -> [id : Ids, kind : Kinds, inRange : BOOLEAN, at : {"submit"}, tries : {0}, gets : {0},
                               answer : {NoAnswer}, exit : {"none"}]]
    /\ \A c, d \in Clients : client[c].id = client[d].id =>
                              client[c].kind = client[d].kind /\ client[c].inRange = client[d].inRange
    /\ \A c \in Clients : client[c].kind \in Ranged \/ client[c].inRange
    /\ socket = <<>> /\ published = <<>> /\ file = <<>> /\ sequence = 0
    /\ process = "up" /\ restarts = 0 /\ started = [i \in Ids |-> 0]

(* One exchange: a socket of its own is bound for the request and removed with the
   answer or the timeout, so a late answer finds nobody. *)
Waiting == {"submitting", "getting"}
Datagram(c) == [from |-> c, exchange |-> client[c].tries + client[c].gets,
                action |-> IF client[c].at = "submit" THEN "submit" ELSE "get"]
Awaits(c, d) == client[c].at \in Waiting /\ d.exchange = client[c].tries + client[c].gets - 1

quit(c, code) == client' = [client EXCEPT ![c].at = "done", ![c].exit = code, ![c].answer = NoAnswer]

(* request: the datagram waits for room in the server's socket, and has no server
   to go to while the process is down *)
Send(c) ==
    /\ client[c].at \in {"submit", "get"}
    /\ process = "up" => Len(socket) < SocketCapacity
    /\ socket' = IF process = "up" THEN Append(socket, Datagram(c)) ELSE socket
    /\ client' = [client EXCEPT ![c].at = IF @ = "submit" THEN "submitting" ELSE "getting",
                      ![c].tries = IF client[c].at = "submit" THEN @ + 1 ELSE @,
                      ![c].gets = IF client[c].at = "get" THEN @ + 1 ELSE @]
    /\ UNCHANGED <<opsVars, published, file, sequence, process, restarts, started>>

(* a submission is tried three times, a query until the deadline *)
exchange_failed(c) ==
    IF client[c].at = "submitting"
    THEN IF client[c].tries < SubmitTries THEN client' = [client EXCEPT ![c].at = "submit"] ELSE quit(c, "unavailable")
    ELSE \/ client[c].gets < MaxGets /\ client' = [client EXCEPT ![c].at = "get"]
         \/ quit(c, "unavailable")

(* the read timeout of an exchange, or the error of its send *)
TimeOut(c) ==
    /\ client[c].at \in Waiting /\ client[c].answer = NoAnswer
    /\ exchange_failed(c)
    /\ UNCHANGED <<opsVars, socket, published, file, sequence, process, restarts, started>>

(* run_operation: what the client makes of an answer *)
Receive(c) ==
    LET answer == client[c].answer
    IN /\ client[c].at \in Waiting /\ answer # NoAnswer
       /\ \/ ~answer.ok /\ quit(c, answer.reason)
          \/ /\ answer.ok /\ client[c].at = "submitting"
             /\ client' = [client EXCEPT ![c].at = "get", ![c].answer = NoAnswer]
          \/ answer.ok /\ client[c].at = "getting" /\ answer.phase = "Succeeded" /\ quit(c, "ok")
          \/ answer.ok /\ client[c].at = "getting" /\ answer.phase \in {"Rejected", "Failed"} /\ quit(c, answer.phase)
          \/ /\ answer.ok /\ client[c].at = "getting" /\ answer.phase \notin Terminal
             /\ \/ client[c].gets < MaxGets /\ client' = [client EXCEPT ![c].at = "get", ![c].answer = NoAnswer]
                \/ quit(c, "timeout")
       /\ UNCHANGED <<opsVars, socket, published, file, sequence, process, restarts, started>>
------------------------
(* dispatch, for a request of client c *)
Refusal(reason) == [ok |-> FALSE, phase |-> "none", reason |-> reason]
Answer(phase) == [ok |-> TRUE, phase |-> phase, reason |-> "none"]
Recorded(id) == \E i \in DOMAIN published : published[i].id = id

get_response(c) ==
    IF Recorded(client[c].id) THEN Answer(RecordOf(published, client[c].id).phase) ELSE Answer("queued")

(* try_submit of the handle *)
submit_result(kind, inRange) ==
    CASE ~validate(kind, inRange) -> Refusal("invalid")
      [] ~validate_scope(ipc_target(kind), kind) -> Refusal("WrongTargetScope")
      [] task # "running" -> Refusal("channel_disconnected")
      [] Len(inbox) = MailboxCapacity -> Refusal("queue_full")
      [] OTHER -> Answer("queued")

submit_response(c) ==
    LET kind == client[c].kind   id == client[c].id
    IN CASE ~(ipc_fields(kind) \subseteq cli_fields(kind)) -> Refusal("invalid_request")
         [] Recorded(id) -> IF RecordOf(published, id).kind = kind THEN Answer(RecordOf(published, id).phase)
                            ELSE Refusal("OperationIdConflict")
         [] OTHER -> submit_result(kind, client[c].inRange)

(* poll: one datagram; the answer is lost when the exchange is over.  (An answer lost
   to a peer that still waits is the same as one that comes after its timeout.) *)
ServerPoll ==
    LET d == Head(socket)   c == d.from
        answer == IF d.action = "submit" THEN submit_response(c) ELSE get_response(c)
    IN /\ process = "up" /\ socket # <<>>
       /\ socket' = Tail(socket)
       /\ inbox' = IF d.action = "submit" /\ answer = Answer("queued")
                   THEN Append(inbox, [id |-> client[c].id, kind |-> client[c].kind]) ELSE inbox
       /\ client' = IF Awaits(c, d) THEN [client EXCEPT ![c].answer = answer] ELSE client
       /\ UNCHANGED <<mode, ledger, active, audit, task, submitted, published, file, sequence, process, restarts, started>>
------------------------
(* append_record.  One that fails leaves nothing, a torn record or a whole one
   whose sync failed; either way the sequence stays and the task ends. *)
event(n, id, phase) == [sequence |-> n, id |-> id, phase |-> phase]
append_record(id) ==
    LET new == SubSeq(audit'[id], Len(audit[id]) + 1, Len(audit'[id]))
        whole == file \o [i \in DOMAIN new |-> event(sequence + i - 1, id, new[i])]
        lost == event(sequence + Len(new), id, RecordOf(ledger', id).phase)
    IN /\ sequence' = sequence + Len(new)
       /\ file' \in IF task' = "AuditUnavailable" THEN {whole, Append(whole, Torn), Append(whole, lost)} ELSE {whole}

(* the snapshot is published last, and not at all by a step that fails *)
publish == published' = IF task' = "running" THEN ledger' ELSE published

(* poll_command of the channel thread *)
ChannelPolls ==
    /\ process = "up" /\ task = "running" /\ inbox # <<>>
    /\ PollCommand
    /\ publish
    /\ IF audit' = audit /\ task' # "AuditUnavailable" THEN UNCHANGED <<file, sequence>> ELSE append_record(Head(inbox).id)
    /\ started' = IF active' # active THEN [started EXCEPT ![active'.id] = @ + 1] ELSE started
    /\ UNCHANGED <<mode, submitted, client, socket, process, restarts>>

(* the operation ends, one way or the other, and may have moved the channel *)
mode_after(phase) ==
    CASE phase = "Succeeded" /\ active.kind = "EnterMaintenance" -> "Maintenance"
      [] phase = "Succeeded" /\ active.kind = "ResumeRecording" -> "Recording"
      [] OTHER -> mode
OperationFinishes ==
    /\ process = "up" /\ task = "running" /\ active # NoRequest
    /\ \E phase \in {"Succeeded", "Failed"} : EndActive(phase) /\ mode' = mode_after(phase)
    /\ publish /\ append_record(active.id)
    /\ UNCHANGED <<client, socket, process, restarts, started>>
------------------------
(* Mutant: a torn record at the end is taken for a corrupt one. *)
recover_strict(f) == [ok |-> \A i \in DOMAIN f : f[i] # Torn /\ f[i].sequence = i - 1, file |-> f]
(* recover_and_count: a torn tail is cut off, anything else unexpected is refused *)
recover_and_count(f) ==
    LET cut == IF f # <<>> /\ Last(f) = Torn THEN Front(f) ELSE f
    IN [ok |-> \A i \in DOMAIN cut : cut[i] # Torn /\ cut[i].sequence = i - 1, file |-> cut]

(* The process dies, perhaps inside an append. *)
Crash ==
    /\ process = "up" /\ restarts < MaxRestarts
    /\ process' = "down" /\ restarts' = restarts + 1 /\ socket' = <<>>
    /\ file' \in {file} \cup (IF task = "running" /\ (inbox # <<>> \/ active # NoRequest) THEN {Append(file, Torn)} ELSE {})
    /\ UNCHANGED <<opsVars, client, published, sequence, started>>

(* OperationsAuditWal::open and a new ChannelOperationsController: the ledger is empty *)
Restart ==
    LET found == recover_and_count(file)
    IN /\ process = "down"
       /\ process' = IF found.ok THEN "up" ELSE "refused"
       /\ file' = found.file /\ sequence' = Len(found.file)
       /\ mode' = "Recording" /\ inbox' = <<>> /\ ledger' = <<>> /\ active' = NoRequest
       /\ audit' = [i \in Ids |-> <<>>] /\ task' = "running" /\ published' = <<>>
       /\ started' = [i \in Ids |-> 0]
       /\ UNCHANGED <<submitted, client, socket, restarts>>

ClientSteps(c) == Send(c) \/ TimeOut(c) \/ Receive(c)
ServiceNext == (\E c \in Clients : ClientSteps(c)) \/ ServerPoll \/ ChannelPolls \/ OperationFinishes \/ Crash \/ Restart

ServiceSpec == ServiceInit /\ [][ServiceNext]_allVars
ServiceSymmetry == Permutations(Ids) \cup Permutations(Clients)
------------------------
Happened(id, phase) == \E i \in DOMAIN file : file[i].id = id /\ file[i].phase = phase

(* What sensor-operations reports is what the audit holds: success only for an operation
   whose values were in range and whose success is on disk, rejection or failure
   likewise; and a command its own parser accepts is never refused by the server as
   malformed or of the wrong scope. *)
ExitIsTruth ==
    \A c \in Clients :
       /\ client[c].exit = "ok" => client[c].inRange /\ Happened(client[c].id, "Succeeded")
       /\ client[c].exit \in {"Rejected", "Failed"} => Happened(client[c].id, client[c].exit)
       /\ client[c].exit \notin {"invalid_request", "WrongTargetScope", "OperationIdConflict"}

(* However often a submission is repeated, one process starts the operation of an id once. *)
RetryStartsOnce == \A id \in Ids : started[id] <= 1

(* Whatever append failed or was cut short, the next start accepts the audit WAL, and an
   operation is only ever started with its start on disk. *)
AuditReopens ==
    /\ process # "refused"
    /\ \A id \in Ids : started[id] > 0 => Happened(id, "Running")

(* The audit is the truth a restart rests on, and no retry goes behind it. *)
AuditSound == AuditReopens /\ RetryStartsOnce
=============================================================================
