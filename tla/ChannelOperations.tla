-------------------------- MODULE ChannelOperations --------------------------
(* The operations controller of one channel (operations.rs): a bounded inbox
   of requests, the ledger that makes a retry idempotent, the operating mode,
   the one operation that may be active, and the audit every phase change is
   written to before anything else happens.

   A request is its id and its kind; the target and the parameters are what
   tells two requests with one id apart, and only their equality matters: the
   kind stands for all of it.  Every error that poll_command returns to
   ChannelWorker::step ends the channel task: task is then the error. *)
EXTENDS Integers, Sequences, FiniteSets, SequencesExt

CONSTANTS
    Ids,            \* operation ids the clients use
    Kinds,          \* kinds of operation the clients submit
    MailboxCapacity,
    LedgerCapacity,
    AuditMayFail,   \* whether an append to the audit may fail
    MaxRequests     \* bound of the model: requests submitted in a behaviour

Modes == {"Recording", "EnteringMaintenance", "Maintenance",
          "ResumingRecording", "Faulted", "Offline"}

OperationKinds ==
    {"ReadStatus", "EnterMaintenance", "ResumeRecording", "GetConfiguration",
     "ValidateConfiguration", "ApplyConfiguration", "ResetConfiguration",
     "SetTelemetryInterval", "RestartNode",
     "ScanUnassigned", "AssignAddress"}

Terminal == {"Succeeded", "Rejected", "Failed"}

(* ChannelOperationsPolicy::validate, OperationLedger::new and
   channel_command_mailbox refuse a capacity of zero. *)
ASSUME OperationsAssumption ==
    /\ Kinds \subseteq OperationKinds
    /\ MailboxCapacity \in Nat \ {0}
    /\ LedgerCapacity \in Nat \ {0}
    /\ MaxRequests \in Nat
    /\ AuditMayFail \in BOOLEAN

NoRequest == [id |-> 0, kind |-> "none"]

VARIABLES
    mode,      \* the operating mode of the channel
    inbox,     \* requests the worker has not polled
    ledger,    \* OperationLedger: records [id, kind, phase], oldest first
    active,    \* the request of active_operation, or NoRequest
    audit,     \* phases written to the audit for each id, oldest first
    task,      \* "running", "stopping", or the error step returned
    submitted  \* how many requests the clients have submitted

opsVars == <<mode, inbox, ledger, active, audit, task, submitted>>

OpsInit ==
    /\ mode = "Recording"
    /\ inbox = <<>>
    /\ ledger = <<>>
    /\ active = NoRequest
    /\ audit = [i \in Ids |-> <<>>]
    /\ task = "running"
    /\ submitted = 0

(* The modes in which admit_operation lets each kind of operation start. *)
AdmittedModes(kind) ==
    CASE kind = "ReadStatus" -> Modes
      [] kind = "EnterMaintenance" -> {"Recording"}
      [] kind = "ResumeRecording" -> {"Maintenance"}
      [] kind \in {"GetConfiguration", "ValidateConfiguration", "ApplyConfiguration",
                   "ResetConfiguration", "SetTelemetryInterval"} ->
             {"Recording", "Maintenance", "Faulted"}
      [] kind = "RestartNode" -> {"Maintenance", "Faulted", "Offline"}
      [] kind \in {"ScanUnassigned", "AssignAddress"} -> {"Maintenance"}

(* Whether the ledger already knows the id, and the record it keeps for it. *)
Known(id) == \E i \in DOMAIN ledger : ledger[i].id = id
RecordOf(l, id) == l[CHOOSE i \in DOMAIN l : l[i].id = id]

Evictable == {i \in DOMAIN ledger : ledger[i].phase \in Terminal}
Oldest(S) == CHOOSE i \in S : \A j \in S : i <= j

LedgerFull == Len(ledger) = LedgerCapacity /\ Evictable = {}
IdConflict(r) == Known(r.id) /\ RecordOf(ledger, r.id).kind # r.kind

(* OperationLedger::register of an id the ledger does not know, and a place
   for it: at capacity the oldest finished operation is forgotten. *)
Register(r) ==
    Append(IF Len(ledger) < LedgerCapacity
           THEN ledger
           ELSE RemoveAt(ledger, Oldest(Evictable)),
           [id |-> r.id, kind |-> r.kind, phase |-> "Accepted"])

(* valid_phase_transition. *)
ValidPhaseTransition(from, to) ==
    \/ from = "Accepted" /\ to \in {"Running", "Rejected", "Failed"}
    \/ from = "Running" /\ to \in {"Succeeded", "Failed"}

(* OperationLedger::set_phase: an unknown id or a transition that is not valid
   is an error. *)
MayMove(l, id, phases) ==
    /\ \E i \in DOMAIN l : l[i].id = id
    /\ ValidPhaseTransition(RecordOf(l, id).phase, phases[1])
    /\ \A k \in 2 .. Len(phases) : ValidPhaseTransition(phases[k - 1], phases[k])

SetPhase(l, id, phase) ==
    [i \in DOMAIN l |-> IF l[i].id = id THEN [l[i] EXCEPT !.phase = phase] ELSE l[i]]

\* Mutant: the phase is set and not audited.
AuditedNot(l, id, before, phases) ==
    /\ ledger' = SetPhase(l, id, Last(phases))
    /\ audit' = [audit EXCEPT ![id] = @ \o before]
    /\ task' = task
(* The ledger l after the phases, each audited by audit_record once it is set.
   A phase that cannot be set, or an append that fails, ends the task. *)
Audited(l, id, before, phases) ==
    \/ /\ MayMove(l, id, phases)
       /\ ledger' = SetPhase(l, id, Last(phases))
       /\ audit' = [audit EXCEPT ![id] = @ \o before \o phases]
       /\ task' = task
    \/ /\ ~MayMove(l, id, phases)
       /\ ledger' = l
       /\ audit' = [audit EXCEPT ![id] = @ \o before]
       /\ task' = "LedgerError"
    \/ /\ AuditMayFail /\ before # <<>>
       /\ ledger' = l /\ audit' = audit
       /\ task' = "AuditUnavailable"
    \/ /\ AuditMayFail
       /\ \E k \in 1 .. Len(phases) :
              /\ ledger' = SetPhase(l, id, phases[k])
              /\ audit' = [audit EXCEPT ![id] = @ \o before \o SubSeq(phases, 1, k - 1)]
       /\ task' = "AuditUnavailable"

(* A client: ChannelOperationsHandle::try_submit through ChannelCommandPort. A
   full mailbox refuses the request, and the client keeps it. *)
TrySubmit(id, kind) ==
    /\ submitted < MaxRequests
    /\ Len(inbox) < MailboxCapacity
    /\ inbox' = Append(inbox, [id |-> id, kind |-> kind])
    /\ submitted' = submitted + 1
    /\ UNCHANGED <<mode, ledger, active, audit, task>>

(* ChannelOperationsController::poll_command. *)
PollNothing == inbox = <<>> /\ UNCHANGED <<inbox, ledger, active, audit, task>>

PollExisting(r) ==
    /\ Known(r.id) /\ ~IdConflict(r)
    /\ UNCHANGED <<ledger, active, audit, task>>

PollError(r) ==
    /\ \/ IdConflict(r) /\ task' = "OperationIdConflict"
       \/ ~Known(r.id) /\ LedgerFull /\ task' = "LedgerFull"
    /\ UNCHANGED <<ledger, active, audit>>

PollRejected(r) ==
    /\ ~Known(r.id) /\ ~LedgerFull
    /\ mode \notin AdmittedModes(r.kind) \/ active # NoRequest
    /\ Audited(Register(r), r.id, <<"Accepted">>, <<"Rejected">>)
    /\ active' = active

PollStarted(r) ==
    /\ ~Known(r.id) /\ ~LedgerFull
    /\ mode \in AdmittedModes(r.kind) /\ active = NoRequest
    /\ Audited(Register(r), r.id, <<"Accepted">>,
               IF r.kind = "ReadStatus" THEN <<"Running", "Succeeded">>
               ELSE <<"Running">>)
    /\ active' = IF r.kind # "ReadStatus" /\ task' = task THEN r ELSE active

PollCommand ==
    \/ PollNothing
    \/ /\ inbox # <<>>
       /\ inbox' = Tail(inbox)
       /\ \/ PollExisting(Head(inbox))
          \/ PollError(Head(inbox))
          \/ PollRejected(Head(inbox))
          \/ PollStarted(Head(inbox))

(* finish_active(true), complete_active, fail_active and
   fail_active_with_result: the active operation is taken first, and without
   one they return NoActiveOperation. *)
EndActive(phase) ==
    /\ active' = NoRequest
    /\ IF active = NoRequest
       THEN task' = "NoActiveOperation" /\ UNCHANGED <<ledger, audit>>
       ELSE Audited(ledger, active.id, <<>>, <<phase>>)
    /\ UNCHANGED <<inbox, submitted>>

=============================================================================
