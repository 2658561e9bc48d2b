----------------------------- MODULE ChannelAgent -----------------------------
(* One half-duplex RS485 channel of the host: TransactionCore (transaction.rs)
   correlates one request with one response, ChannelAgent (channel_agent.rs)
   owns the work that is queued, on the wire or waiting to be handed off, and
   ChannelEndpoint::step (channel_endpoint.rs) drives both: it polls the agent
   with one reading of the clock, and when there is nothing to do it listens
   on the port and hands what arrived to the agent with a later reading.

   Time is what the code compares: whether the last attempt's deadline, and
   then its guard time, have passed, and whether a retry must still be held
   back.  Responses may be lost, or delayed past any of these, and may
   overtake each other; the one assumption is the one the protocol makes, that
   a response does not outlive IdSpace (2^32) later attempts. *)
EXTENDS Integers, Sequences, FiniteSets, SequencesExt

CONSTANTS
    Addresses,            \* addresses of the nodes on the channel
    IdSpace,          \* transaction ids are counted modulo IdSpace
    OperationSpace,   \* operation ids are 1 .. OperationSpace
    TransactionSeed,  \* the first transaction id
    OperationSeed,    \* the first operation id (0 stands for 1)
    MaxPending,       \* policy.max_pending_work_items
    AttemptsPerSlot,  \* policy.measurement_attempts_per_slot
    Workloads         \* bound of the model: kinds of work and how many are
                      \* ever submitted, one of which is met in a behaviour

Operations == {"Lifecycle", "ConfigurationRead", "ConfigurationChange",
               "Probe", "Assign"}
ControlKinds == Operations \cup {"Handshake", "StreamState"}
AllKinds == ControlKinds \cup {"Measurement", "TimeSync", "Telemetry"}
Identified == {"Lifecycle", "ConfigurationChange", "Assign"}

ASSUME ChannelAssumption ==
    /\ Workloads \subseteq [kinds : SUBSET AllKinds, count : Nat]
    /\ IdSpace \in Nat \ {0, 1}
    /\ TransactionSeed \in 0 .. (IdSpace - 1)
    /\ OperationSeed \in 0 .. OperationSpace
    /\ MaxPending \in Nat \ {0}
    /\ OperationSpace \in Nat /\ OperationSpace > MaxPending
    /\ AttemptsPerSlot \in Nat \ {0}

CommissioningAddress == "commissioning"

(* No work: Option::None of active and completed_measurement. *)
NoWork == [kind |-> "none", node |-> "none", op |-> 0, phase |-> "none",
         attempts |-> 0, held |-> FALSE, sent |-> FALSE, n |-> 0]

VARIABLES
    tx,         \* TransactionCore: state, and the attempt it holds
    next_id,    \* next_transaction_id
    next_op,    \* next_operation_id
    pending,    \* queue of work not yet started
    owner,      \* `active`: the work that owns the channel, or NoWork
    completed,  \* a measurement transfer waiting for the coordinator, or NoWork
    turn,         \* where ChannelEndpoint::step is: "poll" or "receive"
    window,     \* of the last attempt: "closed", "open", "late", "elapsed"
    wire,       \* responses the port has not delivered (yet)
    load,       \* the workload of this behaviour
    given,  \* how many works were submitted
    ended,      \* how often each work was reported as done, or abandoned
    stranded    \* the execution that owns the channel returns before it steps it

agentVars == <<tx, next_id, next_op, pending, owner, completed, turn, window, wire,
          load, given, ended>>
threadVars == <<agentVars, stranded>>

Idle == [state |-> "Idle"]
Statuses == {"Ok", "Busy", "Progress", "Bad", "Mismatch"}

(* What a node can answer to each kind of request, as far as the agent tells
   answers apart: "Bad" is any other remote status or an undecodable payload,
   "Mismatch" a well-formed answer that contradicts the request, where that is
   treated differently. *)
StatusesOf(kind) ==
    CASE kind = "Lifecycle" -> {"Ok", "Busy", "Progress", "Bad"}
      [] kind \in {"StreamState", "ConfigurationRead", "ConfigurationChange",
                   "Assign"} -> {"Ok", "Busy", "Bad"}
      [] kind = "Measurement" -> {"Ok", "Busy", "Bad", "Mismatch"}
      [] kind = "Probe" -> {"Ok", "Bad", "Mismatch"}
      [] kind \in {"Handshake", "TimeSync", "Telemetry"} -> {"Ok", "Bad"}

(* --- the parts of a work item -------------------------------------------- *)

FirstPhase(kind) == IF kind = "Handshake" THEN "NeedIdentity" ELSE "Ready"
Phases == {"Ready", "AwaitingResponse", "ReconcileRequired", "Failed",
           "NeedIdentity", "NeedCapabilities"}

NewWork(kind, node, op) ==
    [kind |-> kind, node |-> node, op |-> op, phase |-> FirstPhase(kind),
     attempts |-> 0, held |-> FALSE, sent |-> FALSE, n |-> given + 1]

(* Operations and pulls are marked while their response is awaited; the other
   kinds keep no phase of their own. *)
Marked(kind) == kind \in Operations \cup {"Measurement"}
Sendable(a) == a.phase \in {"Ready", "ReconcileRequired", "NeedIdentity",
                            "NeedCapabilities"}
MessageOf(a) == IF a.kind = "Handshake" THEN a.phase ELSE a.kind

ControlKey(a) == <<a.kind, a.node, a.op>>

Queued == Len(pending) + (IF owner = NoWork THEN 0 ELSE 1)
                       + (IF completed = NoWork THEN 0 ELSE 1)

operation_id_in_use(op) ==
    \/ owner.op = op
    \/ \E i \in DOMAIN pending : pending[i].op = op

NextOp(op) == IF op = OperationSpace THEN 1 ELSE op + 1

(* The first free id met counting up from next_operation_id. *)
FreeOps == {d \in 0 .. MaxPending :
               ~operation_id_in_use(((next_op - 1 + d) % OperationSpace) + 1)}
allocate_operation_id == ((next_op - 1 + Min(FreeOps)) % OperationSpace) + 1

(* --- TransactionCore ----------------------------------------------------- *)

(* Mutant: the transaction id is not compared. *)
matches_route_only(m) == m.node = tx.node /\ m.message = tx.message

matches(m) == m.id = tx.id /\ m.node = tx.node /\ m.message = tx.message

(* prepare followed by mark_transmitted: a fresh id, the deadline armed after
   the whole request left the port. *)
begin(a) ==
    /\ tx' = [state |-> "Awaiting", id |-> next_id, node |-> a.node,
              message |-> MessageOf(a)]
    /\ next_id' = (next_id + 1) % IdSpace
    /\ window' = "open"

enter_quarantine == tx' = [tx EXCEPT !.state = "Quarantine"]

expired == window \in {"late", "elapsed"}
TimedOut == tx.state = "Awaiting" /\ expired
(* Mutant: only the owner of the expired attempt ends its quarantine. *)
GuardOver_owned == owner # NoWork /\ tx.state = "Quarantine" /\ window = "elapsed"

GuardOver == tx.state = "Quarantine" /\ window = "elapsed"

(* --- what every kind of work does when an attempt comes to nothing --------- *)

(* mark_timeout, mark_attempt_uncertain, mark_transmit_failed. *)
AfterUncertain(a) ==
    [a EXCEPT !.held = TRUE,
              !.phase = IF a.kind \in {"Measurement", "Probe"} THEN "Ready"
                        ELSE IF a.kind \in Operations THEN "ReconcileRequired"
                        ELSE @]

Exhausted(a) == a.kind = "Measurement" /\ a.attempts >= AttemptsPerSlot

End(a) == ended' = [ended EXCEPT ![a.n] = @ + 1]

handoff_active_measurement(a) ==
    /\ owner' = NoWork
    /\ completed' = a
    /\ UNCHANGED ended

Drop(a) ==
    /\ owner' = NoWork
    /\ End(a)
    /\ UNCHANGED completed

Keep(a) == owner' = a /\ UNCHANGED <<completed, ended>>

(* The common end of a failed attempt: a pull that used up its slot goes back
   to the coordinator, a reading is given up, everything else is retried. *)
Retry(a) ==
    \/ Exhausted(a) /\ handoff_active_measurement(a)
    \/ a.kind \in {"TimeSync", "Telemetry"} /\ Drop(a)
    \/ ~Exhausted(a) /\ a.kind \notin {"TimeSync", "Telemetry"} /\ Keep(a)

(* --- submit_*, abandon_control_work, take_completed_measurement ------------ *)

AddressOf(kind, node) ==
    IF kind \in {"Probe", "Assign"} THEN CommissioningAddress ELSE node

submit(kind, node) ==
    LET op == IF kind \in Identified THEN allocate_operation_id ELSE 0 IN
    /\ turn = "poll"
    /\ given < load.count
    /\ Queued < MaxPending
    /\ pending' = Append(pending, NewWork(kind, AddressOf(kind, node), op))
    /\ next_op' = IF op = 0 THEN next_op ELSE NextOp(op)
    /\ given' = given + 1
    /\ UNCHANGED <<tx, next_id, owner, completed, turn, window, wire, load,
                   ended>>

(* Mutant: work is abandoned while its request is on the wire. *)
abandon_active_in_flight ==
    /\ turn = "poll"
    /\ owner # NoWork /\ owner.kind \in ControlKinds
    /\ Drop(owner)
    /\ UNCHANGED <<tx, next_id, next_op, pending, turn, window, wire, load, given>>

(* The active work matches the key: it is dropped only between attempts. *)
abandon_active ==
    /\ turn = "poll"
    /\ owner # NoWork /\ owner.kind \in ControlKinds
    /\ tx = Idle
    /\ Drop(owner)
    /\ UNCHANGED <<tx, next_id, next_op, pending, turn, window, wire, load, given>>

(* Otherwise the first queued work that matches it. *)
abandon_queued(i) ==
    /\ turn = "poll"
    /\ pending[i].kind \in ControlKinds
    /\ ControlKey(owner) # ControlKey(pending[i])
    /\ \A k \in 1 .. (i - 1) : ControlKey(pending[k]) # ControlKey(pending[i])
    /\ pending' = RemoveAt(pending, i)
    /\ End(pending[i])
    /\ UNCHANGED <<tx, next_id, next_op, owner, completed, turn, window, wire,
                   load, given>>

take_completed_measurement ==
    /\ turn = "poll"
    /\ completed # NoWork
    /\ completed' = NoWork
    /\ End(completed)
    /\ UNCHANGED <<tx, next_id, next_op, pending, owner, turn, window, wire,
                   load, given>>

(* --- ChannelEndpoint::step: the agent is polled ---------------------------- *)

Polling == turn = "poll" /\ completed = NoWork

StepTimedOut ==
    /\ Polling /\ TimedOut
    /\ enter_quarantine
    /\ IF owner.kind = "Probe" THEN Drop(owner)
                                ELSE Retry(AfterUncertain(owner))
    /\ UNCHANGED <<next_id, next_op, pending, turn, window, wire, load, given>>

StepQuarantineEnded ==
    /\ Polling /\ GuardOver
    /\ tx' = Idle
    /\ UNCHANGED <<next_id, next_op, pending, owner, completed, turn, window,
                   wire, load, given, ended>>

(* With no timer due, the next work is started if none is active. *)
Started == IF owner = NoWork /\ pending # <<>> THEN Head(pending) ELSE owner
Waiting == IF owner = NoWork /\ pending # <<>> THEN Tail(pending) ELSE pending

NoTimer == Polling /\ ~TimedOut /\ ~GuardOver
ToSend == Started # NoWork /\ ~Started.held /\ tx = Idle

(* Of the responses under way those older than IdSpace attempts are left out. *)
InFlight(answers) ==
    {[m EXCEPT !.age = @ + 1] : m \in {o \in wire : o.age + 1 < IdSpace}}
        \cup answers

Answers(a) ==
    {{}} \cup {{[id |-> next_id, node |-> a.node, message |-> MessageOf(a),
                 status |-> s, age |-> 0]} : s \in StatusesOf(a.kind)}

(* begin_attempt, and the attempt is counted. *)
Begun(a) ==
    [a EXCEPT !.sent = TRUE,
              !.phase = IF Marked(a.kind) THEN "AwaitingResponse" ELSE @,
              !.attempts = IF a.kind = "Measurement" THEN @ + 1 ELSE @]

StepTransmit ==
    /\ NoTimer /\ ToSend /\ Sendable(Started)
    /\ begin(Started)
    /\ Keep(Begun(Started))
    /\ \E answers \in Answers(Started) : wire' = InFlight(answers)
    /\ pending' = Waiting
    /\ UNCHANGED <<next_op, turn, load, given>>

(* The port fails while writing: the request may or may not have left. *)
StepTransmitFailed ==
    /\ NoTimer /\ ToSend /\ Sendable(Started)
    /\ tx' = Idle
    /\ next_id' = (next_id + 1) % IdSpace
    /\ window' = "closed"
    /\ Retry(AfterUncertain(Begun(Started)))
    /\ \E answers \in Answers(Started) : wire' = InFlight(answers)
    /\ pending' = Waiting
    /\ UNCHANGED <<next_op, turn, load, given>>

(* begin_pull refuses a session that is not Ready, and poll returns the error. *)
StepFails ==
    /\ NoTimer /\ ToSend /\ ~Sendable(Started)
    /\ Started.kind = "Measurement"
    /\ UNCHANGED agentVars

(* poll returns Idle: step goes on to listen. *)
StepListen ==
    /\ NoTimer
    /\ ~ToSend \/ (Started.kind \in Operations /\ ~Sendable(Started))
    /\ turn' = "receive"
    /\ owner' = Started
    /\ pending' = Waiting
    /\ UNCHANGED <<tx, next_id, next_op, completed, window, wire, load, given,
                   ended>>

(* --- ChannelEndpoint::step: the agent is given what arrived ---------------- *)

NoData ==
    /\ turn = "receive"
    /\ turn' = "poll"
    /\ UNCHANGED <<tx, next_id, next_op, pending, owner, completed, window,
                   wire, load, given, ended>>

(* The work of an accepted response, by kind. *)
AcceptHandshake(a, s) ==
    /\ a.kind = "Handshake"
    /\ \/ s = "Ok" /\ a.phase = "NeedIdentity"
          /\ Keep([a EXCEPT !.phase = "NeedCapabilities", !.held = FALSE])
       \/ s = "Ok" /\ a.phase = "NeedCapabilities" /\ Drop(a)
       \/ s # "Ok" /\ Keep(a)

AcceptStreamState(a, s) ==
    /\ a.kind = "StreamState"
    /\ \/ s = "Busy" /\ Keep([a EXCEPT !.held = TRUE])
       \/ s # "Busy" /\ Drop(a)

AcceptOperation(a, s) ==
    /\ a.kind \in Operations
    /\ \/ s = "Ok" /\ Drop(a)
       \/ /\ s \in {"Busy", "Progress"}
          /\ Keep([a EXCEPT !.held = TRUE,
                            !.phase = IF s = "Busy" /\ a.kind \in
                                         {"Lifecycle", "ConfigurationRead"}
                                      THEN "Ready" ELSE "ReconcileRequired"])
       \/ s = "Bad" /\ a.kind = "Probe" /\ Keep(a)
       \/ /\ s = "Mismatch" \/ (s = "Bad" /\ a.kind # "Probe")
          /\ Keep([a EXCEPT !.phase = "Failed"])

(* An undecodable answer sends the session to recovery through the hand-off; a
   chunk that breaks the contract is an error and the transfer stays active. *)
AcceptMeasurement(a, s) ==
    /\ a.kind = "Measurement"
    /\ \/ s = "Busy" /\ Retry([a EXCEPT !.held = TRUE, !.phase = "Ready"])
       \/ s \in {"Ok", "Bad"} /\ handoff_active_measurement(a)
       \/ s = "Mismatch" /\ Keep([a EXCEPT !.phase = "Failed"])

AcceptReading(a, s) == a.kind \in {"TimeSync", "Telemetry"} /\ Drop(a)

AcceptAnswer(m) ==
    /\ tx' = Idle
    /\ window' = "closed"
    /\ \/ AcceptHandshake(owner, m.status)
       \/ AcceptStreamState(owner, m.status)
       \/ AcceptOperation(owner, m.status)
       \/ AcceptMeasurement(owner, m.status)
       \/ AcceptReading(owner, m.status)

(* A frame that does not answer the active attempt changes no work; one that
   comes after the deadline starts the quarantine here. *)
Discard ==
    /\ IF TimedOut THEN enter_quarantine ELSE UNCHANGED tx
    /\ UNCHANGED <<owner, completed, window, ended>>

Accepted(m) == tx.state = "Awaiting" /\ ~expired /\ matches(m)

receive(m) ==
    /\ turn = "receive"
    /\ turn' = "poll"
    /\ wire' = wire \ {m}
    /\ IF Accepted(m) THEN AcceptAnswer(m) ELSE Discard
    /\ UNCHANGED <<next_id, next_op, pending, load, given>>

(* --- time ------------------------------------------------------------------ *)

ResponseDeadlinePasses ==
    /\ window = "open" /\ window' = "late"
    /\ UNCHANGED <<tx, next_id, next_op, pending, owner, completed, turn, wire,
                   load, given, ended>>

GuardTimePasses ==
    /\ window = "late" /\ window' = "elapsed"
    /\ UNCHANGED <<tx, next_id, next_op, pending, owner, completed, turn, wire,
                   load, given, ended>>

RetryDelayPasses ==
    /\ owner # NoWork /\ owner.held
    /\ owner' = [owner EXCEPT !.held = FALSE]
    /\ UNCHANGED <<tx, next_id, next_op, pending, completed, turn, window, wire,
                   load, given, ended>>

AgentInit ==
    /\ tx = Idle
    /\ next_id = TransactionSeed
    /\ next_op = IF OperationSeed = 0 THEN 1 ELSE OperationSeed
    /\ pending = <<>>
    /\ owner = NoWork
    /\ completed = NoWork
    /\ turn = "poll"
    /\ window = "closed"
    /\ wire = {}
    /\ load \in Workloads
    /\ given = 0
    /\ ended = [n \in 1 .. load.count |-> 0]

PollAgent ==
    \/ StepTimedOut \/ StepQuarantineEnded
    \/ StepTransmit \/ StepTransmitFailed \/ StepFails \/ StepListen
Receive == NoData \/ \E m \in wire : receive(m)
Caller ==
    \/ \E kind \in load.kinds, node \in Addresses : submit(kind, node)
    \/ abandon_active
    \/ \E i \in DOMAIN pending : abandon_queued(i)
    \/ take_completed_measurement
Time == ResponseDeadlinePasses \/ GuardTimePasses \/ RetryDelayPasses

AgentNext == PollAgent \/ Receive \/ Caller \/ Time

(* --- who steps the endpoint ------------------------------------------------ *)

(* The deadline of a restart or of a commissioning operation passes while its
   work is active and the transaction is not idle: abandon_control_work answers
   ControlAttemptInFlight, and drive_restart or drive_commissioning returns
   before endpoint.step(), now and every time it is called again. *)
Deadlined == {"Lifecycle", "Probe", "Assign", "Handshake"}

DeadlineStrands ==
    /\ turn = "poll" /\ ~stranded
    /\ owner.kind \in Deadlined /\ tx # Idle
    /\ stranded' = TRUE
    /\ UNCHANGED agentVars

(* Everything the agent does is done by the channel thread, between two
   returns of the execution that drives it. *)
Stepped(A) == ~stranded /\ A /\ UNCHANGED stranded

ThreadInit == AgentInit /\ stranded = FALSE
ThreadNext ==
    \/ Stepped(PollAgent \/ Receive \/ Caller)
    \/ Time /\ UNCHANGED stranded
    \/ DeadlineStrands

(* The channel thread steps its endpoint again and again while it does so at
   all, the coordinator takes a completed transfer as soon as it sees one, and
   time passes. *)
AgentSpec ==
    /\ ThreadInit /\ [][ThreadNext]_threadVars
    /\ WF_threadVars(Stepped(PollAgent \/ Receive))
    /\ WF_threadVars(Stepped(take_completed_measurement))
    /\ WF_agentVars(ResponseDeadlinePasses \/ GuardTimePasses)

------------------------
WorkItems ==
    [kind : AllKinds, node : Addresses \cup {CommissioningAddress},
     op : 0 .. OperationSpace, phase : Phases, attempts : Nat, held : BOOLEAN,
     sent : BOOLEAN, n : 1 .. load.count]

(* Every variable keeps its type, and the agent never holds more work than the
   policy allows (ensure_queue_capacity counts queued, active and completed). *)
AgentTypeOK ==
    /\ tx = Idle \/ tx \in [state : {"Awaiting", "Quarantine"},
                             id : 0 .. (IdSpace - 1),
                             node : Addresses \cup {CommissioningAddress},
                             message : AllKinds \cup Phases]
    /\ next_id \in 0 .. (IdSpace - 1) /\ next_op \in 1 .. OperationSpace
    /\ owner = NoWork \/ owner \in WorkItems
    /\ completed = NoWork \/ completed \in WorkItems
    /\ \A i \in DOMAIN pending : pending[i] \in WorkItems
    /\ turn \in {"poll", "receive"}
    /\ window \in {"closed", "open", "late", "elapsed"}
    /\ \A m \in wire : m.status \in Statuses /\ m.age \in 0 .. (IdSpace - 1)
    /\ load \in Workloads /\ given \in 0 .. load.count
    /\ Queued <= MaxPending

(* While a response is awaited, the work that sent the request is still the
   active one, in the phase that mark_timeout, mark_attempt_uncertain and
   accept_response require, and no transfer waits for hand-off: none of the
   InvariantViolation and UnexpectedPhase returns behind an accepted or
   expired attempt (channel_agent.rs:564, 833, 992) can happen. *)
AttemptOwned ==
    tx.state = "Awaiting" =>
        /\ owner # NoWork /\ owner.sent
        /\ tx.node = owner.node /\ tx.message = MessageOf(owner)
        /\ Marked(owner.kind) => owner.phase = "AwaitingResponse"
        /\ completed = NoWork

(* What ends an awaited attempt early is the response to that very attempt: no
   late, overtaken or reused-id response of an earlier attempt, of the same or
   of abandoned work, is taken for it (transaction.rs matches and receive).
   And a request is put on the half-duplex wire only when the last one was
   answered, or never left completely, or its deadline and guard time are over
   (transaction.rs prepare, on_timer). *)
AnswerBelongs ==
    [][/\ (tx.state = "Awaiting" /\ tx' = Idle) => \E m \in wire \ wire' : m.age = 0
       /\ next_id' # next_id => window \in {"closed", "elapsed"}]_agentVars

(* Each submitted work is in exactly one place - queued, active, waiting for
   hand-off, or ended - and is ended at most once. *)
Held(n) ==
    Cardinality({i \in DOMAIN pending : pending[i].n = n})
      + (IF owner.n = n THEN 1 ELSE 0) + (IF completed.n = n THEN 1 ELSE 0)
WorkConserved ==
    \A n \in DOMAIN ended :
        Held(n) + ended[n] = IF n <= given THEN 1 ELSE 0

(* One bus slot never costs more attempts than the policy's budget, whichever
   mix of timeouts, failed writes and Busy answers the attempts meet, so that
   one node cannot take over the channel (channel_agent.rs:606, 803, 965). *)
SlotBudget ==
    owner.attempts <= AttemptsPerSlot /\ completed.attempts <= AttemptsPerSlot

(* No two operations inside the agent share an operation id, across the wrap
   of the counter and whatever was abandoned (allocate_operation_id). *)
OperationIdsDistinct ==
    LET held == Append(pending, owner) IN
    \A i, k \in DOMAIN held :
        i # k /\ held[i].op = held[k].op => held[i].op = 0

(* Between two steps the agent is consistent: the attempt on the wire belongs
   to the active work, every work is in one place, no slot costs more than its
   budget and no operation id is in use twice. *)
AgentConsistent ==
    AgentTypeOK /\ AttemptOwned /\ WorkConserved /\ SlotBudget /\ OperationIdsDistinct

(* The bus is given back: after every transmitted request the channel becomes
   idle again, whatever is lost, late, abandoned or unread - except when the
   deadline of a restart or a commissioning operation passes in the meantime:
   then it never is, although the operation waits for exactly that
   (channel_worker.rs:1148, 917; OPERATIONS-API-V1.md:64-66 promises it). *)
BusRecovers ==
    /\ tx # Idle ~> (tx = Idle \/ stranded)
    /\ [](stranded => tx # Idle)

(* TRANSACTION-POLICY.md, section 3: once the deadline has passed the host
   marks the attempt as timed out, and the outcome does not depend on whether
   the timer or the serial queue is served first.  In quarantine, then, the
   active work is no longer waiting for the expired attempt. *)
ExpiredIsMarked ==
    tx.state = "Quarantine" => owner.phase # "AwaitingResponse"
=============================================================================
