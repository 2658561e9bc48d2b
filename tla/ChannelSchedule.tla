---------------------------- MODULE ChannelSchedule ----------------------------
(* Who uses the bus next: ChannelScheduler ranks the work of one channel,
   ChannelRuntime keeps the schedule of every node (measurement or recovery,
   time sync, telemetry), ChannelWorkCoordinator holds what was dispatched
   until it is settled, and ChannelAdmission limits the load of the plan.
   Times are ticks relative to now: Tick moves them all; a deadline of -2 was
   missed two ticks ago.  Cursors are kept as backlogs (produced - received). *)
EXTENDS Integers, Sequences, SequencesExt, FiniteSets, FiniteSetsExt

CONSTANTS
    NodeCount,         \* nodes of the channel; their addresses are 1 .. NodeCount
    Faulty,            \* the nodes that may fail to answer or lose their stream, when any does
    JournalSamples,    \* journal_capacity_samples
    Chunk,             \* max_sample_chunk_samples
    Target,            \* target_chunk_samples
    Slot,              \* measurement_slot, and the other estimated slots
    ServiceInterval,   \* maximum_service_interval
    RetryBase, RetryMax, RetryLimit, ProbeInterval,
    SyncNodes, SyncInterval, SyncRetry, FirstSync, SyncStep,
    TelemetryNodes, TelemetryIntervals, TelemetryRetry,
    OverflowGuard,     \* overflow_guard of the scheduler's policy
    Periods,           \* ticks between two samples: the output rates of a node
    Parts, MaxUtilization, RecoveryReserve,   \* AdmissionPolicy, in parts of Parts
    RecoveryTime,      \* bound of the model: ticks one recovery attempt takes
    WriteTime,         \* bound of the model: ticks one write takes
    MaxLate,           \* bound of the model: lateness beyond this is not told apart
    MaxWait,           \* how late the work of a healthy node may be
    FirstPeriod, FirstInterval,   \* the plan the channel starts with
    MaxEvents          \* bound of the model: service intervals, interval changes and lost answers

Nodes == 1 .. NodeCount

(* NodeScheduleConfig::validate *)
NodeConfigValid ==
    /\ NodeCount \in Nat \ {0} /\ Faulty \subseteq Nodes /\ Chunk \in 1 .. JournalSamples /\ Target \in 1 .. Chunk
    /\ Slot \in 1 .. ServiceInterval /\ Periods \subseteq Nat \ {0} /\ FirstPeriod \in Periods
    /\ RetryBase \in 1 .. RetryMax /\ RetryLimit \in Nat \ {0} /\ ProbeInterval \in Nat \ {0}
(* TimeSyncScheduleConfig::validate, TelemetryScheduleConfig::validate *)
AuxiliaryConfigValid ==
    /\ SyncNodes \subseteq Nodes /\ Slot <= SyncInterval /\ SyncRetry \in Nat \ {0} /\ FirstSync >= Slot /\ SyncStep \in Nat
    /\ TelemetryNodes \subseteq Nodes /\ \A t \in TelemetryIntervals : Slot <= t
    /\ TelemetryRetry \in Nat \ {0} /\ FirstInterval \in TelemetryIntervals
(* ChannelAdmission::new *)
AdmissionPolicyValid == MaxUtilization \in 1 .. Parts /\ RecoveryReserve \in 0 .. MaxUtilization - 1
ASSUME ScheduleAssumption ==
    /\ NodeConfigValid /\ AuxiliaryConfigValid /\ AdmissionPolicyValid
    /\ RecoveryTime \in Nat \ {0} /\ WriteTime \in Nat /\ MaxLate \in Nat /\ MaxWait \in 0 .. MaxLate - 1 /\ MaxEvents \in Nat

VARIABLES
    node,       \* NodeScheduleState of every node
    sync,       \* TimeSyncScheduleState
    telemetry,  \* TelemetryScheduleState
    active,     \* active_dispatch, and the ticks its transaction still takes
    writes,     \* in_flight_writes: a parked measurement per node
    quiescing,
    drain,      \* shutdown_drain_nodes
    journal,    \* samples the node itself holds for the host
    phase,      \* ticks since the last sample of the node
    faulty,     \* the nodes that fail in this behaviour; when none does, the operator acts
    events      \* what else happened so far

schedule == <<node, sync, telemetry>>
custody == <<active, writes, quiescing, drain>>
scheduleVars == <<schedule, custody, journal, phase, faulty, events>>

NoDispatch == [class |-> "none"]
NoWrite == [left |-> -1, seen |-> 0]
NotDraining == <<0>>

CeilDiv(a, b) == (a + b - 1) \div b
------------------------
(* ChannelAdmission.  The load of a set of plans, in parts of Parts. *)
measurement_parts(period) == CeilDiv(Parts * Slot, period * Target)
periodic_parts(interval) == CeilDiv(Parts * Slot, interval)

evaluate(period, interval) ==
      FoldSet(LAMBDA n, sum : sum + measurement_parts(period[n]), 0, Nodes)
    + Cardinality(SyncNodes) * periodic_parts(SyncInterval)
    + FoldSet(LAMBDA n, sum : sum + periodic_parts(interval[n]), 0, TelemetryNodes)

accepted(period, interval) == evaluate(period, interval) + RecoveryReserve <= MaxUtilization

PeriodOf == [n \in Nodes |-> node[n].period]
IntervalOf == [n \in TelemetryNodes |-> telemetry[n].interval]
------------------------
(* NodeAvailability *)
recovery_cause(n) == node[n].avail \in {"Recovering", "OfflineRecovery"}
allows_auxiliary(n) == node[n].avail \in {"Online", "RetryBackoff"}

(* NodeScheduleState::time_to_overflow_us: what may have been produced since the
   last observation counts as backlog. *)
time_to_overflow(n) ==
    LET produced == CeilDiv(node[n].age, node[n].period)
    IN  Max({0, JournalSamples - (node[n].seen + produced)}) * node[n].period

(* The candidates of select_work.  queued_at is the time of the last observation
   wherever a rank reads it, so it is not kept: -age stands for it. *)
NodeCandidate(n) ==
    IF recovery_cause(n)
    THEN [class |-> "Control", node |-> n, ready |-> node[n].ready, deadline |-> node[n].ready]
    ELSE [class |-> "Measurement", node |-> n, ready |-> node[n].ready, deadline |-> node[n].deadline]
(* Mutant: a node whose measurement is being written counts as available. *)
AuxiliaryAvailable_parked(n) == allows_auxiliary(n)

AuxiliaryAvailable(n) == allows_auxiliary(n) /\ ~node[n].flight

SyncCandidate(n) == [class |-> "TimeSync", node |-> n, ready |-> sync[n].ready, deadline |-> sync[n].deadline]
TelemetryCandidate(n) ==
    [class |-> "Telemetry", node |-> n, ready |-> telemetry[n].ready, deadline |-> telemetry[n].deadline]

Candidates ==
    {NodeCandidate(n) : n \in {n \in Nodes : ~node[n].flight}}
    \cup {SyncCandidate(n) : n \in {n \in SyncNodes : ~sync[n].flight /\ AuxiliaryAvailable(n)}}
    \cup {TelemetryCandidate(n) : n \in {n \in TelemetryNodes : ~telemetry[n].flight /\ AuxiliaryAvailable(n)}}

class_order(class) == CASE class = "Control" -> 0 [] class = "Measurement" -> 1 [] class = "TimeSync" -> 2
                        [] class = "Telemetry" -> 4

(* ChannelScheduler::rank: imminent overflow, then arrived completion deadlines,
   then ordinary measurements; <<>> when the work has to wait. *)
Urgent(c) == c.class = "Measurement" /\ time_to_overflow(c.node) <= OverflowGuard
Due(c) == Slot >= c.deadline

(* Mutant: arrived deadlines are served by class, not by deadline. *)
rank_by_class(c) ==
    IF c.ready > 0 THEN <<>>
    ELSE IF Urgent(c) THEN <<0, time_to_overflow(c.node), -node[c.node].age, c.node>>
    ELSE IF Due(c) THEN <<1, class_order(c.class), c.deadline, c.node>>
    ELSE IF c.class = "Measurement" THEN <<2, time_to_overflow(c.node), -node[c.node].age, c.node>>
    ELSE <<>>

rank(c) ==
    IF c.ready > 0 THEN <<>>
    ELSE IF Urgent(c) THEN <<0, time_to_overflow(c.node), -node[c.node].age, c.node>>
    ELSE IF Due(c) THEN <<1, c.deadline, class_order(c.class), c.node>>
    ELSE IF c.class = "Measurement" THEN <<2, time_to_overflow(c.node), -node[c.node].age, c.node>>
    ELSE <<>>

Before(r, s) == \E k \in 1 .. 4 : r[k] < s[k] /\ \A j \in 1 .. k - 1 : r[j] = s[j]
Ranked == {c \in Candidates : rank(c) # <<>>}
(* ChannelScheduler::select *)
select == CHOOSE c \in Ranked : \A d \in Ranked : ~Before(rank(d), rank(c))

(* register_node, configure_time_sync and configure_telemetry: the first deadlines
   are spread over the nodes. *)
RegisteredNode == [seen |-> 0, age |-> 0, deadline |-> 0, ready |-> 0, avail |-> "Online", failures |-> 0,
                   flight |-> FALSE, period |-> FirstPeriod]
RegisteredSync(n) ==
    LET first == FirstSync + (n - 1) * SyncStep IN [deadline |-> first, ready |-> first - Slot, flight |-> FALSE]
RegisteredTelemetry(n) ==
    LET first == FirstInterval + (n - 1) * Slot
    IN  [deadline |-> first, ready |-> first - Slot, flight |-> FALSE, interval |-> FirstInterval]

(* assemble_recording_coordinator of a plan that admission accepted *)
Init ==
    /\ accepted([n \in Nodes |-> FirstPeriod], [n \in TelemetryNodes |-> FirstInterval])
    /\ node = [n \in Nodes |-> RegisteredNode]
    /\ sync = [n \in SyncNodes |-> RegisteredSync(n)]
    /\ telemetry = [n \in TelemetryNodes |-> RegisteredTelemetry(n)]
    /\ active = NoDispatch /\ writes = [n \in Nodes |-> NoWrite]
    /\ quiescing = FALSE /\ drain = NotDraining
    /\ journal = [n \in Nodes |-> 0] /\ phase = [n \in Nodes |-> 0]
    /\ faulty \in {{}, Faulty}
    /\ events = IF faulty = {} THEN 0 ELSE MaxEvents

Recording == ~quiescing /\ drain = NotDraining
NoWrites == \A n \in Nodes : writes[n] = NoWrite
is_quiescent == quiescing /\ active = NoDispatch /\ NoWrites
------------------------
(* dispatch_next_work *)
Dispatch(class, n, time) == active' = [class |-> class, node |-> n, left |-> time]

select_shutdown_measurement(n) ==
    ~recovery_cause(n) /\ ~node[n].flight /\ (node[n].failures > 0 => node[n].ready <= 0)
DrainDispatchable == drain # NotDraining /\ drain # <<>> /\ select_shutdown_measurement(Head(drain))

select_work ==
    /\ active = NoDispatch /\ Recording /\ Ranked # {}
    /\ LET c == select IN
         \/ /\ c.class \in {"Measurement", "Control"}
            /\ node' = [node EXCEPT ![c.node].flight = TRUE]
            /\ \E t \in IF c.class = "Control" THEN 1 .. RecoveryTime ELSE {Slot} :
                   Dispatch(c.class, c.node, t)
            /\ UNCHANGED <<sync, telemetry>>
         \/ /\ c.class = "TimeSync"
            /\ sync' = [sync EXCEPT ![c.node].flight = TRUE]
            /\ Dispatch(c.class, c.node, Slot) /\ UNCHANGED <<node, telemetry>>
         \/ /\ c.class = "Telemetry"
            /\ telemetry' = [telemetry EXCEPT ![c.node].flight = TRUE]
            /\ Dispatch(c.class, c.node, Slot) /\ UNCHANGED <<node, sync>>
    /\ UNCHANGED <<writes, quiescing, drain, journal, phase, faulty, events>>

dispatch_drain ==
    /\ active = NoDispatch /\ DrainDispatchable
    /\ node' = [node EXCEPT ![Head(drain)].flight = TRUE]
    /\ Dispatch("Measurement", Head(drain), Slot)
    /\ UNCHANGED <<sync, telemetry, writes, quiescing, drain, journal, phase, faulty, events>>

Event == events < MaxEvents /\ events' = events + 1
LostAnswer == IF active.node \in faulty THEN UNCHANGED events ELSE Event

(* The transaction of the active dispatch is over. *)
Answered(class) == active # NoDispatch /\ active.class = class /\ active.left = 0
Held(w) == w.flight
------------------------
(* Settling a measurement *)
next_measurement_ready(n, seen) ==
    Min({Max({0, Target - seen}) * node[n].period, ServiceInterval - Slot})
Completed(n, seen) ==
    [node EXCEPT ![n] = [@ EXCEPT !.seen = seen, !.age = 0, !.deadline = ServiceInterval,
                                  !.ready = next_measurement_ready(n, seen), !.avail = "Online",
                                  !.failures = 0, !.flight = FALSE]]
exponential_delay(failures) == Min({RetryMax, RetryBase * 2 ^ (failures - 1)})
(* Failures past the limit no longer tell anything apart, so they stop there. *)
Failures(n) == Min({node[n].failures + 1, RetryLimit + 1})
Delay(failures) == IF failures > RetryLimit THEN ProbeInterval ELSE exponential_delay(failures)
Failed(n, retrying, offline) ==
    [node EXCEPT ![n] = [@ EXCEPT !.failures = Failures(n), !.ready = Delay(Failures(n)), !.flight = FALSE,
                                  !.avail = IF Failures(n) > RetryLimit THEN offline ELSE retrying]]
Lost(n) == [node EXCEPT ![n] = [@ EXCEPT !.flight = FALSE, !.avail = "Recovering", !.failures = 0, !.ready = 0]]
Rejoined(n, seen) ==
    [node EXCEPT ![n] = [@ EXCEPT !.seen = seen, !.age = 0, !.deadline = 0, !.ready = 0, !.avail = "Online",
                                  !.failures = 0, !.flight = FALSE]]

(* handoff_completed: the samples go to the writer, park_measurement frees the bus. *)
handoff_completed ==
    /\ Answered("Measurement")
    /\ LET n == active.node
           data == Min({journal[n], Chunk})
       IN /\ Held(node[n]) /\ journal[n] > 0
          /\ writes' = [writes EXCEPT ![n] = [left |-> WriteTime, seen |-> journal[n] - data]]
          /\ journal' = [journal EXCEPT ![n] = @ - data]
    /\ active' = NoDispatch
    /\ UNCHANGED <<schedule, quiescing, drain, phase, faulty, events>>

(* settle_write_completion, finish_durable_write, complete_parked_measurement *)
settle_write_completion(n) ==
    /\ writes[n] # NoWrite
    /\ node[n].flight
    /\ \/ node' = Completed(n, writes[n].seen)
       \/ n \in faulty /\ node' = Lost(n)
    /\ writes' = [writes EXCEPT ![n] = NoWrite]
    /\ UNCHANGED <<sync, telemetry, active, quiescing, drain, journal, phase, faulty, events>>

(* A NoData answer ends the drain of the node. *)
observe_shutdown_settlement == IF drain # NotDraining THEN Tail(drain) ELSE drain

(* settle_completed: NoData *)
settle_no_data ==
    /\ Answered("Measurement") /\ Held(node[active.node]) /\ journal[active.node] = 0
    /\ node' = Completed(active.node, 0)
    /\ drain' = observe_shutdown_settlement
    /\ active' = NoDispatch
    /\ UNCHANGED <<sync, telemetry, writes, quiescing, journal, phase, faulty, events>>

(* settle_completed: no answer within the attempts of the slot. *)
fail_measurement ==
    /\ Answered("Measurement") /\ Held(node[active.node]) /\ active.node \in faulty
    /\ node' = Failed(active.node, "RetryBackoff", "Offline")
    /\ active' = NoDispatch
    /\ UNCHANGED <<sync, telemetry, writes, quiescing, drain, journal, phase, faulty, events>>

(* settle_completed: the session, or a regressed cursor, asks for recovery. *)
require_recovery ==
    /\ Answered("Measurement") /\ Held(node[active.node]) /\ active.node \in faulty
    /\ node' = Lost(active.node)
    /\ active' = NoDispatch
    /\ UNCHANGED <<sync, telemetry, writes, quiescing, drain, journal, phase, faulty, events>>
------------------------
(* Settling a recovery attempt; the stream of a node that rebooted starts empty. *)
complete_recovery ==
    /\ Answered("Control") /\ Held(node[active.node]) /\ recovery_cause(active.node)
    /\ \E held \in {journal[active.node], 0} :
          /\ journal' = [journal EXCEPT ![active.node] = held]
          /\ node' = Rejoined(active.node, held)
    /\ active' = NoDispatch
    /\ UNCHANGED <<sync, telemetry, writes, quiescing, drain, phase, faulty, events>>

fail_recovery ==
    /\ Answered("Control") /\ Held(node[active.node]) /\ recovery_cause(active.node)
    /\ node' = Failed(active.node, "Recovering", "OfflineRecovery")
    /\ active' = NoDispatch
    /\ UNCHANGED <<sync, telemetry, writes, quiescing, drain, journal, phase, faulty, events>>
------------------------
(* Settling time sync and telemetry; a failed one keeps its deadline. *)
complete_time_sync ==
    /\ Answered("TimeSync") /\ Held(sync[active.node])
    /\ sync' = [sync EXCEPT ![active.node] = [@ EXCEPT !.deadline = SyncInterval, !.ready = 0,
                                                       !.flight = FALSE]]
    /\ active' = NoDispatch
    /\ UNCHANGED <<node, telemetry, writes, quiescing, drain, journal, phase, faulty, events>>
fail_time_sync ==
    /\ Answered("TimeSync") /\ Held(sync[active.node]) /\ LostAnswer
    /\ sync' = [sync EXCEPT ![active.node] = [@ EXCEPT !.ready = SyncRetry, !.flight = FALSE]]
    /\ active' = NoDispatch
    /\ UNCHANGED <<node, telemetry, writes, quiescing, drain, journal, phase, faulty>>

complete_telemetry ==
    /\ Answered("Telemetry") /\ Held(telemetry[active.node])
    /\ telemetry' = [telemetry EXCEPT ![active.node] = [@ EXCEPT !.deadline = telemetry[active.node].interval,
                                                                 !.ready = 0, !.flight = FALSE]]
    /\ active' = NoDispatch
    /\ UNCHANGED <<node, sync, writes, quiescing, drain, journal, phase, faulty, events>>
fail_telemetry ==
    /\ Answered("Telemetry") /\ Held(telemetry[active.node]) /\ LostAnswer
    /\ telemetry' = [telemetry EXCEPT ![active.node] = [@ EXCEPT !.ready = TelemetryRetry, !.flight = FALSE]]
    /\ active' = NoDispatch
    /\ UNCHANGED <<node, sync, writes, quiescing, drain, journal, phase, faulty>>
------------------------
(* reconfigure_telemetry of the runtime: also while the telemetry is in flight. *)
Rescheduled(n, interval) ==
    [telemetry EXCEPT ![n] =
        IF @.flight THEN [@ EXCEPT !.interval = interval]
        ELSE [@ EXCEPT !.interval = interval, !.deadline = interval, !.ready = interval - Slot]]

(* SetTelemetryInterval: accept_telemetry_interval, then reconfigure_telemetry,
   also while the telemetry of the node is in flight. *)
reconfigure_telemetry(n, interval) ==
    /\ Event /\ telemetry[n].interval # interval
    /\ accepted(PeriodOf, [IntervalOf EXCEPT ![n] = interval])
    /\ telemetry' = Rescheduled(n, interval)
    /\ UNCHANGED <<node, sync, custody, journal, phase, faulty>>

Reconfigured(n, period) == [node EXCEPT ![n] = [@ EXCEPT !.period = period, !.age = 0, !.deadline = 0, !.ready = 0]]

(* ApplyConfiguration in a service interval: accept_configuration, reconfigure_node. *)
reconfigure_node(n, period) ==
    /\ period # node[n].period /\ is_quiescent /\ drain = NotDraining /\ ~node[n].flight /\ ~recovery_cause(n)
    /\ accepted([PeriodOf EXCEPT ![n] = period], IntervalOf)
    /\ node' = Reconfigured(n, period)
    /\ phase' = [phase EXCEPT ![n] = 0]
    /\ UNCHANGED <<sync, telemetry, custody, journal, faulty, events>>

begin_quiesce ==
    /\ Event /\ Recording /\ quiescing' = TRUE
    /\ UNCHANGED <<schedule, active, writes, drain, journal, phase, faulty>>

(* reconcile_resume_stream: a node that kept its stream goes on where it stands. *)
resume_node(n) ==
    [node[n] EXCEPT !.seen = journal[n], !.age = 0, !.deadline = 0, !.ready = 0, !.avail = "Online",
                    !.failures = 0]
(* replace_resume_stream: one that rebooted starts an empty stream. *)
replace_quiesced_node(n) == [resume_node(n) EXCEPT !.seen = 0, !.flight = FALSE]

(* Resume: every stream is reconciled or replaced, then resume_scheduling. *)
resume_scheduling(rebooted) ==
    /\ is_quiescent /\ drain = NotDraining /\ quiescing' = FALSE
    /\ \A n \in Nodes \ rebooted : ~recovery_cause(n)
    /\ node' = [n \in Nodes |-> IF n \in rebooted THEN replace_quiesced_node(n) ELSE resume_node(n)]
    /\ journal' = [n \in Nodes |-> IF n \in rebooted THEN 0 ELSE journal[n]]
    /\ UNCHANGED <<sync, telemetry, active, writes, drain, phase, faulty, events>>

begin_shutdown_drain ==
    /\ is_quiescent /\ drain = NotDraining
    /\ drain' = SelectSeq([n \in Nodes |-> n], LAMBDA n : ~recovery_cause(n))
    /\ quiescing' = FALSE
    /\ UNCHANGED <<schedule, active, writes, journal, phase, faulty, events>>

finish_shutdown_drain ==
    /\ drain = <<>> /\ active = NoDispatch /\ NoWrites
    /\ drain' = NotDraining /\ quiescing' = TRUE
    /\ UNCHANGED <<schedule, active, writes, journal, phase, faulty, events>>

abort_shutdown_drain ==
    /\ drain # NotDraining /\ drain' = NotDraining /\ quiescing' = TRUE
    /\ UNCHANGED <<schedule, active, writes, journal, phase, faulty, events>>
------------------------
(* A tick of the clock.  The worker polls without waiting, so time passes only
   while a transaction or a write runs or no work is ready.  A node produces a
   sample every period, except while it is stopped and drained, and overwrites the
   oldest when its journal is full.  An age that fills the journal stops there.  A
   service interval takes no time of its own: its handlers act one after another. *)
Idle == active = NoDispatch /\ ~DrainDispatchable /\ (Recording => Ranked = {})
Passed(w, ready) == [w EXCEPT !.deadline = Max({-MaxLate, @ - 1}), !.ready = Max({ready, @ - 1})]
Produces(n) == drain = NotDraining /\ phase[n] + 1 >= node[n].period

Tick ==
    /\ ~is_quiescent /\ (Idle \/ (active # NoDispatch /\ active.left > 0))
    /\ \A n \in Nodes : writes[n] = NoWrite \/ writes[n].left > 0
    /\ active' = IF active = NoDispatch THEN active ELSE [active EXCEPT !.left = @ - 1]
    /\ writes' = [n \in Nodes |-> IF writes[n] = NoWrite THEN NoWrite ELSE [writes[n] EXCEPT !.left = @ - 1]]
    /\ node' = [n \in Nodes |-> [Passed(node[n], IF recovery_cause(n) THEN -MaxLate ELSE 0)
                               EXCEPT !.age = Min({JournalSamples * node[n].period, @ + 1})]]
    /\ sync' = [n \in SyncNodes |-> Passed(sync[n], 0)]
    /\ telemetry' = [n \in TelemetryNodes |-> Passed(telemetry[n], 0)]
    /\ journal' = [n \in Nodes |-> Min({JournalSamples, journal[n] + (IF Produces(n) THEN 1 ELSE 0)})]
    /\ phase' = [n \in Nodes |-> IF Produces(n) THEN 0 ELSE IF drain = NotDraining THEN phase[n] + 1 ELSE phase[n]]
    /\ UNCHANGED <<quiescing, drain, faulty, events>>

Settle ==
    \/ handoff_completed \/ settle_no_data \/ fail_measurement \/ require_recovery
    \/ complete_recovery \/ fail_recovery \/ complete_time_sync \/ fail_time_sync
    \/ complete_telemetry \/ fail_telemetry
    \/ \E n \in Nodes : settle_write_completion(n)

Next ==
    \/ select_work \/ dispatch_drain \/ Settle \/ Tick
    \/ \E n \in TelemetryNodes, t \in TelemetryIntervals : reconfigure_telemetry(n, t)
    \/ \E n \in Nodes, p \in Periods : reconfigure_node(n, p)
    \/ begin_quiesce \/ \E rebooted \in SUBSET Faulty : resume_scheduling(rebooted)
    \/ begin_shutdown_drain \/ finish_shutdown_drain \/ abort_shutdown_drain

Spec == Init /\ [][Next]_scheduleVars
------------------------
(* Every work in flight has exactly one holder that will settle it: the active
   dispatch, or a write in progress with the same work id.  A flag left set would
   take the node out of the rotation for good, a cleared one would dispatch it
   while its session is away. *)
DispatchOwned ==
    /\ \A n \in Nodes :
          LET dispatched == active # NoDispatch /\ active.node = n /\ active.class \in {"Measurement", "Control"}
              written == writes[n] # NoWrite
          IN  /\ node[n].flight <=> (dispatched \/ written)
              /\ ~(dispatched /\ written)
    /\ \A n \in SyncNodes :
          sync[n].flight <=> (active # NoDispatch /\ active.class = "TimeSync" /\ active.node = n)
    /\ \A n \in TelemetryNodes :
          telemetry[n].flight <=> (active # NoDispatch /\ active.class = "Telemetry" /\ active.node = n)

(* Time sync and telemetry are dispatched only to a node whose session the
   coordinator holds: dispatch_next_work and settle_*_event read its boot epoch
   and end the channel when the session is away with a write. *)
AuxiliaryAtHome ==
    (active # NoDispatch /\ active.class \in {"TimeSync", "Telemetry"}) =>
        writes[active.node] = NoWrite /\ allows_auxiliary(active.node)

(* Healthy nodes are not starved, whatever a faulty one does: outside service
   intervals no work of a healthy node is later than MaxWait, and the next attempt
   on a node in backoff, recovery or offline is no later than that either. *)
HealthyServed ==
    faulty # {} =>
        /\ \A n \in Nodes \ faulty : ~node[n].flight => node[n].deadline >= -MaxWait
        /\ \A n \in SyncNodes \ faulty : sync[n].deadline >= -MaxWait
        /\ \A n \in TelemetryNodes \ faulty : telemetry[n].deadline >= -MaxWait
        /\ \A n \in Nodes : (node[n].avail # "Online" /\ ~node[n].flight) => node[n].ready >= -MaxWait

(* What the runtime schedules fits the bus, in whatever order rates and telemetry
   intervals were changed: over a horizon all intervals divide, the slots of the
   plan leave the recovery reserve and the margin of MaxUtilization free. *)
Horizon == Target * SyncInterval * FoldSet(LAMBDA n, h : h * node[n].period, 1, Nodes)
               * FoldSet(LAMBDA n, h : h * telemetry[n].interval, 1, TelemetryNodes)
LoadAdmitted ==
    LET horizon == Horizon
    IN  Parts * Slot * (  FoldSet(LAMBDA n, sum : sum + horizon \div (node[n].period * Target), 0, Nodes)
                        + Cardinality(SyncNodes) * (horizon \div SyncInterval)
                        + FoldSet(LAMBDA n, sum : sum + horizon \div telemetry[n].interval, 0, TelemetryNodes))
            <= (MaxUtilization - RecoveryReserve) * horizon

(* The scheduler's books are right: work in flight has one holder, no auxiliary
   work is given to a node whose session is away, and the plan fits the bus. *)
ScheduleSound == DispatchOwned /\ AuxiliaryAtHome /\ LoadAdmitted
=============================================================================
