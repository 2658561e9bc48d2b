----------------------------- MODULE ChannelWorker -----------------------------
(* The task that owns one RS485 channel (channel_worker.rs): the recording
   loop, the operations that interrupt it, online recovery, and the controlled
   shutdown.  One call of step is a PollCommand followed by one Drive: the
   execution in progress, if any, drives the port alone; otherwise the
   recording loop does.

   Abstractions.  Samples of a node not yet handed to storage are counted
   (its tail); the agent is the queue of works it holds, the first of which
   may have an attempt on the wire; a safe-state group and a resume
   verification are their outcome per node (SafeState.tla has the detail of
   the first).  A deadline may pass at any time once it is set. *)
EXTENDS ChannelOperations

CONSTANTS
    Nodes,        \* the nodes of the channel, in the order of `nodes`
    MaxTail,      \* bound of the model: samples a node holds back
    MaxReboots,   \* bound of the model: reboots of all the nodes
    Slots,        \* slot_count of a commissioning scan
    Works,        \* what the scheduler dispatches besides recoveries
    Losses        \* what the channel may suffer besides lost messages:
                  \* a subset of {"port", "storage", "deadline"}

ASSUME WorkerAssumption ==
    /\ Nodes \in Seq(STRING) /\ Nodes # <<>> /\ IsInjective(Nodes)
    /\ MaxTail \in Nat /\ MaxReboots \in Nat /\ Slots \in 1 .. 16
    /\ Works \subseteq {"measurement", "time", "telemetry"}
    /\ Losses \subseteq {"port", "storage", "deadline"}

NodeSet == Range(Nodes)
None == "none"
NoDispatch == [kind |-> None, node |-> None]
NoDrain == {0}

(* Option::None of every execution of ProductionChannelTask. *)
NoExec == [kind |-> None, stage |-> None, i |-> 1, node |-> None,
           finish |-> FALSE, due |-> FALSE, err |-> FALSE, moved |-> FALSE,
           boots |-> [n \in NodeSet |-> 0]]

VARIABLES
    pc,        \* "poll", "start" or "drive": where step is
    exec,      \* the execution in progress, or NoExec
    workflow,  \* AutomaticConfigurationWorkflow, or None
    coord,     \* ChannelWorkCoordinator: quiescing, drain, dispatch, pending, writes
    recovering,\* nodes whose measurement needs recovery
    agent,     \* works the agent holds, the active one first
    flight,    \* whether the active work has an attempt on the wire
    done,      \* a completed measurement not yet taken: its outcome, or None
    world,     \* the nodes: runtime state, boot epoch, tail
    sboot,     \* boot epoch of the coordinator's session of each node
    wboot,     \* boot epoch the task keeps for each node (ChannelControlNode)
    down,      \* the shutdown: stage, kind, outcome still Ok, node, deadline passed
    reboots    \* how many reboots there were

taskVars == <<exec, workflow, coord, recovering, agent, flight, done, world, sboot, wboot>>
vars == <<opsVars, pc, taskVars, down, reboots>>

Init ==
    /\ OpsInit
    /\ pc = "poll"
    /\ exec = NoExec /\ workflow = None
    /\ coord = [quiescing |-> FALSE, drain |-> NoDrain, dispatch |-> NoDispatch,
                pending |-> FALSE, writes |-> {}]
    /\ recovering = {}
    /\ agent = <<>> /\ flight = FALSE /\ done = None
    /\ world = [n \in NodeSet |-> [state |-> "Recording", boot |-> 0, tail |-> 0]]
    /\ sboot = [n \in NodeSet |-> 0] /\ wboot = [n \in NodeSet |-> 0]
    /\ down = [stage |-> None, kind |-> None, ok |-> TRUE, i |-> 1, due |-> FALSE]
    /\ reboots = 0

------------------------
(* ChannelWorkCoordinator: is_quiescent, is_shutdown_drain_complete, and the
   operations the worker calls on it. *)
Busy == coord.dispatch # NoDispatch \/ coord.pending \/ coord.writes # {}
Quiescent == coord.quiescing /\ ~Busy
Draining == coord.drain # NoDrain
DrainComplete == coord.drain = {} /\ ~Busy
ResumeReady == Quiescent /\ ~Draining

(* shutdown_drain_nodes, in the order of the nodes: their positions. *)
Drainable == {i \in DOMAIN Nodes : Nodes[i] \notin recovering}

(* settle_completed and observe_shutdown_settlement: the dispatch ends; a node
   that had no data leaves the front of the drain. *)
Settle(c, outcome) ==
    [c EXCEPT !.dispatch = NoDispatch,
              !.drain = IF outcome = "nodata" /\ c.drain # NoDrain THEN @ \ {Oldest(@)} ELSE @]

(* handoff_completed: the record goes to the writer, or waits for room. *)
Handoff(c) ==
    {[c EXCEPT !.dispatch = NoDispatch, !.pending = FALSE,
               !.writes = @ \cup {c.dispatch.node}],
     [c EXCEPT !.pending = TRUE]}

Control(node) == [kind |-> "control", node |-> node]

------------------------
(* ChannelEndpoint::step, by the event it returns.  A measurement that ends is
   kept by the agent until it is taken (done), whatever becomes of the event. *)
EndsMeasurement(ev) ==
    /\ done = None /\ agent # <<>> /\ flight
    /\ flight' = FALSE /\ agent' = Tail(agent)
    /\ LET n == Head(agent).node IN
       /\ Head(agent).kind = "measurement"
       /\ ev \in {"data", "nodata", "recovery", "exhausted"}
       /\ ev \in {"data", "nodata"} =>
              /\ world[n].boot = sboot[n]
              /\ (ev = "data") <=> (world[n].tail > 0)
       /\ world' = IF ev = "data" THEN [world EXCEPT ![n].tail = @ - 1] ELSE world

Ends(ev) ==
    \/ EndsMeasurement(ev) /\ done' = ev
    \/ /\ done = None /\ agent # <<>> /\ flight
       /\ flight' = FALSE /\ agent' = Tail(agent)
       /\ Head(agent).kind # "measurement"
       /\ ev = IF Head(agent).kind = "control" THEN "reply" ELSE Head(agent).kind
       /\ UNCHANGED <<done, world>>

Endpoint(ev) ==
    \/ /\ ev = "handoff" /\ done # None
       /\ UNCHANGED <<agent, flight, done, world>>
    \/ /\ ev = "waiting" /\ done = None /\ (agent = <<>> \/ flight)
       /\ UNCHANGED <<agent, flight, done, world>>
    \/ /\ ev = "sent" /\ done = None /\ agent # <<>> /\ ~flight
       /\ flight' = TRUE
       /\ UNCHANGED <<agent, done, world>>
    \/ /\ ev = "timeout" /\ done = None /\ flight
       /\ Head(agent).kind \in {"measurement", "control"}
       /\ flight' = FALSE
       /\ UNCHANGED <<agent, done, world>>
    \/ /\ ev = "error" /\ "port" \in Losses
       /\ UNCHANGED <<agent, flight, done, world>>
    \/ Ends(ev)

(* ThreadedChannelRecordingLoop::step.  e is what it returns: "ok", "recovery"
   (RecoveryDue) or an error. *)
Completion(e) ==
    /\ \E n \in coord.writes :
           \/ e = "ok" /\ coord' = [coord EXCEPT !.writes = @ \ {n}]
           \/ e = "storage" /\ "storage" \in Losses /\ UNCHANGED coord
    /\ UNCHANGED <<recovering, agent, flight, done, world>>

RetryHandoff(e) ==
    /\ coord.pending /\ e = "ok"
    /\ coord' \in Handoff(coord)
    /\ UNCHANGED <<recovering, agent, flight, done, world>>

(* dispatch_next_work, and the attempt the endpoint then starts. *)
Dispatch(e) ==
    /\ coord.dispatch = NoDispatch /\ ~coord.pending
    /\ \E n \in NodeSet \ coord.writes, kind \in Works \cup {"recovery"} :
           /\ IF Draining
              THEN coord.drain # {} /\ n = Nodes[Oldest(coord.drain)]
                   /\ kind = "measurement" /\ n \notin recovering
              ELSE ~coord.quiescing /\ ((kind = "recovery") <=> (n \in recovering))
           /\ coord' = [coord EXCEPT !.dispatch = [kind |-> kind, node |-> n]]
           /\ e = IF kind = "recovery" THEN "recovery" ELSE "ok"
           /\ IF kind = "recovery" THEN UNCHANGED <<agent, flight>>
              ELSE /\ agent' = Append(agent, [kind |-> kind, node |-> n])
                   /\ flight' = TRUE
    /\ UNCHANGED <<recovering, done, world>>

(* An event of the endpoint that ends no measurement: settle_time_sync_event,
   settle_telemetry_event, or nothing to settle. *)
RecordingEvent(e) ==
    /\ ~coord.pending
    /\ \E ev \in {"waiting", "sent", "timeout", "error", "time", "telemetry", "reply"} :
        /\ Endpoint(ev)
        /\ e = IF ev = "error" THEN "port" ELSE "ok"
        /\ coord' = IF ev \in {"time", "telemetry"} /\ coord.dispatch.kind = ev
                    THEN [coord EXCEPT !.dispatch = NoDispatch] ELSE coord
    /\ UNCHANGED recovering

(* A measurement that ends: a record goes to the writer (handoff_completed);
   no data, recovery and exhausted attempts are settled at once
   (settle_completed).  MeasurementHandoffPending repeats the end of a
   measurement nobody took, and is taken for a record whatever it was. *)
TakeMeasurement(e) ==
    /\ ~coord.pending
    /\ \E ev \in {"handoff", "data", "nodata", "recovery", "exhausted"} :
        /\ \/ ev = "handoff" /\ done # None /\ UNCHANGED <<agent, flight, world>>
           \/ ev # "handoff" /\ EndsMeasurement(ev)
        /\ done' = None
        /\ LET outcome == IF ev = "handoff" THEN done ELSE ev IN
           CASE coord.dispatch = NoDispatch ->
                  e = "NoActiveDispatch" /\ UNCHANGED <<coord, recovering>>
             [] coord.dispatch # NoDispatch /\ outcome = "data" ->
                  e = "ok" /\ coord' \in Handoff(coord) /\ UNCHANGED recovering
             [] coord.dispatch # NoDispatch /\ outcome # "data" /\ ev = "handoff" ->
                  e = "UnexpectedSessionPhase" /\ UNCHANGED <<coord, recovering>>
             [] OTHER ->
                  /\ e = "ok" /\ coord' = Settle(coord, outcome)
                  /\ recovering' = IF outcome = "recovery"
                                   THEN recovering \cup {coord.dispatch.node}
                                   ELSE recovering

RecordingStep(e) ==
    \/ Completion(e) \/ RetryHandoff(e) \/ Dispatch(e)
    \/ RecordingEvent(e) \/ TakeMeasurement(e)

------------------------
(* What a drive does to the operations: nothing, an error out of step, or the
   end of the active operation in a new mode. *)
Outcomes == {"ok", "recovery", "port", "storage", "NoActiveDispatch",
             "UnexpectedSessionPhase"}
Goes == UNCHANGED opsVars
Raises(e) == task' = e /\ UNCHANGED <<mode, inbox, ledger, active, audit, submitted>>
EndsIn(m, phase) == mode' = m /\ EndActive(phase) /\ exec' = NoExec

At(kind, stage) == exec.kind = kind /\ exec.stage = stage
(* MaintenanceEntryPlan::accept and ResumeRecordingPlan::accept. *)
Accept(stage) == exec' = [exec EXCEPT !.stage = stage, !.i = 1, !.due = FALSE]
NoWire == UNCHANGED <<coord, recovering, agent, flight, done, world>>

(* step_recording. *)
StepRecording ==
    \E e \in Outcomes :
        /\ RecordingStep(e)
        /\ IF e = "ok" THEN Goes ELSE Raises(e)

(* One node of a SafeStateGroupOperation: it reaches the target, perhaps after
   the restart the converger resorts to, or it fails, goes offline, or the
   port breaks.  The agent must hold no other work (ensure_exclusive). *)
Rebooted(w, n) == [w EXCEPT ![n] = [state |-> "Idle", boot |-> w[n].boot + 1, tail |-> 0]]

GroupNode(n, target, out) ==
    /\ UNCHANGED <<coord, recovering, agent, flight, done, sboot, wboot>>
    /\ IF agent # <<>> THEN out = "exclusive" /\ UNCHANGED <<world, reboots>>
       ELSE \/ out = "reached" /\ UNCHANGED reboots
               /\ world' = [world EXCEPT ![n].state = target]
            \/ out = "restarted" /\ reboots < MaxReboots /\ reboots' = reboots + 1
               /\ world' = [Rebooted(world, n) EXCEPT ![n].state = target]
            \/ out \in {"failed", "offline"} /\ UNCHANGED <<world, reboots>>
            \/ out = "port" /\ "port" \in Losses /\ UNCHANGED <<world, reboots>>

------------------------
(* drive_maintenance. *)
EntryQuiesced ==
    /\ At("maintenance", "Quiescing") /\ Quiescent
    /\ Accept("ConvergingToIdle") /\ NoWire /\ Goes
    /\ UNCHANGED <<sboot, wboot, reboots, workflow>>

\* Mutant: the barrier has no deadline.
EntryBarrierUntimed ==
    /\ At("maintenance", "Quiescing") /\ ~Quiescent
    /\ StepRecording /\ exec' = exec
    /\ UNCHANGED <<sboot, wboot, reboots, workflow>>
EntryBarrier ==
    /\ At("maintenance", "Quiescing") /\ ~Quiescent
    /\ \/ exec.due /\ EndsIn("Faulted", "Failed") /\ NoWire
       \/ ~exec.due /\ StepRecording /\ exec' = exec
    /\ UNCHANGED <<sboot, wboot, reboots, workflow>>

ConvergeTarget(stage) == IF stage = "ConvergingToMaintenance" THEN "Maintenance" ELSE "Idle"
ConvergedStage(stage) ==
    CASE stage = "ConvergingToIdle" -> "Reconciling"
      [] stage = "ConvergingToMaintenance" -> "CompleteMaintenance"
      [] stage = "FallingBackToIdle" -> "CompleteIdle"

EntryConverge ==
    \E stage \in {"ConvergingToIdle", "ConvergingToMaintenance", "FallingBackToIdle"} :
        /\ At("maintenance", stage) /\ UNCHANGED workflow
        /\ IF exec.i > Len(Nodes)
           THEN Accept(ConvergedStage(stage)) /\ NoWire /\ Goes
                /\ UNCHANGED <<sboot, wboot, reboots>>
           ELSE \E out \in {"reached", "restarted", "failed", "offline", "port", "exclusive"} :
                /\ GroupNode(Nodes[exec.i], ConvergeTarget(stage), out)
                /\ CASE out \in {"reached", "restarted"} ->
                          /\ exec' = [exec EXCEPT !.i = @ + 1,
                                                  !.moved = @ \/ out = "restarted"]
                          /\ Goes
                     [] out = "failed" /\ stage = "ConvergingToMaintenance" ->
                          exec' = [exec EXCEPT !.stage = "FallingBackToIdle"] /\ Goes
                     [] out = "failed" /\ stage # "ConvergingToMaintenance" ->
                          EndsIn("Faulted", "Failed")
                     [] out = "offline" -> EndsIn("Offline", "Failed")
                     [] out \in {"port", "exclusive"} -> Raises(out) /\ exec' = NoExec

\* Mutant: the stopped streams are not drained.
EntryReconcileUndrained ==
    /\ At("maintenance", "Reconciling")
    /\ IF exec.moved THEN EndsIn("Faulted", "Failed")
       ELSE Accept("ConvergingToMaintenance") /\ Goes
    /\ NoWire /\ UNCHANGED <<sboot, wboot, reboots, workflow>>
EntryReconcile ==
    /\ At("maintenance", "Reconciling")
    /\ IF exec.moved THEN EndsIn("Faulted", "Failed") ELSE Accept("Draining") /\ Goes
    /\ NoWire /\ UNCHANGED <<sboot, wboot, reboots, workflow>>

(* begin_shutdown_drain, the drain, finish_shutdown_drain or
   abort_shutdown_drain. *)
EntryDrain ==
    /\ At("maintenance", "Draining") /\ UNCHANGED <<sboot, wboot, reboots, workflow>>
    /\ \/ /\ ~Draining
          /\ IF Quiescent
             THEN coord' = [coord EXCEPT !.drain = Drainable, !.quiescing = FALSE] /\ Goes
             ELSE Raises("ShutdownDrainNotReady") /\ UNCHANGED coord
          /\ exec' = exec /\ UNCHANGED <<recovering, agent, flight, done, world>>
       \/ /\ DrainComplete
          /\ coord' = [coord EXCEPT !.drain = NoDrain, !.quiescing = TRUE]
          /\ Accept("ConvergingToMaintenance") /\ Goes
          /\ UNCHANGED <<recovering, agent, flight, done, world>>
       \/ /\ Draining /\ ~DrainComplete /\ exec.due
          /\ coord' = [coord EXCEPT !.drain = NoDrain, !.quiescing = TRUE]
          /\ EndsIn("Faulted", "Failed")
          /\ UNCHANGED <<recovering, agent, flight, done, world>>
       \/ /\ Draining /\ ~DrainComplete /\ ~exec.due
          /\ StepRecording /\ exec' = exec

EntryComplete ==
    /\ \/ /\ At("maintenance", "CompleteMaintenance")
          /\ IF exec.finish THEN EndsIn("Maintenance", "Succeeded")
             ELSE /\ mode' = "Maintenance" /\ exec' = NoExec
                  /\ UNCHANGED <<inbox, ledger, active, audit, task, submitted>>
       \/ At("maintenance", "CompleteIdle") /\ EndsIn("Faulted", "Failed")
    /\ NoWire /\ UNCHANGED <<sboot, wboot, reboots, workflow>>

------------------------
(* drive_resume.  Verification reads the boot epoch of every node, or finds
   one offline, or fails (ResumeVerificationGroup::drive and handle_event). *)
ResumeVerify ==
    /\ At("resume", "VerifyingNodes") /\ exec.i <= Len(Nodes)
    /\ LET n == Nodes[exec.i] IN
       \/ /\ agent = <<>>
          /\ exec' = [exec EXCEPT !.boots[n] = world[n].boot, !.i = @ + 1] /\ Goes
       \/ Accept("Offline") /\ Goes
       \/ EndsIn("Faulted", "Failed")
    /\ NoWire /\ UNCHANGED <<sboot, wboot, reboots, workflow>>

NeedsRollover(n) == exec.boots[n] # wboot[n]
(* reconcile_resume_stream, for a node whose epoch did not change. *)
Reconcilable(n) == ResumeReady /\ n \notin recovering /\ exec.boots[n] = sboot[n]

ResumeVerified ==
    /\ At("resume", "VerifyingNodes") /\ exec.i > Len(Nodes)
    /\ IF \E n \in NodeSet : NeedsRollover(n) THEN Accept("ReconcilingStreams") /\ Goes
       ELSE IF \A n \in NodeSet : Reconcilable(n) THEN Accept("CheckingAdmission") /\ Goes
       ELSE EndsIn("Faulted", "Failed")
    /\ NoWire /\ UNCHANGED <<sboot, wboot, reboots, workflow>>

(* One node of the reconciliation: begin_epoch_rollover opens the streams of
   the new epoch and replace_resume_stream installs its session once both
   tickets are answered.  A ticket not yet answered, or a full queue, is
   another call of step. *)
ResumeReconcile ==
    /\ At("resume", "ReconcilingStreams") /\ UNCHANGED <<reboots, workflow>>
    /\ \/ /\ exec.i > Len(Nodes) /\ ~exec.due
          /\ Accept("CheckingAdmission") /\ Goes /\ NoWire /\ UNCHANGED <<sboot, wboot>>
       \/ EndsIn("Maintenance", "Failed") /\ NoWire /\ UNCHANGED <<sboot, wboot>>
       \/ /\ exec.i <= Len(Nodes) /\ ~exec.due
          /\ LET n == Nodes[exec.i] IN
             /\ IF NeedsRollover(n)
                THEN /\ ResumeReady
                     /\ sboot' = [sboot EXCEPT ![n] = exec.boots[n]]
                     /\ wboot' = [wboot EXCEPT ![n] = exec.boots[n]]
                     /\ recovering' = recovering \ {n}
                ELSE Reconcilable(n) /\ UNCHANGED <<sboot, wboot, recovering>>
          /\ exec' = [exec EXCEPT !.i = @ + 1] /\ Goes
          /\ UNCHANGED <<coord, agent, flight, done, world>>

ResumeAdmission ==
    /\ At("resume", "CheckingAdmission")
    /\ Accept("ActivatingNodes") \/ Accept("Faulted")
    /\ Goes /\ NoWire /\ UNCHANGED <<sboot, wboot, reboots, workflow>>

ResumeActivate ==
    /\ At("resume", "ActivatingNodes") /\ UNCHANGED workflow
    /\ IF exec.i > Len(Nodes)
       THEN Accept("ResumingScheduling") /\ Goes /\ NoWire /\ UNCHANGED <<sboot, wboot, reboots>>
       ELSE \E out \in {"reached", "restarted", "failed", "offline", "port", "exclusive"} :
            /\ GroupNode(Nodes[exec.i], "Recording", out)
            /\ CASE out \in {"reached", "restarted"} -> exec' = [exec EXCEPT !.i = @ + 1] /\ Goes
                 [] out = "failed" -> Accept("Faulted") /\ Goes
                 [] out = "offline" -> Accept("Offline") /\ Goes
                 [] out \in {"port", "exclusive"} -> Raises(out) /\ exec' = NoExec

\* Mutant: the plan goes on without resume_scheduling.
ResumeSchedulingSkipped ==
    /\ At("resume", "ResumingScheduling")
    /\ Accept("Complete") /\ Goes
    /\ NoWire /\ UNCHANGED <<sboot, wboot, reboots, workflow>>
ResumeScheduling ==
    /\ At("resume", "ResumingScheduling")
    /\ IF ResumeReady
       THEN coord' = [coord EXCEPT !.quiescing = FALSE] /\ Accept("Complete") /\ Goes
       ELSE UNCHANGED coord /\ Raises("ResumeNotReady") /\ exec' = NoExec
    /\ UNCHANGED <<recovering, agent, flight, done, world, sboot, wboot, reboots, workflow>>

ResumeComplete ==
    /\ \/ At("resume", "Complete") /\ EndsIn("Recording", "Succeeded")
       \/ At("resume", "Faulted") /\ EndsIn("Faulted", "Failed")
       \/ At("resume", "Offline") /\ EndsIn("Offline", "Failed")
    /\ NoWire /\ UNCHANGED <<sboot, wboot, reboots, workflow>>

------------------------
(* abandon_control_work: the control work, of which there is one, may be
   dropped unless its attempt is on the wire. *)
OnWire == agent # <<>> /\ Head(agent).kind = "control" /\ flight
Abandon ==
    /\ ~OnWire
    /\ LET Controls == {i \in DOMAIN agent : agent[i].kind = "control"}
       IN agent' = IF Controls = {} THEN agent ELSE RemoveAt(agent, Oldest(Controls))
    /\ UNCHANGED <<coord, recovering, flight, done, world>>
Expired == exec.due \/ exec.err

(* drive_configuration.  Events of other works are lost to the coordinator.
   A configuration the node applied is then admitted, its capture stream
   finished, its snapshot appended and its schedule changed; if one of these
   fails the operation fails. *)
ConfigurationExpire ==
    /\ At("configuration", "wait") /\ Expired
    /\ Abandon /\ EndsIn(mode, "Failed")
    /\ UNCHANGED <<sboot, wboot, reboots, workflow>>

ConfigurationApplied(ok) ==
    IF ~ok THEN exec' = [exec EXCEPT !.err = TRUE] /\ Goes /\ workflow' = workflow
    ELSE IF exec.finish THEN EndsIn(mode, "Succeeded") /\ workflow' = workflow
    ELSE exec' = NoExec /\ Goes /\ workflow' = "ReadyToResume"

ConfigurationStep ==
    /\ At("configuration", "wait") /\ (Expired => OnWire)
    /\ \E ev \in {"handoff", "waiting", "sent", "timeout", "error", "data", "nodata",
                  "recovery", "exhausted", "time", "telemetry", "reply"} :
        /\ Endpoint(ev)
        /\ CASE ev = "reply" /\ ~Expired ->
                  \/ ConfigurationApplied(TRUE)
                  \/ ConfigurationApplied(FALSE)
                  \/ EndsIn(mode, "Failed") /\ workflow' = workflow
             [] ev = "error" ->
                  exec' = [exec EXCEPT !.err = TRUE] /\ Goes /\ workflow' = workflow
             [] OTHER -> exec' = exec /\ Goes /\ workflow' = workflow
    /\ UNCHANGED <<coord, recovering, sboot, wboot, reboots>>

------------------------
(* drive_commissioning: the slots of a scan one by one, or an assignment
   followed by the handshake that verifies it. *)
CommissioningStages == {"Scan", "Assigning", "Verifying"}

CommissioningExpire ==
    \E stage \in CommissioningStages :
        /\ At("commissioning", stage) /\ exec.due
        /\ \/ Abandon /\ EndsIn(mode, "Failed")
           \/ OnWire /\ NoWire /\ exec' = exec /\ Goes
        /\ UNCHANGED <<sboot, wboot, reboots, workflow>>

SubmitControl(n) ==
    /\ agent' = Append(agent, Control(n)) /\ flight' = (agent = <<>>)
    /\ UNCHANGED <<coord, recovering, done, world>>

CommissioningProbe ==
    /\ At("commissioning", "Scan") /\ ~exec.due /\ agent = <<>>
    /\ IF exec.i > Slots THEN EndsIn(mode, "Succeeded") /\ NoWire
       ELSE SubmitControl(None) /\ exec' = exec /\ Goes
    /\ UNCHANGED <<sboot, wboot, reboots, workflow>>

CommissioningStep ==
    \E stage \in CommissioningStages, ev \in {"waiting", "sent", "timeout", "error", "reply"} :
        /\ At("commissioning", stage) /\ ~exec.due
        /\ stage = "Scan" => agent # <<>>
        /\ Endpoint(ev)
        /\ CASE ev = "error" -> exec' = NoExec /\ Raises("CommissioningFailed")
             [] ev = "reply" /\ stage = "Scan" -> exec' = [exec EXCEPT !.i = @ + 1] /\ Goes
             [] ev = "reply" /\ stage = "Verifying" ->
                    \/ EndsIn(mode, "Succeeded")
                    \/ exec' = exec /\ Goes
             [] OTHER -> exec' = exec /\ Goes
        /\ UNCHANGED <<coord, recovering, sboot, wboot, reboots, workflow>>

CommissioningAssigned ==
    /\ At("commissioning", "Assigning") /\ ~exec.due /\ OnWire /\ done = None
    /\ agent' = <<Control(None)>> /\ flight' = FALSE
    /\ exec' = [exec EXCEPT !.stage = "Verifying"] /\ Goes
    /\ UNCHANGED <<coord, recovering, done, world, sboot, wboot, reboots, workflow>>

------------------------
(* drive_restart.  Once accepted, the node reboots, and the operation ends
   when it has had the time to settle. *)
RestartExpire ==
    /\ At("restart", "wait") /\ Expired
    /\ \/ Abandon /\ EndsIn(mode, "Failed")
       \/ OnWire /\ NoWire /\ exec' = exec /\ Goes
    /\ UNCHANGED <<sboot, wboot, reboots, workflow>>

RestartStep ==
    \E ev \in {"handoff", "waiting", "sent", "timeout", "error", "reply", "time",
               "telemetry", "data", "nodata", "recovery", "exhausted"} :
        /\ At("restart", "wait") /\ ~Expired
        /\ UNCHANGED <<coord, recovering, sboot, wboot, workflow>>
        /\ IF ev = "reply"
           THEN /\ agent # <<>> /\ flight /\ Head(agent).kind = "control" /\ done = None
                /\ agent' = Tail(agent) /\ flight' = FALSE /\ done' = done
                /\ \/ /\ reboots < MaxReboots /\ reboots' = reboots + 1
                      /\ world' = Rebooted(world, exec.node)
                      /\ exec' = [exec EXCEPT !.stage = "settling", !.due = FALSE]
                   \/ UNCHANGED <<world, reboots, exec>>
           ELSE /\ Endpoint(ev) /\ UNCHANGED reboots
                /\ exec' = [exec EXCEPT !.err = ev = "error"]
        /\ Goes

RestartSettled ==
    /\ At("restart", "settling")
    /\ EndsIn(IF mode \in {"Faulted", "Offline"} THEN "Maintenance" ELSE mode, "Succeeded")
    /\ NoWire /\ UNCHANGED <<sboot, wboot, reboots, workflow>>

------------------------
(* drive_online_recovery, of the node of the recovery dispatch.  While it
   lasts no command is polled and no other node is measured. *)
RecoveryFail ==
    /\ coord' = [coord EXCEPT !.dispatch = NoDispatch]
    /\ exec' = NoExec /\ Goes
    /\ UNCHANGED <<recovering, sboot, wboot>>

RecoveryVerify ==
    /\ At("recovery", "verify") /\ UNCHANGED <<agent, flight, done, world, reboots, workflow>>
    /\ \/ RecoveryFail
       \/ /\ agent = <<>>
          /\ exec' = [exec EXCEPT !.boots[exec.node] = world[exec.node].boot,
                                  !.err = world[exec.node].state # "Recording",
                                  !.stage = "rollover"]
          /\ Goes /\ UNCHANGED <<coord, recovering, sboot, wboot>>

(* begin_epoch_rollover and its tickets: an error of the first ends the task,
   a bad answer to a ticket only fails the recovery. *)
RecoveryRollover ==
    /\ At("recovery", "rollover") /\ UNCHANGED <<agent, flight, done, world, reboots, workflow>>
    /\ \/ /\ NeedsRollover(exec.node)
          /\ \/ "storage" \in Losses /\ Raises("CaptureRollover") /\ exec' = NoExec
                /\ UNCHANGED <<coord, recovering, sboot, wboot>>
             \/ RecoveryFail
       \/ Accept("activate") /\ Goes /\ UNCHANGED <<coord, recovering, sboot, wboot>>

(* exec.err: the node was not recording when it was verified. *)
RecoveryActivate ==
    /\ At("recovery", "activate") /\ UNCHANGED workflow
    /\ IF ~exec.err
       THEN exec' = [exec EXCEPT !.stage = "finish"] /\ Goes /\ NoWire
            /\ UNCHANGED <<sboot, wboot, reboots>>
       ELSE \E out \in {"reached", "restarted", "failed", "offline", "port", "exclusive"} :
            CASE out \in {"reached", "restarted", "port", "exclusive"} ->
                   /\ GroupNode(exec.node, "Recording", out)
                   /\ IF out \in {"reached", "restarted"}
                      THEN exec' = [exec EXCEPT !.stage = "finish"] /\ Goes
                      ELSE exec' = NoExec /\ Raises(out)
              [] out \in {"failed", "offline"} ->
                   RecoveryFail /\ UNCHANGED <<agent, flight, done, world, reboots>>

(* replace_online_recovery or reconcile_online_recovery. *)
RecoveryFinish ==
    /\ At("recovery", "finish") /\ UNCHANGED <<agent, flight, done, world, reboots, workflow>>
    /\ \/ RecoveryFail
       \/ /\ exec.boots[exec.node] = sboot[exec.node] \/ NeedsRollover(exec.node)
          /\ coord' = [coord EXCEPT !.dispatch = NoDispatch]
          /\ recovering' = recovering \ {exec.node}
          /\ sboot' = [sboot EXCEPT ![exec.node] = exec.boots[exec.node]]
          /\ wboot' = [wboot EXCEPT ![exec.node] = exec.boots[exec.node]]
          /\ exec' = NoExec /\ Goes

------------------------
(* The rest of step: the poll, the start of an operation, the automatic
   configuration, and recording when nothing else runs. *)
Begin(kind, stage) == exec' = [NoExec EXCEPT !.kind = kind, !.stage = stage]

(* An online recovery is driven without a poll; an empty inbox is polled in
   the step that drives. *)
Poll ==
    /\ pc = "poll" /\ task = "running" /\ exec.kind # "recovery" /\ inbox # <<>>
    /\ PollCommand /\ UNCHANGED <<mode, submitted>>
    /\ pc' = IF active = NoRequest /\ active' # NoRequest THEN "start" ELSE "drive"
    /\ UNCHANGED <<taskVars, down, reboots>>

(* A preflight that fails, a node or an identity nobody knows, or a submission
   the agent refuses: the operation fails at once. *)
StartRefused ==
    /\ active.kind \in {"GetConfiguration", "ApplyConfiguration", "SetTelemetryInterval",
                        "AssignAddress", "RestartNode"}
    /\ EndActive("Failed") /\ UNCHANGED <<mode, taskVars>>

StartTelemetry ==
    active.kind = "SetTelemetryInterval" /\ EndActive("Succeeded") /\ UNCHANGED <<mode, taskVars>>

StartQuiesce ==
    /\ \/ active.kind = "EnterMaintenance"
       \/ active.kind = "ApplyConfiguration" /\ mode = "Recording"
    /\ coord' = [coord EXCEPT !.quiescing = TRUE]
    /\ mode' = "EnteringMaintenance"
    /\ exec' = [NoExec EXCEPT !.kind = "maintenance", !.stage = "Quiescing",
                              !.finish = active.kind = "EnterMaintenance"]
    /\ workflow' = IF active.kind = "EnterMaintenance" THEN workflow ELSE "Entering"
    /\ UNCHANGED <<inbox, ledger, active, audit, task, submitted, recovering, agent, flight,
                   done, world, sboot, wboot>>

StartResume ==
    /\ active.kind = "ResumeRecording"
    /\ mode' = "ResumingRecording" /\ Begin("resume", "VerifyingNodes")
    /\ UNCHANGED <<inbox, ledger, active, audit, task, submitted, workflow, coord, recovering,
                   agent, flight, done, world, sboot, wboot>>

StartControl ==
    /\ \/ active.kind = "GetConfiguration"
       \/ active.kind = "ApplyConfiguration" /\ mode # "Recording"
       \/ active.kind \in {"AssignAddress", "RestartNode"}
    /\ \E n \in NodeSet :
        /\ agent' = Append(agent, Control(n))
        /\ exec' = [NoExec EXCEPT !.node = n, !.finish = TRUE,
                !.kind = CASE active.kind = "AssignAddress" -> "commissioning"
                           [] active.kind = "RestartNode" -> "restart"
                           [] OTHER -> "configuration",
                !.stage = IF active.kind = "AssignAddress" THEN "Assigning" ELSE "wait"]
    /\ UNCHANGED <<opsVars, workflow, coord, recovering, flight, done, world, sboot, wboot>>

StartScan ==
    /\ active.kind = "ScanUnassigned" /\ Begin("commissioning", "Scan")
    /\ UNCHANGED <<opsVars, workflow, coord, recovering, agent, flight, done, world, sboot, wboot>>

Start ==
    /\ pc = "start" /\ task = "running" /\ pc' = "drive"
    /\ StartRefused \/ StartTelemetry \/ StartQuiesce \/ StartResume \/ StartControl \/ StartScan
    /\ UNCHANGED <<down, reboots>>

(* advance_automatic_configuration, when it has something to do. *)
Driving ==
    /\ task = "running"
    /\ pc = "drive" \/ (pc = "poll" /\ (exec.kind = "recovery" \/ inbox = <<>>))
AdvanceDue ==
    /\ workflow # None
    /\ \/ active = NoRequest
       \/ workflow = "Entering" /\ exec = NoExec
       \/ workflow = "ReadyToResume" /\ exec = NoExec

Advance ==
    /\ Driving /\ AdvanceDue /\ pc' = "drive"
    /\ CASE active = NoRequest ->
              workflow' = None /\ UNCHANGED <<opsVars, exec, agent>>
         [] active # NoRequest /\ workflow = "Entering" ->
              \/ /\ \E n \in NodeSet :
                        /\ agent' = Append(agent, Control(n))
                        /\ exec' = [NoExec EXCEPT !.kind = "configuration", !.stage = "wait",
                                                  !.node = n]
                 /\ workflow' = "Configuring" /\ UNCHANGED opsVars
              \/ EndActive("Failed") /\ UNCHANGED <<mode, exec, agent>> /\ workflow' = None
         [] active # NoRequest /\ workflow = "ReadyToResume" ->
              /\ mode' = "ResumingRecording" /\ Begin("resume", "VerifyingNodes")
              /\ workflow' = "Resuming"
              /\ UNCHANGED <<inbox, ledger, active, audit, task, submitted, agent>>
    /\ UNCHANGED <<coord, recovering, flight, done, world, sboot, wboot, down, reboots>>

Record ==
    /\ exec = NoExec
    /\ \E e \in Outcomes :
        /\ RecordingStep(e)
        /\ IF e = "recovery"
           THEN /\ exec' = [NoExec EXCEPT !.kind = "recovery", !.stage = "verify",
                                          !.node = coord'.dispatch.node]
                /\ Goes
           ELSE exec' = exec /\ IF e = "ok" THEN Goes ELSE Raises(e)
    /\ UNCHANGED <<sboot, wboot, reboots, workflow>>

Drive ==
    /\ Driving /\ ~AdvanceDue
    /\ pc' = "poll" /\ UNCHANGED down
    /\ \/ EntryQuiesced \/ EntryBarrier \/ EntryConverge \/ EntryReconcile \/ EntryDrain
       \/ EntryComplete
       \/ ResumeVerify \/ ResumeVerified \/ ResumeReconcile \/ ResumeAdmission
       \/ ResumeActivate \/ ResumeScheduling \/ ResumeComplete
       \/ ConfigurationExpire \/ ConfigurationStep
       \/ CommissioningExpire \/ CommissioningProbe \/ CommissioningStep
       \/ CommissioningAssigned
       \/ RestartExpire \/ RestartStep \/ RestartSettled
       \/ RecoveryVerify \/ RecoveryRollover \/ RecoveryActivate \/ RecoveryFinish
       \/ Record

------------------------
(* shutdown, once the supervisor has stopped stepping: in Maintenance the
   capture is finalized as it is (finalize_quiesced_channel); otherwise the
   barrier, the stop of every node, the drain (run_controlled_shutdown), and
   the capture finalized whatever happened. *)
Down(stage) == down' = [down EXCEPT !.stage = stage, !.i = 1, !.due = FALSE]
DownFails(stage) == down' = [down EXCEPT !.stage = stage, !.i = 1, !.ok = FALSE, !.due = FALSE]
InDown(stage) == task # "running" /\ down.stage = stage
KeepTask == UNCHANGED <<opsVars, pc, exec, workflow, sboot, wboot, reboots>>

ShutdownBegin ==
    /\ InDown(None) /\ (pc = "poll" \/ task # "stopping")
    /\ exec' = NoExec /\ workflow' = None
    /\ inbox' = <<>> /\ ledger' = <<>> /\ active' = NoRequest
    /\ LET c == IF exec.kind = "recovery" THEN [coord EXCEPT !.dispatch = NoDispatch] ELSE coord
       IN IF mode = "Maintenance"
          THEN /\ coord' = c
               /\ down' = [down EXCEPT !.stage = "finalize", !.kind = "quiesced",
                               !.ok = c.quiescing /\ c.dispatch = NoDispatch
                                      /\ ~c.pending /\ c.writes = {}]
          ELSE /\ coord' = [c EXCEPT !.quiescing = TRUE]
               /\ down' = [down EXCEPT !.stage = "barrier", !.kind = "controlled"]
    /\ UNCHANGED <<mode, audit, task, submitted, pc, recovering, agent, flight, done, world,
                   sboot, wboot, reboots>>

ShutdownBarrier ==
    /\ InDown("barrier") /\ KeepTask
    /\ \/ Quiescent /\ Down("stop") /\ NoWire
       \/ ~Quiescent /\ down.due /\ DownFails("stop") /\ NoWire
       \/ /\ ~Quiescent /\ ~down.due
          /\ \E e \in Outcomes : /\ RecordingStep(e)
                                 /\ IF e = "ok" THEN down' = down ELSE DownFails("stop")

(* stop_recording_nodes: one node that does not stop leaves the rest running. *)
ShutdownStop ==
    /\ InDown("stop") /\ KeepTask
    /\ IF down.i > Len(Nodes)
       THEN /\ IF Quiescent /\ ~Draining
               THEN coord' = [coord EXCEPT !.drain = Drainable, !.quiescing = FALSE]
                    /\ Down("drain")
               ELSE UNCHANGED coord /\ DownFails("finalize")
            /\ UNCHANGED <<recovering, agent, flight, done, world>>
       ELSE /\ UNCHANGED <<coord, recovering, agent, flight, done>>
            /\ \/ /\ done = None
                  /\ world' = [world EXCEPT ![Nodes[down.i]].state =
                                 IF @ = "Recording" THEN "Idle" ELSE @]
                  /\ world'[Nodes[down.i]].state = "Idle"
                  /\ down' = [down EXCEPT !.i = @ + 1]
               \/ UNCHANGED world /\ DownFails("finalize")

ShutdownDrain ==
    /\ InDown("drain") /\ KeepTask
    /\ \/ /\ DrainComplete
          /\ coord' = [coord EXCEPT !.drain = NoDrain, !.quiescing = TRUE]
          /\ Down("finalize") /\ UNCHANGED <<recovering, agent, flight, done, world>>
       \/ ~DrainComplete /\ down.due /\ DownFails("finalize") /\ NoWire
       \/ /\ ~DrainComplete /\ ~down.due
          /\ \E e \in Outcomes : /\ RecordingStep(e)
                                 /\ IF e = "ok" THEN down' = down ELSE DownFails("finalize")

(* The executor drains what it holds and finish_all_streams seals the files. *)
ShutdownFinalize ==
    /\ InDown("finalize") /\ KeepTask
    /\ coord' = [coord EXCEPT !.writes = {}]
    /\ Down("done") \/ ("storage" \in Losses /\ DownFails("done"))
    /\ UNCHANGED <<recovering, agent, flight, done, world>>

------------------------
(* Everyone else: the clients, the supervisor, the nodes, and time. *)
Submit ==
    /\ task = "running" /\ \E id \in Ids, kind \in Kinds : TrySubmit(id, kind)
    /\ UNCHANGED <<pc, taskVars, down, reboots>>

RequestStop ==
    /\ task = "running" /\ pc = "poll" /\ task' = "stopping"
    /\ UNCHANGED <<mode, inbox, ledger, active, audit, submitted, pc, taskVars, down, reboots>>

Produce(n) ==
    /\ world[n].state = "Recording" /\ world[n].tail < MaxTail
    /\ world' = [world EXCEPT ![n].tail = @ + 1]
    /\ UNCHANGED <<opsVars, pc, exec, workflow, coord, recovering, agent, flight, done, sboot,
                   wboot, down, reboots>>

Reboot(n) ==
    /\ reboots < MaxReboots /\ reboots' = reboots + 1
    /\ world' = Rebooted(world, n)
    /\ UNCHANGED <<opsVars, pc, exec, workflow, coord, recovering, agent, flight, done, sboot,
                   wboot, down>>

(* The deadline of the execution in progress, or of the shutdown, passes. *)
Timed == \/ exec.kind = "maintenance" /\ exec.stage \in {"Quiescing", "Draining"}
         \/ exec.kind = "resume" /\ exec.stage = "ReconcilingStreams"
         \/ exec.kind \in {"configuration", "commissioning"}
         \/ exec.kind = "restart" /\ exec.stage = "wait"

DeadlinePasses ==
    /\ \/ Timed /\ ~exec.due /\ exec' = [exec EXCEPT !.due = TRUE] /\ UNCHANGED down
       \/ /\ down.stage \in {"barrier", "drain"} /\ ~down.due
          /\ down' = [down EXCEPT !.due = TRUE] /\ UNCHANGED exec
    /\ UNCHANGED <<opsVars, pc, workflow, coord, recovering, agent, flight, done, world, sboot,
                   wboot, reboots>>

Shutdown ==
    ShutdownBegin \/ ShutdownBarrier \/ ShutdownStop \/ ShutdownDrain \/ ShutdownFinalize

Next ==
    \/ Poll \/ Start \/ Advance \/ Drive \/ Shutdown
    \/ Submit \/ RequestStop \/ DeadlinePasses
    \/ \E n \in NodeSet : Produce(n) \/ Reboot(n)

(* The channel thread keeps calling step, and time passes. *)
Fairness == WF_vars(Poll \/ Start \/ Advance \/ Drive) /\ WF_vars(Shutdown) /\ WF_vars(DeadlinePasses)

Spec == Init /\ [][Next]_vars /\ Fairness

------------------------
(* A transitional mode always has the execution that leads out of it, an
   execution belongs to the active operation, and between two calls of step
   the active operation has its execution: none is ever left to wait for
   nobody (step takes the execution out of its slot and must put it back). *)
ActiveIsDriven ==
    task = "running" =>
        /\ mode = "EnteringMaintenance" => exec.kind = "maintenance"
        /\ mode = "ResumingRecording" => exec.kind = "resume"
        /\ exec.kind \notin {None, "recovery"} => active # NoRequest
        /\ pc = "poll" /\ active # NoRequest => exec # NoExec \/ workflow # None

(* In mode Recording the coordinator schedules: no path back to Recording
   leaves it quiescing or draining (resume_scheduling comes before set_mode). *)
RecordingIsScheduled ==
    task = "running" /\ mode = "Recording" /\ pc # "start" => ~coord.quiescing /\ ~Draining

(* When EnterMaintenance succeeds every node has stopped, nothing is on its
   way to storage, and every node whose stream is intact was drained to its
   last sample, although samples were produced until the very stop. *)
MaintenanceIsQuiet ==
    [][mode = "EnteringMaintenance" /\ mode' = "Maintenance" =>
          /\ Quiescent
          /\ \A n \in NodeSet : /\ world[n].state # "Recording"
                                /\ n \notin recovering => world[n].tail = 0]_vars

(* A controlled shutdown reported Ok left no node recording, no write pending
   and no sample of an intact stream on a node. *)
ShutdownClean ==
    down.stage = "done" /\ down.ok /\ down.kind = "controlled" =>
        /\ coord.writes = {} /\ ~coord.pending
        /\ \A n \in NodeSet : /\ world[n].state # "Recording"
                              /\ n \notin recovering => world[n].tail = 0

(* The errors that only an inconsistent task can produce (NoActiveOperation,
   an unknown or terminal ledger record, a drain or a resume asked for too
   early, a dispatch settled twice) never end the task. *)
NoInternalError ==
    task \notin {"LedgerError", "NoActiveOperation", "ShutdownDrainNotReady", "ResumeNotReady",
                 "NoActiveDispatch", "exclusive"}

(* The task never loses itself: what was started is driven, Recording is
   scheduled, a shutdown reported clean is clean, and no error of an
   inconsistent task ends it. *)
TaskConsistent == ActiveIsDriven /\ RecordingIsScheduled /\ ShutdownClean /\ NoInternalError

(* While the task runs the last phase audited of every operation in the ledger
   is the phase it shows, and the active operation is Running in it. *)
AuditCovers ==
    task = "running" =>
        /\ \A i \in DOMAIN ledger : /\ audit[ledger[i].id] # <<>>
                                    /\ Last(audit[ledger[i].id]) = ledger[i].phase
        /\ active # NoRequest /\ Known(active.id) => RecordOf(ledger, active.id).phase = "Running"

(* Entering maintenance and resuming recording end, whatever the nodes, the
   port and the storage do: every wait has a deadline. *)
TransitionsEnd ==
    mode \in {"EnteringMaintenance", "ResumingRecording"} ~>
        (mode \notin {"EnteringMaintenance", "ResumingRecording"} \/ task # "running")

=============================================================================
