------------------------------- MODULE SafeState -------------------------------
(* Bringing the nodes of a channel to a known state, and finding out which
   state they are in: SafeStateGroupOperation drives one SafeStateWireOperation
   per node (safe_state.rs), ResumeVerificationGroup one
   ResumeNodeVerification per node (channel_resume.rs).  Both own the channel
   and submit one work at a time to its agent, whose attempts may be lost or
   time out.

   The node is modelled from sensor_runtime.h and lifecycle_handler.h: one
   command waits at a time, a repeated one is answered from what is remembered
   of it, and RestartNode bypasses both and takes effect after its response. *)
EXTENDS Naturals, Sequences, SequencesExt, FiniteSets

CONSTANTS
    Nodes,            \* the contracts of the group, in order
    Targets,          \* the SafeStateTargets asked for
    Jobs,             \* a subset of {"converge", "verify"}
    OrderlyAttempts, RestartAttempts, RestartCycles,   \* SafeStatePolicy
    MaxBoots,         \* bound of the model: reboots of the nodes
    Spontaneous       \* the jobs during which nodes also reboot by themselves

(* SafeStatePolicy::validate, SafeStateGroupOperation::new and
   ResumeVerificationGroup::new.
   SafeStatePolicy::validate *)
PolicyValid == {OrderlyAttempts, RestartAttempts, RestartCycles} \subseteq Nat \ {0}
ASSUME SafeStateAssumption ==
    /\ Nodes \in Seq(STRING) /\ Nodes # <<>> /\ IsInjective(Nodes)
    /\ Targets \subseteq {"Idle", "Maintenance", "Recording"}
    /\ Jobs \subseteq {"converge", "verify"}
    /\ PolicyValid /\ MaxBoots \in Nat /\ Spontaneous \subseteq Jobs

NodeSet == Range(Nodes)
None == "none"
NoCommand == [action |-> None, id |-> 0]
NoWork == [kind |-> None, node |-> None, action |-> None, id |-> 0, boot |-> 0,
           phase |-> None]
NoAnswer == [kind |-> None]
NoResult == [id |-> 0, code |-> None, state |-> None]

VARIABLES
    job,       \* "converge" or "verify"
    ops,       \* the operation of every node: the converger and its WirePhase
    current,   \* index of the node being driven
    due,       \* whether the deadline of the present phase has passed
    outcome,   \* None, "Complete", "Offline", "ConvergenceFailed" or an error
    fell,      \* whether the group fell back to Idle
    work,      \* the one work of the agent
    answer,    \* the response on its way to the agent
    node       \* the nodes

groupVars == <<ops, current, due, outcome, fell>>
vars == <<job, groupVars, work, answer, node>>

Me == Nodes[current]
Op == ops[current]

------------------------
(* SafeStateConverger.  seen is the boot the handshake of a verification told
   of; read, which the host does not know, the boot its runtime state is of. *)
NewConverger(target) ==
    [target |-> target, observed |-> None, pending |-> None, orderly |-> 0,
     restarts |-> 0, cycles |-> 0, status |-> "Converging",
     phase |-> "Ready", epoch |-> 1, seen |-> 0, read |-> 0]

(* next_action: the action to take, or the status that ends the convergence. *)
NextStep(op) ==
    CASE op.orderly >= OrderlyAttempts /\ op.cycles >= RestartCycles -> "ConvergenceFailed"
      [] op.orderly >= OrderlyAttempts /\ op.cycles < RestartCycles -> "Restart"
      [] OTHER ->
         CASE op.observed = None -> "GetState"
           [] op.observed = op.target -> "Reached"
           [] op.observed = "Idle" /\ op.target # "Idle" ->
                IF op.target = "Recording" THEN "Start" ELSE "EnterMaintenance"
           [] op.observed = "Maintenance" /\ op.target # "Maintenance" -> "ExitMaintenance"
           [] op.observed = "Recording" /\ op.target # "Recording" -> "Stop"
           [] op.observed = "Stopping" -> "Stop"
           [] op.observed = "Faulted" -> "Restart"

(* complete *)
Complete(op, observed) ==
    IF op.pending = "Restart"
    THEN [op EXCEPT !.pending = None, !.observed = None, !.orderly = 0, !.restarts = 0,
                    !.cycles = @ + 1]
    ELSE [op EXCEPT !.pending = None, !.observed = observed, !.orderly = 0]

\* Mutant: failures in a state already observed are not counted.
FailUncounted(op) ==
    IF op.pending = "Restart"
    THEN [op EXCEPT !.pending = None, !.restarts = @ + 1,
                    !.status = IF op.restarts + 1 >= RestartAttempts THEN "Offline" ELSE @]
    ELSE [op EXCEPT !.pending = None, !.orderly = IF op.observed = None THEN @ + 1 ELSE @]
(* fail *)
Fail(op) ==
    IF op.pending = "Restart"
    THEN [op EXCEPT !.pending = None, !.restarts = @ + 1,
                    !.status = IF op.restarts + 1 >= RestartAttempts THEN "Offline" ELSE @]
    ELSE [op EXCEPT !.pending = None, !.orderly = @ + 1]

(* fall_back_to_idle: what was observed last is kept. *)
FallBack(op) ==
    IF op.status = "Offline" THEN op
    ELSE [op EXCEPT !.target = "Idle", !.status = "Converging", !.orderly = 0]

(* runtime_result_matches_action *)
MatchesAction(action, state) ==
    CASE action \in {"GetState", "Restart"} -> TRUE
      [] action = "Start" -> state = "Recording"
      [] action \in {"Stop", "ExitMaintenance"} -> state = "Idle"
      [] action = "EnterMaintenance" -> state = "Maintenance"

------------------------
(* The node. *)
NewNode(state) ==
    [state |-> state, boot |-> 1, cmd |-> NoCommand,
     last |-> NoResult, restart |-> FALSE]

(* SensorRuntime::handle: the states and codes a command may lead to. *)
Executed(action, state) ==
    LET r(s, c) == [state |-> s, code |-> c] IN
    CASE action = "GetState" -> {r(state, "Ok")}
      [] action # "GetState" /\ state = "Faulted" -> {r(state, "Faulted")}
      [] action = "Start" /\ state = "Idle" ->
            {r("Recording", "Ok"), r("Faulted", "TransitionFailed")}
      [] action = "Start" /\ state = "Recording" -> {r(state, "Ok")}
      [] action = "Stop" /\ state \in {"Recording", "Stopping"} ->
            {r("Idle", "Ok"), r("Stopping", "InProgress"), r("Faulted", "TransitionFailed")}
      [] action = "Stop" /\ state \in {"Idle", "Maintenance"} -> {r(state, "Ok")}
      [] action = "EnterMaintenance" /\ state \in {"Idle", "Maintenance"} ->
            {r("Maintenance", "Ok")}
      [] action = "ExitMaintenance" /\ state \in {"Idle", "Maintenance"} -> {r("Idle", "Ok")}
      [] OTHER -> {r(state, "InvalidState")}

Execute(n) ==
    /\ node[n].cmd # NoCommand
    /\ \E r \in Executed(node[n].cmd.action, node[n].state) :
        node' = [node EXCEPT ![n].state = r.state, ![n].cmd = NoCommand,
                   ![n].last = IF r.code = "InProgress" THEN @
                               ELSE [id |-> node[n].cmd.id, code |-> r.code, state |-> r.state]]
    /\ UNCHANGED <<job, groupVars, work, answer>>

Booted(b) == [NewNode("Idle") EXCEPT !.boot = b]
Boots == LET b == {node[n].boot : n \in NodeSet} IN CHOOSE m \in b : \A x \in b : m >= x

(* The deferred restart, a stop that ends by itself, or a reboot nobody asked for. *)
NodeMoves(n) ==
    /\ \/ node[n].restart /\ Boots < MaxBoots
          /\ node' = [node EXCEPT ![n] = Booted(Boots + 1)]
       \/ node[n].state = "Stopping" /\ node' = [node EXCEPT ![n].state = "Idle"]
       \/ job \in Spontaneous /\ Boots < MaxBoots
          /\ node' = [node EXCEPT ![n] = Booted(Boots + 1)]
    /\ UNCHANGED <<job, groupVars, work, answer>>

(* LifecycleServiceHandler::handle, for a command of the work w. *)
Accepts(n, w) ==
    CASE w.action = "Restart" ->
           /\ answer' = [kind |-> "result", code |-> "Ok", state |-> node[n].state,
                         boot |-> node[n].boot]
           /\ node' = [node EXCEPT ![n].restart = TRUE]
      [] w.action # "Restart" /\ node[n].last.id = w.id ->
           /\ answer' = [kind |-> "result", code |-> node[n].last.code,
                         state |-> node[n].last.state, boot |-> node[n].boot]
           /\ UNCHANGED node
      [] OTHER ->
           /\ answer' = IF node[n].cmd \in {NoCommand, [action |-> w.action, id |-> w.id]}
                        THEN [kind |-> "progress"] ELSE [kind |-> "busy"]
           /\ node' = IF node[n].cmd = NoCommand
                      THEN [node EXCEPT ![n].cmd = [action |-> w.action, id |-> w.id]] ELSE node

Answers(n, w) ==
    IF w.kind = "lifecycle" THEN Accepts(n, w)
    ELSE answer' = [kind |-> "report", boot |-> node[n].boot] /\ UNCHANGED node

------------------------
(* The agent.  Attempts of one work repeat until it ends or is abandoned; it
   can be abandoned only between two attempts. *)
Submit(kind, action) ==
    LET id == CHOOSE i \in 1 .. 3 : i \notin {node[Me].cmd.id, node[Me].last.id} IN
    work' = [kind |-> kind, node |-> Me, action |-> action,
             id |-> IF kind = "lifecycle" THEN id ELSE 0, boot |-> 0, phase |-> "ready"]

InFlight == work.phase = "awaiting"

(* LifecycleOperation::begin_attempt, identity_request, capabilities_request.
   The group is driven before every step of the agent, so that no attempt
   starts after the deadline. *)
Attempt ==
    /\ work # NoWork /\ ~InFlight /\ ~due
    /\ work' = [work EXCEPT !.phase = "awaiting"]
    /\ Answers(work.node, work) \/ UNCHANGED <<answer, node>>
    /\ UNCHANGED <<job, groupVars>>

(* LifecycleOperation::mark_timeout: the attempt is over, its answer is not
   accepted any more. *)
TimesOut ==
    /\ InFlight
    /\ work' = [work EXCEPT !.phase = "ready"] /\ answer' = NoAnswer
    /\ UNCHANGED <<job, groupVars, node>>

(* LifecycleOperation::accept_response, not complete: the command is repeated. *)
Repeats ==
    /\ InFlight /\ answer.kind \in {"busy", "progress"}
    /\ work' = [work EXCEPT !.phase = "ready"] /\ answer' = NoAnswer
    /\ UNCHANGED <<job, groupVars, node>>

(* NodeHandshake::accept_identity: the capabilities are still to be asked for. *)
IdentityAccepted ==
    /\ InFlight /\ work.kind = "handshake" /\ work.boot = 0 /\ answer.kind = "report"
    /\ work' = [work EXCEPT !.phase = "ready", !.boot = answer.boot] /\ answer' = NoAnswer
    /\ UNCHANGED <<job, groupVars, node>>

Ended ==
    /\ InFlight /\ answer.kind \in {"result", "report"}
    /\ work.kind = "handshake" => work.boot # 0
    /\ work' = NoWork /\ answer' = NoAnswer

Abandoned == work # NoWork /\ ~InFlight /\ work' = NoWork

------------------------
(* SafeStateWireOperation of the current node. *)
Becomes(op) == ops' = [ops EXCEPT ![current] = op] /\ due' = FALSE
Running == outcome = None /\ UNCHANGED <<job, fell>>
Converging == Running /\ job = "converge"
Verifying == Running /\ job = "verify"

(* submit_next_action, and SafeStateGroupOperation::drive once the node ends. *)
SubmitNextAction ==
    /\ Converging /\ current <= Len(Nodes) /\ Op.phase = "Ready" /\ work = NoWork
    /\ Op.status = "Converging"
    /\ LET action == NextStep(Op) IN
       CASE action = "Reached" ->
              /\ ops' = [ops EXCEPT ![current].status = "Reached"] /\ due' = FALSE
              /\ current' = current + 1 /\ UNCHANGED <<outcome, work>>
         [] action = "ConvergenceFailed" ->
              /\ Becomes([Op EXCEPT !.status = "ConvergenceFailed"])
              /\ outcome' = "ConvergenceFailed" /\ UNCHANGED <<current, work>>
         [] OTHER ->
              /\ Submit("lifecycle", action)
              /\ Becomes([Op EXCEPT !.pending = action, !.phase = "Lifecycle"])
              /\ UNCHANGED <<current, outcome>>
    /\ UNCHANGED <<answer, node>>

GroupEnds ==
    /\ Converging \/ Verifying
    /\ \/ current > Len(Nodes) /\ outcome' = "Complete"
       \/ job = "converge" /\ current <= Len(Nodes) /\ Op.status = "Offline"
          /\ outcome' = "Offline"
    /\ UNCHANGED <<ops, current, due, work, answer, node>>

\* Mutant: a restart given up is taken for done, without its confirmation.
DriveExpiredUnconfirmed ==
    /\ Converging /\ current <= Len(Nodes) /\ Op.phase = "Lifecycle" /\ due
    /\ Abandoned
    /\ Becomes([(IF Op.pending = "Restart" THEN Complete(Op, "Idle") ELSE Fail(Op))
                    EXCEPT !.phase = "Ready"])
    /\ UNCHANGED <<current, outcome, answer, node>>
(* drive, once the deadline of the action has passed: an action that was on
   its way when it was given up may still be executed. *)
DriveExpired ==
    /\ Converging /\ current <= Len(Nodes) /\ Op.phase = "Lifecycle" /\ due
    /\ Abandoned
    /\ Becomes(IF Op.pending = "Restart" THEN [Op EXCEPT !.phase = "RestartDelay"]
               ELSE [Fail(Op) EXCEPT !.phase = "Ready"])
    /\ UNCHANGED <<current, outcome, answer, node>>

(* handle_event: LifecycleComplete *)
LifecycleComplete ==
    /\ Converging /\ current <= Len(Nodes) /\ Op.phase = "Lifecycle" /\ Ended
    /\ LET ok == answer.code = "Ok" /\ MatchesAction(Op.pending, answer.state) IN
       Becomes(CASE ~ok -> [Fail(Op) EXCEPT !.phase = "Ready"]
                 [] ok /\ Op.pending = "Restart" -> [Op EXCEPT !.phase = "RestartDelay"]
                 [] ok /\ Op.pending # "Restart" ->
                        [Complete(Op, answer.state) EXCEPT !.phase = "Ready"])
    /\ UNCHANGED <<current, outcome, node>>

(* drive: the settle delay, which the restart of the node does not outlast,
   and then the handshake. *)
SubmitRestartHandshake ==
    /\ Converging /\ current <= Len(Nodes) /\ Op.phase = "RestartDelay" /\ ~due
    /\ ~node[Me].restart
    /\ work = NoWork /\ Submit("handshake", None)
    /\ ops' = [ops EXCEPT ![current].phase = "RestartHandshake"]
    /\ UNCHANGED <<current, due, outcome, answer, node>>

(* handle_event: HandshakeComplete.  The epoch the node had before is no
   confirmation, and the deadline goes on. *)
RestartObserved ==
    /\ Converging /\ current <= Len(Nodes) /\ Op.phase = "RestartHandshake" /\ Ended
    /\ IF work.boot = Op.epoch
       THEN ops' = [ops EXCEPT ![current].phase = "RestartDelay"] /\ UNCHANGED due
       ELSE Becomes([Complete(Op, "Idle") EXCEPT !.phase = "Ready", !.epoch = work.boot])
    /\ UNCHANGED <<current, outcome, node>>

(* fail_restart_confirmation *)
FailRestartConfirmation ==
    /\ Converging /\ current <= Len(Nodes) /\ due
    /\ Op.phase \in {"RestartDelay", "RestartHandshake"}
    /\ IF Op.phase = "RestartHandshake" THEN Abandoned ELSE UNCHANGED work
    /\ Becomes([Fail(Op) EXCEPT !.phase = "Ready"])
    /\ UNCHANGED <<current, outcome, answer, node>>

(* SafeStateGroupOperation::fall_back_to_idle, as drive_maintenance calls it
   when the nodes do not all reach Maintenance. *)
FallBackToIdle ==
    /\ job = "converge" /\ outcome = "ConvergenceFailed" /\ ~fell
    /\ ops[1].target = "Maintenance"
    /\ ops' = [i \in DOMAIN ops |-> FallBack(ops[i])]
    /\ current' = 1 /\ outcome' = None /\ fell' = TRUE /\ due' = FALSE
    /\ UNCHANGED <<job, work, answer, node>>

------------------------
(* ResumeNodeVerification of the current node: the handshake, the runtime
   state and the stream state, one after the other under one deadline. *)
Phases == <<"handshake", "lifecycle", "stream">>

VerifyDrive ==
    /\ Verifying /\ current <= Len(Nodes) /\ ~due /\ work = NoWork
    /\ Op.cycles < Len(Phases)
    /\ Submit(Phases[Op.cycles + 1], "GetState")
    /\ ops' = [ops EXCEPT ![current].phase = "Submitted"]
    /\ UNCHANGED <<current, due, outcome, answer, node>>

(* validate_evidence: the stream is one of the boot the handshake told of. *)
ValidEvidence(op, boot) == boot = op.seen

(* handle_event: one more phase done, or the verification fails. *)
VerifyEvent ==
    /\ Verifying /\ current <= Len(Nodes) /\ Op.phase = "Submitted" /\ Ended
    /\ LET phase == Phases[Op.cycles + 1] IN
       IF phase = "lifecycle" /\ answer.code # "Ok" THEN outcome' = "RuntimeRejected" /\ UNCHANGED ops
       ELSE IF phase = "stream" /\ ~ValidEvidence(Op, answer.boot)
       THEN outcome' = "StreamEpochMismatch" /\ UNCHANGED ops
       ELSE /\ ops' = [ops EXCEPT ![current].cycles = @ + 1, ![current].phase = "Ready",
                          ![current].seen = IF phase = "handshake" THEN work.boot ELSE @,
                          ![current].read = IF phase = "lifecycle" THEN answer.boot ELSE @]
            /\ UNCHANGED outcome
    /\ UNCHANGED <<current, due, node>>

(* A node fully verified leaves the group with its evidence. *)
NodeVerified ==
    /\ Verifying /\ current <= Len(Nodes) /\ Op.cycles = Len(Phases)
    /\ ops' = [ops EXCEPT ![current].status = IF Op.seen = Op.epoch THEN "Same" ELSE "Recover"]
    /\ current' = current + 1 /\ due' = FALSE
    /\ UNCHANGED <<outcome, work, answer, node>>

(* expire *)
VerifyExpired ==
    /\ Verifying /\ current <= Len(Nodes) /\ due /\ Op.cycles < Len(Phases)
    /\ IF Op.phase = "Submitted" THEN Abandoned ELSE UNCHANGED work
    /\ outcome' = "Offline"
    /\ UNCHANGED <<ops, current, due, answer, node>>

DeadlinePasses ==
    /\ outcome = None /\ current <= Len(Nodes) /\ ~due
    /\ job = "verify" \/ Op.phase # "Ready"
    /\ due' = TRUE
    /\ UNCHANGED <<job, ops, current, outcome, fell, work, answer, node>>

------------------------
Init ==
    /\ job \in Jobs
    /\ \E target \in Targets : ops = [i \in DOMAIN Nodes |-> NewConverger(target)]
    /\ current = 1 /\ due = FALSE /\ outcome = None /\ fell = FALSE
    /\ work = NoWork /\ answer = NoAnswer
    /\ node \in [NodeSet -> {NewNode(s) : s \in {"Idle", "Recording", "Maintenance", "Faulted"}}]

Converge == SubmitNextAction \/ DriveExpired \/ LifecycleComplete \/ SubmitRestartHandshake
            \/ RestartObserved \/ FailRestartConfirmation
Verify == VerifyDrive \/ VerifyEvent \/ NodeVerified \/ VerifyExpired
Agent == Attempt \/ TimesOut \/ Repeats \/ IdentityAccepted

Next ==
    \/ Converge \/ Verify \/ GroupEnds \/ FallBackToIdle
    \/ Agent \/ DeadlinePasses
    \/ \E n \in NodeSet : Execute(n) \/ NodeMoves(n)

(* The channel task keeps driving the group and stepping the agent, and time
   passes; no message is sure to arrive and no node sure to answer. *)
SafeStateFairness ==
    /\ WF_vars(Converge) /\ WF_vars(Verify) /\ WF_vars(GroupEnds)
    /\ WF_vars(Agent) /\ WF_vars(DeadlinePasses)

Spec == Init /\ [][Next]_vars /\ SafeStateFairness

------------------------
(* When the group is complete every node is in the state it was brought to,
   although commands given up may have been executed later and restarts taken
   effect after their answer: unless it fell back, or nodes reboot unasked. *)
ConvergedIsReal ==
    job = "converge" /\ outcome = "Complete" /\ ~fell /\ job \notin Spontaneous =>
        \A i \in DOMAIN Nodes : node[Nodes[i]].state = ops[i].target

(* The evidence of a node is of one boot: the runtime state, which tells no
   epoch, was read in the boot of the identity, because the stream asked for
   after it still is of that boot, although the node may reboot between any
   two answers and while one is repeated. *)
EvidenceOfOneBoot ==
    job = "verify" =>
        \A i \in DOMAIN Nodes : ops[i].cycles = Len(Phases) => ops[i].read = ops[i].seen

(* What the host reports of a group it has finished with is the truth: the
   states it converged to and the evidence it verified. *)
SettledIsReal == ConvergedIsReal /\ EvidenceOfOneBoot

(* The group ends whatever the nodes do, answer or not: every wait has a
   deadline and every restart is counted. *)
GroupSettles == <>(outcome # None)
=============================================================================
