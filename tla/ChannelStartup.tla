----------------------------- MODULE ChannelStartup -----------------------------
(* The start of a channel (compose_channel_recording): the nodes that discovery
   found are asked again (bootstrap_channel), their captures opened and
   reconciled with them, the nodes started, and, when one of them recorded
   while no host listened, stopped, drained and started again.  The process may
   die at any step and start over; nodes keep recording, and may reboot. *)
EXTENDS Naturals, Sequences, SequencesExt

CONSTANTS
    StartupNodes,        \* nodes of the channel, in the order of the plan
    JournalCapacity,     \* samples the journal of a node holds
    MaxSamples,   \* bound of the model: samples of one boot
    MaxBoots,     \* bound of the model: boots of each node
    MaxStarts     \* bound of the model: starts of the process

ASSUME StartupAssumption ==
    /\ StartupNodes \in Seq(STRING) /\ StartupNodes # <<>> /\ IsInjective(StartupNodes)
    /\ JournalCapacity \in Nat \ {0} /\ MaxSamples \in Nat /\ MaxBoots \in [Range(StartupNodes) -> Nat \ {0}]
    /\ MaxStarts \in Nat

NodeSet == Range(StartupNodes)
None == "none"
NoEvidence == [boot |-> 0, state |-> None, produced |-> 0, released |-> 0, retained |-> 0]
NoStream == [made |-> FALSE, open |-> FALSE, first |-> 0, durable |-> 0]

VARIABLES
    peer,      \* boot, runtime state, produced, released, retained_from
    captures,  \* capture of every node and boot
    stage,     \* what the process is doing
    turn,      \* the node it does it to
    plan,      \* boot epochs discovery found
    evidence,  \* NodeBootstrapEvidence
    runtime,   \* runtime state each RecoveredNode was confirmed in
    takeover,  \* startup_takeover_required
    late,      \* the node with a lifecycle operation left in the agent
    starts     \* how many times the process started

hostVars == <<stage, turn, plan, evidence, runtime, takeover, late>>
startupVars == <<peer, captures, hostVars, starts>>

Me == StartupNodes[turn]
All == turn > Len(StartupNodes)
Goes(s) == stage' = s /\ turn' = 1
Next1 == turn' = turn + 1 /\ UNCHANGED stage
Refused(e) == stage' = e /\ turn' = 1 /\ UNCHANGED <<evidence, runtime, takeover, late>>

Boot(n, b) == [boot |-> b, state |-> "Idle", produced |-> 0, released |-> 0, retained |-> 0]
Stream(n) == captures[n][evidence[n].boot]

StartupInit ==
    /\ \E s \in {"Idle", "Recording", "Maintenance", "Faulted"} :
           peer = [n \in NodeSet |-> [Boot(n, 1) EXCEPT !.state = IF n = StartupNodes[1] THEN s ELSE @]]
    /\ captures = [n \in NodeSet |-> [b \in 1 .. MaxBoots[n] |-> NoStream]]
    /\ stage = "off" /\ turn = 1 /\ plan = [n \in NodeSet |-> 0]
    /\ evidence = [n \in NodeSet |-> NoEvidence]
    /\ runtime = [n \in NodeSet |-> None]
    /\ takeover = FALSE /\ late = None /\ starts = 0

------------------------
(* build_channel_startup_plans, from the inventory of discovery. *)
Discover ==
    /\ stage = "off" /\ starts < MaxStarts /\ starts' = starts + 1
    /\ plan' = [n \in NodeSet |-> peer[n].boot]
    /\ Goes("handshake")
    /\ UNCHANGED <<peer, captures, evidence, runtime, takeover, late>>

(* bootstrap_channel: handshake, configuration and state, stream state of one
   node after the other.  A deadline or a broken port ends it. *)
BootstrapIdentity ==
    /\ stage = "handshake" /\ ~All
    /\ evidence' = [evidence EXCEPT ![Me] = [NoEvidence EXCEPT !.boot = peer[Me].boot]]
    /\ stage' = "runtime" /\ UNCHANGED turn
    /\ UNCHANGED <<peer, captures, plan, runtime, takeover, late, starts>>

BootstrapRuntime ==
    /\ stage = "runtime"
    /\ evidence' = [evidence EXCEPT ![Me].state = peer[Me].state]
    /\ stage' = "stream" /\ UNCHANGED turn
    /\ UNCHANGED <<peer, captures, plan, runtime, takeover, late, starts>>

\* Mutant: the stream state may be of another boot than the identity.
SameEpochAny(n) == TRUE
SameEpoch(n) == evidence[n].boot = peer[n].boot

BootstrapStream ==
    /\ stage = "stream"
    /\ IF SameEpoch(Me)
       THEN /\ evidence' = [evidence EXCEPT ![Me] =
                  [peer[Me] EXCEPT !.state = evidence[Me].state, !.boot = evidence[Me].boot]]
            /\ stage' = "handshake" /\ turn' = turn + 1
            /\ UNCHANGED <<runtime, takeover, late>>
       ELSE Refused("failed")
    /\ UNCHANGED <<peer, captures, plan, starts>>

BootstrapFails ==
    /\ stage \in {"handshake", "runtime", "stream"} /\ Goes("failed")
    /\ UNCHANGED <<peer, captures, plan, evidence, runtime, takeover, late, starts>>

(* validate_bootstrap *)
ValidateBootstrap ==
    /\ stage = "handshake" /\ All
    /\ Goes(IF \A n \in NodeSet : evidence[n].boot = plan[n] THEN "prepare" ELSE "failed")
    /\ UNCHANGED <<peer, captures, plan, evidence, runtime, takeover, late, starts>>

(* prepare_capture_stream and new_capture_boundary: a boot that has a capture
   goes on with it, another begins where the node is. *)
PrepareCapture(n) ==
    IF Stream(n).open THEN Stream(n)
    ELSE [made |-> TRUE, open |-> TRUE, first |-> evidence[n].produced, durable |-> evidence[n].produced]

(* CaptureWalSink::open up to the header of a new file. *)
CreateCapture(n) == [Stream(n) EXCEPT !.made = TRUE]

(* inspect_capture_stream_origin: a file that was created and never got its
   header cannot be read, and the start ends before anything would repair it. *)
OriginUnreadable(n) == Stream(n).made /\ ~Stream(n).open

RefuseOrigin ==
    /\ stage = "prepare" /\ \E n \in NodeSet : OriginUnreadable(n)
    /\ Refused("TruncatedFileHeader")
    /\ UNCHANGED <<peer, captures, plan, starts>>

(* The captures are opened one after the other; the process may be stopped, or
   a call fail, at one of them, also between a file and its header. *)
OpenCaptures ==
    /\ stage = "prepare" /\ ~\E n \in NodeSet : OriginUnreadable(n)
    /\ \/ /\ captures' = [n \in NodeSet |->
                       [captures[n] EXCEPT ![evidence[n].boot] = PrepareCapture(n)]]
          /\ Goes("reconcile") /\ UNCHANGED <<evidence, runtime, takeover, late>>
       \/ \E k \in DOMAIN StartupNodes :
             /\ captures' = [n \in NodeSet |-> [captures[n] EXCEPT ![evidence[n].boot] =
                    CASE \E i \in 1 .. k - 1 : n = StartupNodes[i] -> PrepareCapture(n)
                      [] n = StartupNodes[k] -> CreateCapture(n)
                      [] OTHER -> @]]
             /\ Refused("failed")
       \/ Refused("failed") /\ UNCHANGED captures
    /\ UNCHANGED <<peer, plan, starts>>

(* reconcile_existing_capture *)
Reconciles(n) ==
    CASE evidence[n].released > Stream(n).durable -> "ReleasedBeyondDurable"
      [] evidence[n].released <= Stream(n).durable
         /\ Stream(n).durable > evidence[n].produced -> "CaptureAheadOfNode"
      [] OTHER -> "Ok"

\* Mutant: only a node found recording is taken over.
TakeoverRequiredRecording == \E n \in NodeSet : evidence[n].state = "Recording"
(* startup_takeover_required *)
TakeoverRequired ==
    \E n \in NodeSet : evidence[n].state = "Recording"
                       \/ Stream(n).durable < evidence[n].produced

(* reconcile_channel_streams *)
ReconcileStreams ==
    /\ stage = "reconcile"
    /\ IF \A n \in NodeSet : Reconciles(n) = "Ok"
       THEN /\ Goes("activate")
            /\ runtime' = [n \in NodeSet |-> evidence[n].state]
            /\ takeover' = TakeoverRequired
            /\ UNCHANGED <<evidence, late>>
       ELSE Refused(Reconciles(CHOOSE n \in NodeSet : Reconciles(n) # "Ok"))
    /\ UNCHANGED <<peer, captures, plan, starts>>

------------------------
(* One lifecycle exchange: the node executes the command and the host learns
   of it, or the deadline passes with the operation still in the agent, which
   the node may have executed. *)
Started(s) == IF s = "Idle" THEN {"Recording", "Faulted"} ELSE {s}
Stopped(s) == IF s = "Recording" THEN {"Idle", "Faulted"} ELSE {s}
Exited(s) == IF s = "Maintenance" THEN {"Idle"} ELSE {s}

Exchange(n, states) == \E s \in states : peer' = [peer EXCEPT ![n].state = s]
Learns(n) == runtime' = [runtime EXCEPT ![n] = peer'[n].state] /\ UNCHANGED late
Misses(n) == late' = n /\ UNCHANGED runtime

(* activate_recording_nodes: a node in Maintenance leaves it, an idle node is
   started, one that records is left alone. *)
Activate ==
    /\ stage = "activate" /\ ~All
    /\ CASE runtime[Me] = "Recording" ->
              Next1 /\ UNCHANGED <<peer, runtime, late>>
         [] runtime[Me] = "Faulted" -> Goes("rollback") /\ UNCHANGED <<peer, runtime, late>>
         [] runtime[Me] \in {"Idle", "Maintenance"} ->
              \/ /\ Exchange(Me, IF runtime[Me] = "Idle" THEN Started(peer[Me].state)
                                 ELSE Exited(peer[Me].state))
                 /\ Learns(Me)
                 /\ IF runtime'[Me] = (IF runtime[Me] = "Idle" THEN "Recording" ELSE "Idle")
                    THEN stage' = stage /\ turn' = IF runtime[Me] = "Idle" THEN turn + 1 ELSE turn
                    ELSE Goes("rollback")
              \/ /\ Exchange(Me, {peer[Me].state} \cup Started(peer[Me].state))
                 /\ Misses(Me) /\ Goes("rollback")
    /\ UNCHANGED <<captures, plan, evidence, takeover, starts>>

(* assemble_recording_coordinator *)
Assemble ==
    /\ stage = "activate" /\ All
    /\ Goes(CASE \E n \in NodeSet : runtime[n] # "Recording" -> "NodeNotRecording"
              [] \E n \in NodeSet : evidence[n].boot # plan[n] -> "SessionIdentityMismatch"
              [] OTHER -> IF takeover THEN "stop" ELSE "recording")
    /\ UNCHANGED <<peer, captures, plan, evidence, runtime, takeover, late, starts>>

(* stop_recording_nodes, for the takeover and for the rollback of a failed
   start.  An operation left in the agent answers first: it is taken for the
   answer of the stop, and one of another node ends the rollback. *)
Stop ==
    /\ stage \in {"stop", "rollback"} /\ ~All
    /\ LET next == IF stage = "stop" THEN "failed" ELSE "rolledback" IN
       \/ /\ late = None
          /\ Exchange(Me, Stopped(peer[Me].state)) /\ Learns(Me)
          /\ IF runtime'[Me] = "Idle" THEN Next1 ELSE Goes(next)
       \/ Goes(next) /\ UNCHANGED <<peer, runtime, late>>
    /\ UNCHANGED <<captures, plan, evidence, takeover, starts>>

StopEnds ==
    /\ stage \in {"stop", "rollback"} /\ All
    /\ Goes(IF stage = "stop" THEN "drain" ELSE "rolledback")
    /\ UNCHANGED <<peer, captures, plan, evidence, runtime, takeover, late, starts>>

(* The drain of run_controlled_shutdown, of the nodes in turn: the samples the
   node still holds, after a gap if it dropped some; its deadline may pass. *)
Session(n) == evidence[n].boot = peer[n].boot
Pulled(n) == [Stream(n) EXCEPT !.durable =
                IF @ < peer[n].retained THEN peer[n].retained ELSE @ + 1]

Persist(n) ==
    /\ Session(n) /\ Stream(n).durable < peer[n].produced
    /\ captures' = [captures EXCEPT ![n][evidence[n].boot] = Pulled(n)]

Drain ==
    /\ stage = "drain" /\ ~All
    /\ \/ Persist(Me) /\ UNCHANGED <<stage, turn>>
       \/ Session(Me) /\ Stream(Me).durable = peer[Me].produced /\ Next1 /\ UNCHANGED captures
       \/ ~Session(Me) /\ Next1 /\ UNCHANGED captures
       \/ Goes("failed") /\ UNCHANGED captures
    /\ UNCHANGED <<peer, plan, evidence, runtime, takeover, late, starts>>

(* start_recording_nodes, and resume_scheduling once all have started. *)
Restart ==
    /\ stage = "restart" /\ ~All
    /\ \/ /\ Exchange(Me, Started(peer[Me].state)) /\ Learns(Me)
          /\ IF runtime'[Me] = "Recording" THEN Next1 ELSE Goes("rollback")
       \/ Exchange(Me, {peer[Me].state} \cup Started(peer[Me].state))
          /\ Misses(Me) /\ Goes("rollback")
    /\ UNCHANGED <<captures, plan, evidence, takeover, starts>>

DrainEnds ==
    /\ stage = "drain" /\ All /\ Goes("restart")
    /\ UNCHANGED <<peer, captures, plan, evidence, runtime, takeover, late, starts>>

RestartEnds ==
    /\ stage = "restart" /\ All /\ Goes("recording")
    /\ UNCHANGED <<peer, captures, plan, evidence, runtime, takeover, late, starts>>

------------------------
(* Recording: a sample is released only once it is on disk. *)
Record(n) ==
    /\ stage = "recording" /\ Persist(n)
    /\ UNCHANGED <<peer, hostVars, starts>>

Release(n) ==
    /\ stage \in {"recording", "drain"} /\ Session(n) /\ peer[n].released < Stream(n).durable
    /\ peer' = [peer EXCEPT ![n].released = Stream(n).durable]
    /\ UNCHANGED <<captures, hostVars, starts>>

(* The end of the process, in any stage: what is on disk stays. *)
Crash ==
    /\ stage # "off" /\ Goes("off") /\ late' = None
    /\ evidence' = [n \in NodeSet |-> NoEvidence]
    /\ runtime' = [n \in NodeSet |-> None] /\ takeover' = FALSE
    /\ UNCHANGED <<peer, captures, plan, starts>>

Produce(n) ==
    /\ peer[n].state = "Recording" /\ peer[n].produced < MaxSamples
    /\ LET p == peer[n].produced + 1 IN
       peer' = [peer EXCEPT ![n].produced = p,
                  ![n].retained = IF p > JournalCapacity /\ p - JournalCapacity > @ THEN p - JournalCapacity ELSE @]
    /\ UNCHANGED <<captures, hostVars, starts>>

Reboot(n) ==
    /\ peer[n].boot < MaxBoots[n]
    /\ peer' = [peer EXCEPT ![n] = Boot(n, peer[n].boot + 1)]
    /\ UNCHANGED <<captures, hostVars, starts>>

StartupNext ==
    \/ Discover \/ BootstrapIdentity \/ BootstrapRuntime \/ BootstrapStream \/ BootstrapFails
    \/ ValidateBootstrap \/ RefuseOrigin \/ OpenCaptures \/ ReconcileStreams \/ Activate \/ Assemble
    \/ Stop \/ StopEnds \/ Drain \/ DrainEnds \/ Restart \/ RestartEnds \/ Crash
    \/ \E n \in NodeSet : Record(n) \/ Release(n) \/ Produce(n) \/ Reboot(n)

StartupSpec == StartupInit /\ [][StartupNext]_startupVars

------------------------
(* No start is refused for what an earlier one left behind: whenever a node
   and its capture are read they agree, whatever the process and the node did
   in between, and a node that was confirmed is one that can be assembled.
   The one exception loses nothing: an earlier start was cut between a capture
   file and its header, and of that boot nothing is on disk or released. *)
RefusedStartsLoseNothing ==
    /\ stage \notin {"ReleasedBeyondDurable", "CaptureAheadOfNode", "NodeNotRecording",
                     "SessionIdentityMismatch"}
    /\ stage = "TruncatedFileHeader" =>
          \E n \in NodeSet : /\ OriginUnreadable(n) /\ Stream(n).durable = 0
                             /\ Session(n) => peer[n].released = 0

(* When a channel has started, whatever its nodes had recorded before the host
   came is in the capture (or told as a gap), and every node that did not
   reboot or fail meanwhile records. *)
StartedIsComplete ==
    [][stage # "recording" /\ stage' = "recording" =>
          \A n \in NodeSet : Session(n) =>
              /\ Stream(n).durable >= evidence[n].produced
              /\ peer[n].state \in {"Recording", "Faulted"}]_startupVars
=============================================================================
