---------------------------- MODULE MCNodeStates ----------------------------
(* The runtime state of a node, seen from its two cores and from the host
   that brings a group of nodes to a state.  The two share nothing: a
   behaviour explores one of them and is fair to it. *)
EXTENDS SensorStream, SafeState

MCOne == <<"n1">>

VARIABLE part

StreamRests == StreamInit /\ state = "Idle" /\ latch = "None"
GroupRests ==
  /\ job = "verify" /\ ops = <<NewConverger("Idle")>> /\ current = 1 /\ due = FALSE /\ outcome = "Complete"
  /\ fell = FALSE /\ work = NoWork /\ answer = NoAnswer /\ node = [n \in NodeSet |-> NewNode("Idle")]

MCInit ==
  \/ part = "stream" /\ StreamInit /\ GroupRests
  \/ part = "group" /\ Init /\ StreamRests

MCNext ==
  \/ part = "stream" /\ StreamNext /\ UNCHANGED <<vars, part>>
  \/ part = "group" /\ Next /\ UNCHANGED <<streamVars, part>>

Stream(A) == part = "stream" /\ A
Group(A) == part = "group" /\ A

(* StreamFairness and SafeStateFairness, each for the part it is about. *)
MCSpec ==
  /\ MCInit /\ [][MCNext]_<<streamVars, vars, part>>
  /\ WF_streamVars(Stream(Core0)) /\ WF_streamVars(Stream(Core1))
  /\ WF_vars(Group(Converge)) /\ WF_vars(Group(Verify)) /\ WF_vars(Group(GroupEnds))
  /\ WF_vars(Group(Agent)) /\ WF_vars(Group(DeadlinePasses))
=============================================================================
