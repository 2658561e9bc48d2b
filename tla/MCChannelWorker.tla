-------------------------- MODULE MCChannelWorker --------------------------
(* The thread of one channel, for TLC: the worker, over what the agent reports to
   it, and the agent itself, over the transactions on the bus.  They are explored
   one at a time and share nothing. *)
EXTENDS ChannelWorker, ChannelAgent

MCOneNode == <<"a">>

\* In one workload every kind of work meets every other on the channel; in the other one
\* kind comes and goes long enough for the queue to fill and for operation ids to be
\* used again.
MCWorkloads ==
    {[kinds |-> AllKinds, count |-> 2],
     [kinds |-> {"Lifecycle"}, count |-> 4]}

VARIABLE part

MCInit ==
    /\ part \in {"worker", "agent"}
    /\ Init /\ ThreadInit
    /\ part = "worker" => load.count = 2

MCNext ==
    \/ part = "worker" /\ Next /\ UNCHANGED <<threadVars, part>>
    \/ part = "agent" /\ ThreadNext /\ UNCHANGED <<vars, part>>

MCSpec ==
    /\ MCInit /\ [][MCNext]_<<vars, threadVars, part>>
    /\ WF_vars(part = "worker" /\ (Poll \/ Start \/ Advance \/ Drive))
    /\ WF_vars(part = "worker" /\ Shutdown) /\ WF_vars(part = "worker" /\ DeadlinePasses)
    /\ WF_threadVars(part = "agent" /\ Stepped(PollAgent \/ Receive))
    /\ WF_threadVars(part = "agent" /\ Stepped(take_completed_measurement))
    /\ WF_agentVars(part = "agent" /\ (ResponseDeadlinePasses \/ GuardTimePasses))
=============================================================================
