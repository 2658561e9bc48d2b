-------------------------- MODULE MCChannelControl --------------------------
(* What comes before a channel records and while it does: the installation documents
   and the nodes really wired, the start on a bus of two nodes, and the schedule.
   A behaviour explores one of the three. *)
EXTENDS Installation, ChannelStartup, ChannelSchedule

\* A base document of two channels, every overlay that adds or changes one channel
\* and at most one node of it (a device added, moved, replaced, enabled or disabled),
\* and five ways the nodes may really be wired.
Choice(field, values) == {<<>>} \cup {field :> v : v \in values}
NodeItem(id, hw) == [key |-> id, set |-> [hw |-> hw, enabled |-> TRUE]]
ChannelItem(name, id, on, nodes) == [key |-> name, set |-> [id |-> id, wire |-> on, enabled |-> TRUE], nodes |-> nodes]

MCBase == <<ChannelItem("a", 1, "p", <<NodeItem(1, "h1"), NodeItem(2, "h2")>>), ChannelItem("b", 2, "q", <<NodeItem(1, "h3")>>)>>

ChannelFields == {d @@ w @@ e : d \in Choice("id", {1}), w \in Choice("wire", {"p", "r"}), e \in Choice("enabled", BOOLEAN)}
NodeFields ==
    {NodeItem(0, hw).set : hw \in {"h1", "h3", "h4"}} \cup {"enabled" :> e : e \in BOOLEAN} \cup {"hw" :> "h4"}
NodeItemsOf == {<<>>} \cup {<<[key |-> id, set |-> f]>> : id \in {1, 2}, f \in NodeFields}
MCOverlays ==
    {<<[key |-> name, set |-> f, nodes |-> nodes]>> :
        name \in {"a", "c"}, f \in ChannelFields, nodes \in NodeItemsOf}

Wired(hw, on, address) == [hw |-> hw, wire |-> on, address |-> address, able |-> TRUE]
AsDocumented == {Wired("h1", "p", 1), Wired("h2", "p", 2), Wired("h3", "q", 1), Wired("h4", "r", 1)}
MCWorlds ==
    {AsDocumented,
     {Wired("h1", "p", 2), Wired("h2", "p", 1), Wired("h3", "q", 1), Wired("h4", "r", 1)},                    \* swapped
     {Wired("h1", "p", 1), Wired("h2", "p", 1), Wired("h3", "q", 1), Wired("h4", "p", 2)},                    \* one address twice
     {Wired("h4", "p", 1), Wired("h2", "p", 2), Wired("h3", "q", 1)},                                      \* replaced
     {Wired("h1", "p", 1), Wired("h2", "p", 2), [Wired("h3", "q", 1) EXCEPT !.able = FALSE]}}              \* too old

MCNodes == <<"n1", "n2">>
MCBoots == [n1 |-> 2, n2 |-> 1]   \* one of the two nodes may reboot

VARIABLE part

\* The variables of a part that rests.
InstallRests ==
    /\ files = <<>> /\ bus = {} /\ epoch = <<>> /\ stack = <<>> /\ document = <<>>
    /\ thread = <<>> /\ outcome = "unused" /\ inventory = {}
StartupRests == StartupInit /\ peer["n1"].state = "Idle"
ScheduleRests == Init /\ faulty = {}

MCInit ==
    \/ part = "installation" /\ InstallInit /\ StartupRests /\ ScheduleRests
    \/ part = "startup" /\ InstallRests /\ StartupInit /\ ScheduleRests
    \/ part = "schedule" /\ InstallRests /\ StartupRests /\ Init

MCNext ==
    \/ part = "installation" /\ InstallNext /\ UNCHANGED <<startupVars, scheduleVars, part>>
    \/ part = "startup" /\ StartupNext /\ UNCHANGED <<installVars, scheduleVars, part>>
    \/ part = "schedule" /\ Next /\ UNCHANGED <<installVars, startupVars, part>>

MCSpec == MCInit /\ [][MCNext]_<<installVars, startupVars, scheduleVars, part>>
=============================================================================
