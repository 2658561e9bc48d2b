----------------------------- MODULE Installation -----------------------------
(* From the installation documents to the inventory the host records with: a site
   document extends a base one and is merged over it, the topology is validated,
   every enabled channel discovers its enabled nodes in a thread of its own, and
   the collector accepts the evidence.
   A document is a sequence of channels named by "name", each with the fields it
   sets and a sequence of nodes named by "id", each with the fields it sets: an
   overlay sets only some of them.  The exchanges of one node are ChannelStartup's;
   here a node answers, or stays silent until the deadline. *)
EXTENDS Integers, Sequences, FiniteSets, SequencesExt, TLC

CONSTANTS
    Base,            \* channels of the base document
    Overlays,        \* the site documents considered
    Worlds,          \* what may really be wired: nodes [hw, wire, address, able]
    MaxReboots       \* bound of the model: restarts of nodes

VARIABLES
    files,     \* the documents: file -> [extends, channels]
    bus,       \* the nodes that are wired
    epoch,     \* boot epoch of each node's hardware
    stack,     \* load_document: files being read, the requested one first
    document,  \* the document merged so far
    thread,    \* discovery of each channel name, by its thread
    outcome,   \* "loading", "discovering", "inventory", or the error
    inventory  \* DiscoveryInventory: [channel, address, hw, epoch]

installVars == <<files, bus, epoch, stack, document, thread, outcome, inventory>>

MAX_HOST_CHANNELS == 16
MAX_NODES_PER_CHANNEL == 253
------------------------
(* item_identity: a channel is its name, a node its id *)
FindItem(items, identity) ==
    IF \E i \in DOMAIN items : items[i].key = identity
    THEN CHOOSE i \in DOMAIN items : items[i].key = identity /\ \A j \in 1 .. i - 1 : items[j].key # identity
    ELSE 0

(* merge_identity_array over merge_values of the items *)
merge_nodes(base, overlay) ==
    FoldLeft(LAMBDA acc, item :
                 IF FindItem(acc, item.key) = 0 THEN Append(acc, item)
                 ELSE [acc EXCEPT ![FindItem(acc, item.key)].set = item.set @@ @],
             base, overlay)

(* Mutant: a channel of the overlay replaces the nodes of the base. *)
merge_channels_whole(base, overlay) ==
    FoldLeft(LAMBDA acc, item :
                 IF FindItem(acc, item.key) = 0 THEN Append(acc, item)
                 ELSE LET i == FindItem(acc, item.key)
                      IN [acc EXCEPT ![i].set = item.set @@ @,
                                     ![i].nodes = IF item.nodes = <<>> THEN @ ELSE item.nodes],
             base, overlay)
merge_channels(base, overlay) ==
    FoldLeft(LAMBDA acc, item :
                 IF FindItem(acc, item.key) = 0 THEN Append(acc, item)
                 ELSE LET i == FindItem(acc, item.key)
                      IN [acc EXCEPT ![i].set = item.set @@ @, ![i].nodes = merge_nodes(@, item.nodes)],
             base, overlay)

(* load_document: follow "extends" to the end, then merge on the way back *)
LoadFollow ==
    LET next == files[Last(stack)].extends
    IN /\ outcome = "loading" /\ document = <<>> /\ next # "none"
       /\ IF next \in ToSet(stack)
          THEN outcome' = "CircularExtends" /\ UNCHANGED stack
          ELSE stack' = Append(stack, next) /\ UNCHANGED outcome
       /\ UNCHANGED <<files, bus, epoch, document, thread, inventory>>

LoadMerge ==
    /\ outcome = "loading" /\ stack # <<>>
    /\ document = <<>> => files[Last(stack)].extends = "none"
    /\ document' = IF document = <<>> THEN files[Last(stack)].channels
                   ELSE merge_channels(document, files[Last(stack)].channels)
    /\ stack' = Front(stack)
    /\ UNCHANGED <<files, bus, epoch, thread, outcome, inventory>>
------------------------
Distinct(s) == \A i, j \in DOMAIN s : s[i] = s[j] => i = j
Sets(item, fields) == fields \subseteq DOMAIN item.set

(* parse_node *)
parse_node(node) ==
    /\ Sets(node, {"hw", "enabled"})
    /\ node.key \notin {0, 255}

(* parse_channel, parse_transport *)
parse_channel(channel) ==
    /\ Sets(channel, {"id", "wire", "enabled"})
    /\ channel.set.id \in 1 .. MAX_HOST_CHANNELS
    /\ Len(channel.nodes) \in 1 .. MAX_NODES_PER_CHANNEL
    /\ \A i \in DOMAIN channel.nodes : parse_node(channel.nodes[i])
    /\ Distinct([i \in DOMAIN channel.nodes |-> channel.nodes[i].key])
    /\ channel.set.enabled => \E i \in DOMAIN channel.nodes : channel.nodes[i].set.enabled

(* InstallationTopologyProfile::from_document *)
from_document(d) ==
    /\ Len(d) \in 1 .. MAX_HOST_CHANNELS
    /\ \A i \in DOMAIN d : parse_channel(d[i])
    /\ Distinct([i \in DOMAIN d |-> d[i].key]) /\ Distinct([i \in DOMAIN d |-> d[i].set.id])
    /\ Distinct([i \in DOMAIN d |-> d[i].set.wire])
    /\ Distinct(FlattenSeq([i \in DOMAIN d |-> [k \in DOMAIN d[i].nodes |-> d[i].nodes[k].set.hw]]))

(* channel_plan, node_target: the enabled nodes of an enabled channel *)
enabled_nodes(channel) == SelectSeq(channel.nodes, LAMBDA node : node.set.enabled)
enabled_channels(d) == SelectSeq(d, LAMBDA channel : channel.set.enabled)
Plan == enabled_channels(document)
node_target(channel, node) == [channel |-> channel.key, wire |-> channel.set.wire, address |-> node.key, hw |-> node.set.hw]
channel_plan(channel) ==
    [i \in DOMAIN enabled_nodes(channel) |-> node_target(channel, enabled_nodes(channel)[i])]

(* execute_installation_with: the thread of a channel takes its targets in plan order *)
NewThread(targets) == [targets |-> targets, phase |-> "handshake", identity |-> 0, found |-> <<>>, result |-> "running"]

(* HostInstallationProfile::load, then bootstrap_installation_with: a thread for each channel *)
StartDiscovery ==
    /\ outcome = "loading" /\ stack = <<>>
    /\ IF from_document(document)
       THEN /\ outcome' = "discovering"
            /\ thread' = [c \in {Plan[i].key : i \in DOMAIN Plan} |->
                             NewThread(channel_plan(Plan[FindItem(Plan, c)]))]
       ELSE outcome' = "Topology" /\ UNCHANGED thread
    /\ UNCHANGED <<files, bus, epoch, stack, document, inventory>>
------------------------
Running(c) == thread[c].result = "running" /\ thread[c].targets # <<>>
NextTarget(c) == Head(thread[c].targets)
Answering(c) == {n \in bus : n.wire = NextTarget(c).wire /\ n.address = NextTarget(c).address}

(* HandshakeRequirements: accept_identity and accept_capabilities *)
Meets(n, target) == n.hw = target.hw /\ n.able

(* wait_for_handshake.  Two nodes at one address garble each other's answer. *)
ThreadHandshake(c) ==
    /\ Running(c) /\ thread[c].phase = "handshake"
    /\ \E n \in Answering(c) :
          /\ Answering(c) = {n}
          /\ thread' = IF Meets(n, NextTarget(c))
                       THEN [thread EXCEPT ![c].phase = "observe", ![c].identity = epoch[n.hw]]
                       ELSE [thread EXCEPT ![c].result = "Handshake"]
    /\ UNCHANGED <<files, bus, epoch, stack, document, outcome, inventory>>

(* configuration, runtime state and stream of the node: one boot with its identity *)
ThreadObserve(c) ==
    LET t == NextTarget(c)
    IN /\ Running(c) /\ thread[c].phase = "observe"
       /\ Cardinality(Answering(c)) = 1
       /\ thread' = IF epoch[t.hw] # thread[c].identity
                    THEN [thread EXCEPT ![c].result = "StreamEpochMismatch"]
                    ELSE [thread EXCEPT ![c].found = Append(@, [channel |-> c, address |-> t.address, hw |-> t.hw,
                                                                epoch |-> epoch[t.hw]]),
                                        ![c].targets = Tail(@), ![c].phase = "handshake", ![c].identity = 0]
       /\ UNCHANGED <<files, bus, epoch, stack, document, outcome, inventory>>

(* ensure_deadline; the port may also fail to open or go away *)
ThreadFails(c) ==
    /\ Running(c)
    /\ thread' = [thread EXCEPT ![c].result = "NodeDeadline"]
    /\ UNCHANGED <<files, bus, epoch, stack, document, outcome, inventory>>

ThreadEnds(c) ==
    /\ thread[c].result = "running" /\ thread[c].targets = <<>>
    /\ thread' = [thread EXCEPT ![c].result = "ok"]
    /\ UNCHANGED <<files, bus, epoch, stack, document, outcome, inventory>>

WiredNodeReboots(h) ==
    /\ epoch[h] < MaxReboots /\ outcome = "discovering"
    /\ epoch' = [epoch EXCEPT ![h] = @ + 1]
    /\ UNCHANGED <<files, bus, stack, document, thread, outcome, inventory>>
------------------------
(* DiscoveryInventoryCollector: accept_inner of each entry, then finish *)
Targets == FlattenSeq([i \in DOMAIN Plan |-> channel_plan(Plan[i])])
accept_inner(entries, k) ==
    LET e == entries[k]
    IN /\ \E i \in DOMAIN Targets : Targets[i].channel = e.channel /\ Targets[i].address = e.address /\ Targets[i].hw = e.hw
       /\ \A j \in 1 .. k - 1 : <<entries[j].channel, entries[j].address>> # <<e.channel, e.address>>
finish(entries) == Len(entries) = Len(Targets) /\ \A k \in DOMAIN entries : accept_inner(entries, k)

(* the scope joins every thread; the first error in plan order is the host's *)
FirstError ==
    LET failed == {i \in DOMAIN Plan : thread[Plan[i].key].result # "ok"}
    IN IF failed = {} THEN "none" ELSE thread[Plan[CHOOSE i \in failed : \A j \in failed : i <= j].key].result

JoinThreads ==
    LET found == FlattenSeq([i \in DOMAIN Plan |-> thread[Plan[i].key].found])
    IN /\ outcome = "discovering"
       /\ \A c \in DOMAIN thread : thread[c].result # "running"
       /\ outcome' = CASE FirstError # "none" -> FirstError
                       [] finish(found) -> "inventory"
                       [] OTHER -> "Inventory"
       /\ inventory' = IF FirstError = "none" /\ finish(found) THEN ToSet(found) ELSE {}
       /\ UNCHANGED <<files, bus, epoch, stack, document, thread>>
------------------------
InstallInit ==
    /\ \E site \in Overlays, extends \in {"none", "site"} :
          files = [f \in {"site", "base"} |-> IF f = "site" THEN [extends |-> "base", channels |-> site]
                                                ELSE [extends |-> extends, channels |-> Base]]
    /\ bus \in Worlds
    /\ epoch = [h \in {n.hw : n \in UNION Worlds} |-> 0]
    /\ stack = <<"site">> /\ document = <<>>
    /\ thread = <<>> /\ outcome = "loading" /\ inventory = {}

ThreadSteps(c) == ThreadHandshake(c) \/ ThreadObserve(c) \/ ThreadFails(c) \/ ThreadEnds(c)
InstallNext ==
    \/ LoadFollow \/ LoadMerge \/ StartDiscovery \/ JoinThreads
    \/ \E c \in DOMAIN thread : ThreadSteps(c)
    \/ \E h \in DOMAIN epoch : WiredNodeReboots(h)

InstallSpec == InstallInit /\ [][InstallNext]_installVars
------------------------
(* The last layer that sets a field of a named item gives its value. *)
LayerOf(f) == files[f].channels
ChannelSets(f, name, field) == \E i \in DOMAIN LayerOf(f) : LayerOf(f)[i].key = name /\ field \in DOMAIN LayerOf(f)[i].set
ChannelValue(name, field) ==
    LET f == IF ChannelSets("site", name, field) THEN "site" ELSE "base"
    IN LayerOf(f)[FindItem(LayerOf(f), name)].set[field]
NodeItems(f, name) ==
    UNION {{LayerOf(f)[i].nodes[k] : k \in DOMAIN LayerOf(f)[i].nodes} : i \in {j \in DOMAIN LayerOf(f) : LayerOf(f)[j].key = name}}
NodeValue(name, address, field) ==
    LET from(f) == {n.set[field] : n \in {m \in NodeItems(f, name) : m.key = address /\ field \in DOMAIN m.set}}
    IN IF from("site") # {} THEN CHOOSE v \in from("site") : TRUE ELSE CHOOSE v \in from("base") : TRUE
Documented == UNION {UNION {{<<c.key, n.key>> : n \in ToSet(c.nodes)} : c \in ToSet(LayerOf(f))} : f \in {"site", "base"}}

(* A host that starts records exactly the nodes its layered documents enable, every one
   under the hardware id documented for it, found alone at its address on the wire of its
   channel, and no piece of hardware under two names: whatever the site overlay changes
   and however the nodes are really wired. *)
InventoryExact ==
    outcome = "inventory" =>
       /\ \A e \in inventory :
             /\ NodeValue(e.channel, e.address, "hw") = e.hw
             /\ NodeValue(e.channel, e.address, "enabled") /\ ChannelValue(e.channel, "enabled")
             /\ {n \in bus : n.wire = ChannelValue(e.channel, "wire") /\ n.address = e.address} =
                   {n \in bus : n.hw = e.hw}
             /\ \A d \in inventory : d.hw = e.hw => d = e
       /\ \A p \in Documented :
             ChannelValue(p[1], "enabled") /\ NodeValue(p[1], p[2], "enabled") =>
                \E e \in inventory : e.channel = p[1] /\ e.address = p[2]
=============================================================================
