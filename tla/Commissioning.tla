----------------------------- MODULE Commissioning -----------------------------
(* Giving nodes without an address one: the channel worker of the host scans the
   bus slot by slot, assigns an address to a node it has scanned by broadcast,
   repeats the assignment until it is answered, and verifies the node under its
   new address.  The node stores the address on its other core, in two places, and
   restarts once its answer has left.  Any frame may be lost, two answers at once
   garble each other, and a node may lose power. *)
EXTENDS Integers, Sequences, FiniteSets

CONSTANTS
    Hardware,      \* the nodes on the bus, all without an address at first
    Nonces,        \* nonces of the scans
    SlotCount,
    Addresses,     \* addresses the operator assigns
    Configured,    \* addresses of the nodes the channel already has
    MaxOps,        \* bound of the model: operations of the operator
    MaxPowerLoss   \* bound of the model

(* how an operation that assigned nothing ends *)
Outcomes == {"none", "Scan", "CommissioningAddressConflict", "CommissioningIdentityNotScanned", "CommissioningDeadline"}

(* parse_arguments and OperationRequest::validate; parse_node; an outcome names no node *)
ASSUME CommissioningAssumption ==
    /\ SlotCount \in {1, 2, 4, 8, 16}
    /\ Addresses \subseteq 1 .. 253
    /\ Configured \subseteq 1 .. 254
    /\ 0 \notin Nonces
    /\ Hardware \cap Outcomes = {}

VARIABLES
    node,       \* each node: the address it answers under, the one in its memory, in its flash and in both
                \* copies of its boot metadata, and its commissioning handler
    op,         \* the operation of the worker and its attempt on the bus
    scanned,    \* ProductionChannelTask::commissioning_discoveries
    request,    \* the frame on the bus
    answer,     \* the answer on its way to the host
    worker,     \* "running", or the error that ended the channel task
    report,     \* how the last operation ended
    ops,        \* operations so far
    losses,     \* power losses so far
    slot        \* commissioning_slot: CRC32C of nonce and hardware id

commVars == <<node, op, scanned, request, answer, worker, report, ops, losses, slot>>

None == [kind |-> "none"]
NoOp == [kind |-> "none", attempt |-> "ready", expired |-> FALSE]
NoResult == [id |-> 0, address |-> 0, code |-> "none"]
Silent == [status |-> "none", hw |-> "none", address |-> 0]

CommInit ==
    /\ node = [h \in Hardware |-> [address |-> 0, current |-> 0, stored |-> 0, boot |-> 0, spare |-> 0, syncs |-> FALSE,
                                   unsure |-> FALSE, active |-> NoResult, cache |-> NoResult, armed |-> FALSE]]
    /\ op = NoOp /\ scanned = {} /\ request = None /\ answer = Silent
    /\ worker = "running" /\ report = NoResult /\ ops = 0 /\ losses = 0
    /\ slot \in [Hardware \X Nonces -> 0 .. SlotCount - 1]
------------------------
(* begin_commissioning *)
Ended(code) == op' = NoOp /\ report' = [id |-> ops', address |-> 0, code |-> code]

StartScan(nonce) ==
    /\ worker = "running" /\ op = NoOp /\ ops < MaxOps
    /\ ops' = ops + 1
    /\ op' = [kind |-> "scan", nonce |-> nonce, next |-> 0, found |-> {}, attempt |-> "ready", expired |-> FALSE]
    /\ UNCHANGED <<node, scanned, request, answer, worker, report, losses, slot>>

StartAssign(nonce, h, address) ==
    /\ worker = "running" /\ op = NoOp /\ ops < MaxOps /\ ops' = ops + 1
    /\ IF address \in Configured THEN Ended("CommissioningAddressConflict")
       ELSE IF <<nonce, h>> \notin scanned THEN Ended("CommissioningIdentityNotScanned")
       ELSE /\ op' = [kind |-> "assign", hw |-> h, address |-> address, id |-> ops', phase |-> "Assigning",
                      attempt |-> "ready", expired |-> FALSE]
            /\ UNCHANGED report
    /\ UNCHANGED <<node, scanned, request, answer, worker, losses, slot>>

(* begin_attempt: also from ReconcileRequired, with the same operation id *)
begin_attempt ==
    /\ worker = "running" /\ op # NoOp /\ ~op.expired /\ op.attempt # "awaiting"
    /\ op.kind = "scan" => op.next < SlotCount
    /\ request' = CASE op.kind = "scan" -> [kind |-> "probe", nonce |-> op.nonce, slot |-> op.next]
                    [] op.kind = "assign" /\ op.phase = "Assigning" ->
                          [kind |-> "assign", hw |-> op.hw, address |-> op.address, id |-> op.id]
                    [] OTHER -> [kind |-> "handshake", address |-> op.address]
    /\ answer' = Silent
    /\ op' = [op EXCEPT !.attempt = "awaiting"]
    /\ UNCHANGED <<node, scanned, worker, report, ops, losses, slot>>

(* the scan is complete: its identities are the ones an assignment may name *)
ScanComplete ==
    /\ worker = "running" /\ op.kind = "scan" /\ ~op.expired /\ op.attempt = "ready" /\ op.next = SlotCount
    /\ scanned' = {<<op.nonce, h>> : h \in op.found}
    /\ ops' = ops /\ Ended("Scan")
    /\ UNCHANGED <<node, request, answer, worker, losses, slot>>

(* mark_timeout: an empty slot, or an assignment in doubt *)
mark_timeout ==
    /\ worker = "running" /\ op.attempt = "awaiting" /\ ~op.expired /\ answer = Silent
    /\ request' = None
    /\ op' = IF op.kind = "scan" THEN [op EXCEPT !.attempt = "ready", !.next = @ + 1]
             ELSE [op EXCEPT !.attempt = "reconcile"]
    /\ UNCHANGED <<node, scanned, answer, worker, report, ops, losses, slot>>

(* mark_transmit_failed: the same slot is probed again; an assignment is in doubt *)
mark_transmit_failed ==
    /\ worker = "running" /\ op.attempt = "awaiting" /\ ~op.expired /\ request # None
    /\ request' = None
    /\ op' = [op EXCEPT !.attempt = IF op.kind = "scan" THEN "ready" ELSE "reconcile"]
    /\ UNCHANGED <<node, scanned, answer, worker, report, ops, losses, slot>>

(* Mutant: the answer to the assignment is taken for the node. *)
accept_response_unverified ==
    /\ worker = "running" /\ op.attempt = "awaiting" /\ ~op.expired /\ answer # Silent
    /\ answer' = Silent /\ ops' = ops
    /\ IF op.kind = "scan" THEN op' = [op EXCEPT !.attempt = "ready", !.next = @ + 1, !.found = @ \cup {answer.hw}] /\ UNCHANGED report
       ELSE IF answer.status = "Ok" THEN op' = NoOp /\ report' = [id |-> op.id, address |-> op.address, code |-> op.hw]
       ELSE op' = [op EXCEPT !.attempt = "reconcile"] /\ UNCHANGED report
    /\ UNCHANGED <<node, scanned, request, losses, slot, worker>>
(* accept_response, and what drive_commissioning makes of it; an answer that is an
   error, or another node's, ends the task of the channel *)
accept_response ==
    /\ worker = "running" /\ op.attempt = "awaiting" /\ ~op.expired /\ answer # Silent
    /\ answer' = Silent /\ ops' = ops
    /\ CASE op.kind = "scan" ->
               /\ op' = [op EXCEPT !.attempt = "ready", !.next = @ + 1, !.found = @ \cup {answer.hw}]
               /\ UNCHANGED <<worker, report>>
         [] op.kind = "assign" /\ answer.status = "Busy" ->
               op' = [op EXCEPT !.attempt = "reconcile"] /\ UNCHANGED <<worker, report>>
         [] op.kind = "assign" /\ answer.status = "Ok" /\ op.phase = "Assigning" ->
               op' = [op EXCEPT !.attempt = "ready", !.phase = "Verifying"] /\ UNCHANGED <<worker, report>>
         [] op.kind = "assign" /\ answer.status = "Ok" /\ op.phase = "Verifying" /\ answer.hw = op.hw ->
               /\ op' = NoOp /\ report' = [id |-> op.id, address |-> op.address, code |-> op.hw]
               /\ UNCHANGED worker
         [] OTHER -> worker' = "CommissioningFailed" /\ UNCHANGED <<op, report>>
    /\ UNCHANGED <<node, scanned, request, losses, slot>>

(* The deadline: work that waits is abandoned; for an attempt in flight the worker
   comes back without stepping the endpoint, again and again. *)
Deadline ==
    /\ worker = "running" /\ op # NoOp /\ ~op.expired /\ ops' = ops
    /\ IF op.attempt = "awaiting" THEN op' = [op EXCEPT !.expired = TRUE] /\ UNCHANGED report
       ELSE Ended("CommissioningDeadline")
    /\ UNCHANGED <<node, scanned, request, answer, worker, losses, slot>>
------------------------
Unassigned == {h \in Hardware : node[h].address = 0}

(* what the node makes of an AssignAddress for it *)
Succeeded(r, address) == r.code = "Assigned" \/ (r.code = "AlreadyAssigned" /\ r.address = address)
assign_status(h, r) ==
    LET n == node[h]
    IN CASE n.cache.id = r.id -> IF Succeeded(n.cache, r.address) THEN "Ok" ELSE "InternalError"
         [] n.cache.id # r.id /\ n.active.id = r.id /\ n.active.address # r.address -> "Conflict"
         [] OTHER -> "Busy"

(* a broadcast reaches every node; an answer may still be lost, but has left *)
HearAssign ==
    /\ request.kind = "assign"
    /\ request' = None
    /\ \/ request.hw \notin Unassigned /\ UNCHANGED <<node, answer>>
       \/ LET h == request.hw   status == assign_status(h, request)
          IN /\ h \in Unassigned
             /\ node' = [node EXCEPT ![h] =
                    IF status = "Ok" THEN [@ EXCEPT !.armed = TRUE]
                    ELSE IF status = "Busy" /\ @.active = NoResult
                    THEN [@ EXCEPT !.active = [id |-> request.id, address |-> request.address, code |-> "active"]]
                    ELSE @]
             /\ answer' \in {Silent, [status |-> status, hw |-> h, address |-> request.address]}
    /\ UNCHANGED <<op, scanned, worker, report, ops, losses, slot>>

AnswersAlone(S, address) ==
    answer' \in {Silent} \cup (IF Cardinality(S) = 1
                              THEN {[status |-> "Ok", hw |-> CHOOSE h \in S : TRUE, address |-> address]} ELSE {})

HearProbe ==
    /\ request.kind = "probe"
    /\ request' = None
    /\ AnswersAlone({h \in Unassigned : slot[<<h, request.nonce>>] = request.slot}, 254)
    /\ UNCHANGED <<node, op, scanned, worker, report, ops, losses, slot>>

HearHandshake ==
    /\ request.kind = "handshake"
    /\ request' = None
    /\ AnswersAlone({h \in Hardware : node[h].address = request.address}, request.address)
    /\ UNCHANGED <<node, op, scanned, worker, report, ops, losses, slot>>

(* app_sync_boot_settings.  Of the two copies of the boot metadata the newest valid
   one counts (boot; spare is the other, and 0 stands for no copy as well).  Both
   are written, and each may fail: it keeps what it had, or loses it.  So a save
   that failed may count, have changed nothing, or bring an older address back. *)
Metadata(n, boot, spare) == [n EXCEPT !.boot = boot, !.spare = spare]
SyncOk(n, a) == IF n.boot = a THEN n ELSE Metadata(n, a, a)
SyncFails(n, a) ==
    IF n.boot = a THEN {}
    ELSE {Metadata(n, a, c) : c \in {n.boot, n.spare, 0}} \cup {Metadata(n, n.boot, c) : c \in {n.spare, 0}}
         \cup {Metadata(n, c, 0) : c \in {n.spare, 0}}

(* CommissioningRuntime::handle: every way its writes may end.  A failed save of the
   configuration leaves the stored copy as it was, and only the memory is taken back. *)
Saved(n, address) == [n EXCEPT !.stored = address]
Done(n, code, address) ==
    [n EXCEPT !.current = address, !.active = NoResult, !.unsure = @ \/ code = "RollbackFailed",
              !.cache = [n.active EXCEPT !.code = code, !.address = address]]
runtime_handle(n) ==
    LET a == n.active.address
        unsynced == SyncFails(Saved(n, a), a)
        restored == {Saved(m, 0) : m \in unsynced}
    IN IF n.current # 0 THEN {Done(n, "AlreadyAssigned", n.current)}
       ELSE {Done(n, "StorageFailed", 0), Done(SyncOk(Saved(n, a), a), "Assigned", a)}
            \cup {Done(SyncOk(m, 0), "BootMetadataFailed", 0) : m \in restored}
            \cup {Done(m, "RollbackFailed", 0) : m \in unsynced \cup UNION {SyncFails(r, 0) : r \in restored}}

NodeExecutes(h) ==
    /\ node[h].active # NoResult /\ ~node[h].syncs
    /\ \E n \in runtime_handle(node[h]) : node' = [node EXCEPT ![h] = n]
    /\ UNCHANGED <<op, scanned, request, answer, worker, report, ops, losses, slot>>

(* A boot takes the stored address.  The node answers under it before its other core
   repeats it to the boot loader. *)
Booted(n) ==
    [n EXCEPT !.address = n.stored, !.current = n.stored, !.syncs = TRUE, !.unsure = FALSE,
              !.active = NoResult, !.cache = NoResult, !.armed = FALSE]
(* The sync of a boot, whose result is ignored. *)
Synced(n) == [n EXCEPT !.syncs = FALSE]
BootSyncs(n) == {Synced(m) : m \in {SyncOk(n, n.stored)} \cup SyncFails(n, n.stored)}

NodeSyncs(h) ==
    /\ node[h].syncs
    /\ \E n \in BootSyncs(node[h]) : node' = [node EXCEPT ![h] = n]
    /\ UNCHANGED <<op, scanned, request, answer, worker, report, ops, losses, slot>>

NodeRestarts(h) ==
    /\ node[h].armed
    /\ node' = [node EXCEPT ![h] = Booted(node[h])]
    /\ UNCHANGED <<op, scanned, request, answer, worker, report, ops, losses, slot>>

(* The power may go between any two writes: flash is as one of the ends leaves it. *)
PowerLoss(h) ==
    /\ losses < MaxPowerLoss /\ losses' = losses + 1
    /\ \E n \in {node[h]} \cup (IF node[h].syncs THEN BootSyncs(node[h])
                                ELSE IF node[h].active # NoResult THEN runtime_handle(node[h]) ELSE {}) :
          node' = [node EXCEPT ![h] = Booted(n)]
    /\ UNCHANGED <<op, scanned, request, answer, worker, report, ops, slot>>

CommNext ==
    \/ \E nonce \in Nonces : StartScan(nonce) \/ \E h \in Hardware, a \in Addresses : StartAssign(nonce, h, a)
    \/ begin_attempt \/ ScanComplete \/ mark_timeout \/ mark_transmit_failed \/ accept_response \/ Deadline
    \/ HearAssign \/ HearProbe \/ HearHandshake
    \/ \E h \in Hardware : NodeExecutes(h) \/ NodeSyncs(h) \/ NodeRestarts(h) \/ PowerLoss(h)

CommSpec == CommInit /\ [][CommNext]_commVars
------------------------
(* An assignment is reported done only for a node that runs under that address and has it
   stored where the next boot and the boot loader find it: whatever answer was lost or
   repeated, and wherever the power went. *)
AssignedIsReal ==
    [][report' # report /\ report'.code \in Hardware =>
         /\ node[report'.code].address = report'.address /\ node[report'.code].stored = report'.address
         /\ node[report'.code].boot = report'.address]_commVars

(* A node that has taken an address keeps it: no late or repeated assignment, under any
   operation, no boot and no loss of power moves it, in its configuration or, where the boot
   loader has it, there; and it never takes one of the addresses the channel already uses. *)
AddressKept ==
    [][\A h \in Hardware :
         /\ node[h].address # 0 => node'[h].address = node[h].address
         /\ node[h].current # 0 => /\ node'[h].stored = node[h].stored
                                   /\ node[h].boot = node[h].current => node'[h].boot = node[h].boot
         /\ node'[h].address \notin Configured]_commVars

(* A node comes to run under an address only because an assignment to it of that address
   was done, or the power went in the middle of one, or a rollback failed: every other
   failure that a node has answered leaves it, whenever it boots, without an address. *)
FailureIsFinal ==
    [][\A h \in Hardware : node[h].address = 0 /\ node'[h].address # 0 =>
         \/ node[h].current = node'[h].address
         \/ node[h].active.code = "active" /\ node[h].active.address = node'[h].address
         \/ node[h].unsure]_commVars

(* Addresses are given truthfully and for good. *)
AddressesSound == AssignedIsReal /\ AddressKept /\ FailureIsFinal
=============================================================================
