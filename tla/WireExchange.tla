---------------------------- MODULE WireExchange ----------------------------
(* One payload on its way: written by the host, by the node or by the
   simulated node (which uses the host's own encoders), perhaps damaged in one
   byte, cut or extended, and read by the other side. *)
EXTENDS WireFormats

CONSTANTS
    MaxSamples,   \* bound of the model: samples of a chunk
    MaxEvents,    \* bound of the model: events of a page
    Damage        \* bytes a damaged byte turns into

ASSUME WireAssumption == MaxSamples \in 1 .. 49 /\ MaxEvents \in 0 .. 16 /\ Damage \subseteq Byte

Node == INSTANCE NodeWireFormats

VARIABLES
    msg,     \* what is written: its kind, the number of its elements, the peer of the host
    value,   \* the values of its fields
    line,    \* the bytes on the wire
    stage,   \* "free", "written", "damaged", "read"
    read     \* what the receiver made of them

wireVars == <<msg, value, line, stage, read>>

Refused == [kind |-> "refused", value |-> <<>>]

Requests == {"pull", "release", "validate", "apply", "reset", "lifecycle", "profile", "probe",
             "assign", "read_events"}
PullAnswers == {PullResultCode[c] : c \in DOMAIN PullResultCode}
Answers == PullAnswers \cup
    {"stream_state", "get_config", "validation", "operation", "identity", "capabilities",
     "runtime", "probed", "assigned", "time", "telemetry", "info", "fault", "no_fault",
     "persistent", "no_record", "events"}
OnlyNode == {"read_events", "telemetry", "info", "fault", "no_fault", "persistent", "no_record", "events"}
Counts(kind) ==
    CASE kind = "chunk" -> 1 .. MaxSamples [] kind = "events" -> 0 .. MaxEvents [] OTHER -> {0}
ResultCode(kind) == CHOOSE c \in DOMAIN PullResultCode : PullResultCode[c] = kind

(* The message identifier travels in the header; the operation it stands for. *)
Operation(table, b) == IF b # <<>> /\ b[1] \in DOMAIN table THEN table[b[1]] ELSE "none"

------------------------
(* The layouts of the four roles. *)
HostWrites(kind) ==
    CASE kind = "pull" -> encode_pull_request
      [] kind = "release" -> encode_release_request
      [] kind = "validate" -> encode_configuration
      [] kind = "apply" -> encode_apply_config_request
      [] kind = "reset" -> encode_reset_config_request
      [] kind = "lifecycle" -> encode_lifecycle_request
      [] kind = "profile" -> encode_profile_request
      [] kind = "probe" -> encode_probe_slot_request
      [] kind = "assign" -> encode_assign_address_request
      [] kind = "read_events" -> encode_read_events_request

NodeReads(kind, b) ==
    CASE kind = "pull" -> Node!read_pull_request
      [] kind = "release" -> Node!read_release_request
      [] kind = "validate" -> Node!read_configuration
      [] kind = "apply" -> Node!read_apply_request
      [] kind = "reset" -> Node!read_reset_request
      [] kind \in {"lifecycle", "profile"} -> Node!read_lifecycle_request(Operation(Node!operation_for_message, b))
      [] kind = "probe" -> Node!read_probe_request
      [] kind = "assign" -> Node!read_assign_request
      [] kind = "read_events" -> Node!read_events_request

SimulationReads(kind, b) ==
    CASE kind = "pull" -> decode_pull_request
      [] kind = "release" -> decode_release_request
      [] kind = "validate" -> decode_configuration
      [] kind = "apply" -> decode_apply_config_request
      [] kind = "reset" -> decode_reset_config_request
      [] kind \in {"lifecycle", "profile"} -> decode_lifecycle_request(Operation(RuntimeOperation, b))
      [] kind = "probe" -> decode_probe_slot_request
      [] kind = "assign" -> decode_assign_address_request

NodeWrites(kind, n) ==
    CASE kind = "chunk" -> Node!write_chunk(n)
      [] kind \in {"no_data", "range_unavailable", "invalid_release"} ->
             Node!write_state_result(ResultCode(kind))
      [] kind = "stream_changed" -> Node!write_stream_changed
      [] kind = "gap" -> Node!write_gap
      [] kind = "continuity_break" -> Node!write_break
      [] kind = "stream_state" -> Node!write_stream_state
      [] kind = "get_config" -> Node!write_get_config
      [] kind = "validation" -> Node!write_validate_config
      [] kind = "operation" -> Node!write_config_operation
      [] kind = "identity" -> Node!write_identity
      [] kind = "capabilities" -> Node!write_capabilities
      [] kind = "runtime" -> Node!write_lifecycle
      [] kind = "probed" -> Node!write_probe
      [] kind = "assigned" -> Node!write_assign
      [] kind = "time" -> Node!write_time
      [] kind = "telemetry" -> Node!write_telemetry
      [] kind = "info" -> Node!write_info
      [] kind = "fault" -> Node!write_fault
      [] kind = "persistent" -> Node!write_persistent
      [] kind \in {"no_fault", "no_record"} -> K(0) \o K(0)
      [] kind = "events" -> Node!write_events(n)

SimulationWrites(kind, n) ==
    CASE kind = "chunk" -> encode_chunk(n)
      [] kind \in {"no_data", "range_unavailable", "invalid_release"} ->
             encode_state_result(ResultCode(kind))
      [] kind = "stream_changed" -> encode_stream_changed
      [] kind = "gap" -> encode_gap
      [] kind = "continuity_break" -> encode_continuity_break
      [] kind = "stream_state" -> encode_stream_state_success
      [] kind = "get_config" -> encode_get_config_response
      [] kind = "validation" -> encode_validate_config_response
      [] kind = "operation" -> encode_config_operation_response
      [] kind = "identity" -> encode_identity
      [] kind = "capabilities" -> encode_capabilities
      [] kind = "runtime" -> encode_lifecycle_response
      [] kind = "probed" -> encode_probe_slot_response
      [] kind = "assigned" -> encode_assign_address_response
      [] kind = "time" -> encode_time_success

HostReads(kind, n) ==
    CASE kind = "chunk" -> decode_chunk(n)
      [] kind \in {"no_data", "range_unavailable", "invalid_release"} ->
             decode_state_result(ResultCode(kind))
      [] kind = "stream_changed" -> decode_stream_changed
      [] kind = "gap" -> decode_gap
      [] kind = "continuity_break" -> decode_continuity_break
      [] kind = "stream_state" -> decode_stream_state_success
      [] kind = "get_config" -> decode_get_config_response
      [] kind = "validation" -> decode_validate_config_response
      [] kind = "operation" -> decode_config_operation_response
      [] kind = "identity" -> decode_identity
      [] kind = "capabilities" -> decode_capabilities
      [] kind = "runtime" -> decode_lifecycle_response
      [] kind = "probed" -> decode_probe_slot_response
      [] kind = "assigned" -> decode_assign_address_response
      [] kind = "time" -> decode_time_response
      [] kind = "telemetry" -> decode_telemetry_snapshot
      [] kind = "info" -> decode_diagnostic_info
      [] kind = "fault" -> decode_fault_snapshot
      [] kind = "persistent" -> decode_persistent_diagnostic_record
      [] kind \in {"no_fault", "no_record"} -> decode_absent
      [] kind = "events" -> decode_diagnostic_events(n)

------------------------
(* What each side makes of the fields. *)
HostAccepts(kind, v, n) ==
    CASE kind = "pull" -> PullSamplesRequest(v)
      [] kind = "release" -> ~Zero(v.boot)
      [] kind = "validate" -> MeasurementConfiguration(v)
      [] kind = "apply" -> validate_operation_ids(v) /\ MeasurementConfiguration(v)
      [] kind = "reset" -> validate_operation_ids(v)
      [] kind \in {"lifecycle", "profile", "runtime"} -> ~Zero(v.operation)
      [] kind = "probe" -> ProbeSlotRequest(v)
      [] kind = "assign" -> validate_assignment(v) /\ ~Zero(v.nonce)
      [] kind = "read_events" -> ReadEventsRequest(v)
      [] kind = "chunk" -> SampleChunk(v, n)
      [] kind \in {"no_data", "range_unavailable", "invalid_release", "stream_state"} -> StreamState(v)
      [] kind = "stream_changed" -> ~Zero(v.boot)
      [] kind = "gap" -> GapEvidence(v)
      [] kind = "continuity_break" -> ContinuityBreakEvidence(v)
      [] kind = "get_config" -> ObservedConfiguration(v)
      [] kind = "operation" -> ~Zero(v.operation) /\ ObservedConfiguration(v)
      [] kind = "identity" -> NodeIdentity(v)
      [] kind = "capabilities" -> NodeCapabilities(v)
      [] kind = "probed" -> CommissioningIdentity(v)
      [] kind = "assigned" -> validate_assignment(v)
      [] kind = "time" -> TimeExchangeResponse(v)
      [] kind = "telemetry" -> TelemetrySnapshot(v)
      [] OTHER -> TRUE

NodeAccepts(kind, v, n) ==
    CASE kind = "pull" -> Node!ValidPull(v)
      [] kind = "release" -> ~Zero(v.boot)
      [] kind = "validate" -> Node!ValidConfiguration(v)
      [] kind = "apply" -> ~Zero(v.operation) /\ ~Zero(v.expected) /\ Node!ValidConfiguration(v)
      [] kind = "reset" -> ~Zero(v.operation) /\ ~Zero(v.expected)
      [] kind \in {"lifecycle", "profile", "runtime"} -> ~Zero(v.operation)
      [] kind = "probe" -> Node!ValidProbe(v)
      [] kind = "assign" -> Node!ValidAssignment(v)
      [] kind = "read_events" -> Num(v.maximum) \in 1 .. 16
      [] kind = "chunk" -> Num(v.count) = n /\ Node!validate_chunk_fields(v)
      [] kind \in {"no_data", "range_unavailable", "invalid_release", "stream_state"} ->
             Node!ValidState(v)
      [] kind = "stream_changed" -> ~Zero(v.boot)
      [] kind = "gap" -> Node!ValidGap(v)
      [] kind = "continuity_break" -> Node!ValidBreak(v)
      [] kind = "get_config" -> Node!ValidObserved(v)
      [] kind = "operation" -> ~Zero(v.operation) /\ Node!ValidObserved(v)
      [] kind = "identity" -> Node!ValidIdentity(v)
      [] kind = "capabilities" -> Node!ValidCapabilities(v)
      [] kind = "probed" -> ~Zero(v.nonce) /\ ~Zero(v.board)
      [] kind = "assigned" -> ~Zero(v.operation) /\ Num(v.address) \in 1 .. 253
      [] kind = "time" -> Node!ValidTime(v)
      [] kind = "telemetry" -> Node!ValidSnapshot(v)
      [] OTHER -> TRUE

Writes(k) ==
    CASE k.kind \in Requests -> HostWrites(k.kind)
      [] k.kind \in Answers /\ k.peer = "node" -> NodeWrites(k.kind, k.n)
      [] k.kind \in Answers /\ k.peer = "simulation" -> SimulationWrites(k.kind, k.n)
Writable(k, v) ==
    /\ Encodable(Writes(k), v)
    /\ IF k.kind \in Requests \/ k.peer = "simulation"
       THEN HostAccepts(k.kind, v, k.n) ELSE NodeAccepts(k.kind, v, k.n)

(* Which answer the bytes are: the kinds one request can be answered with. *)
AnswerKind(kind, b) ==
    CASE kind \in PullAnswers ->
             IF Len(b) >= 2 /\ b[2] \in DOMAIN PullResultCode THEN PullResultCode[b[2]] ELSE "refused"
      [] kind \in {"fault", "no_fault"} ->
             IF Len(b) = 2 /\ b[2] = 0 THEN "no_fault" ELSE "fault"
      [] kind \in {"persistent", "no_record"} ->
             IF Len(b) = 2 /\ b[2] = 0 THEN "no_record" ELSE "persistent"
      [] OTHER -> kind
(* The number of elements the header announces, if the length agrees with it. *)
Announced(kind, b) ==
    CASE kind = "chunk" -> IF Len(b) >= 66 THEN b[35] + 256 * b[36] ELSE 0
      [] kind = "events" -> IF Len(b) >= 12 THEN b[2] ELSE 0
      [] OTHER -> 0
LengthAgrees(kind, b) ==
    CASE kind = "chunk" -> Len(b) = 66 + 9 * Announced(kind, b)
      [] kind = "events" -> Announced(kind, b) <= 16 /\ Len(b) = 12 + 28 * Announced(kind, b)
      [] OTHER -> TRUE

HostRead(kind, b) ==
    LET as == AnswerKind(kind, b)
        n == Announced(as, b)
    IN IF /\ as # "refused" /\ LengthAgrees(as, b)
          /\ Fits(HostReads(as, n), b)
          /\ HostAccepts(as, Decode(HostReads(as, n), b), n)
       THEN [kind |-> as, value |-> Decode(HostReads(as, n), b)]
       ELSE Refused
PeerReads(k, b) == IF k.peer = "node" THEN NodeReads(k.kind, b) ELSE SimulationReads(k.kind, b)
PeerRead(k, b) ==
    LET L == PeerReads(k, b) IN
    IF /\ Fits(L, b)
       /\ IF k.peer = "node" THEN NodeAccepts(k.kind, Decode(L, b), 0)
                             ELSE HostAccepts(k.kind, Decode(L, b), 0)
    THEN [kind |-> k.kind, value |-> Decode(L, b)]
    ELSE Refused

------------------------
(* The values written: a plain one, and it with two fields at their edges. *)
Plain(f, n) ==
    CASE f.n = "rate" -> "2000" [] f.n = "odr" -> "4000"
      [] f.k = "enum" -> f.t[CHOOSE c \in DOMAIN f.t : \A d \in DOMAIN f.t : c <= d]
      [] f.k = "axis" -> <<1, 2, 3, 0>>
      [] f.n = "count" -> Le(IF n = 0 THEN 1 ELSE n, f.w)
      [] f.n = "last_us" -> Le(n, f.w)
      [] f.n \in {"produced"} -> Le(4, f.w)
      [] f.n \in {"range", "factor", "schema", "slots"} -> Le(2, f.w)
      [] f.n \in {"services"} -> Le(3, f.w)
      [] f.n = "watermark" -> Le(30, f.w)
      [] f.n = "payload" -> Le(512, f.w)
      [] f.n = "temperature" -> Le(1885, f.w)
      [] OTHER -> Le(1, f.w)
Edges(f) ==
    CASE f.k = "enum" -> TableOf(f)
      [] f.k = "axis" -> {<<0, 0, 0, 0>>, <<255, 255, 127, 0>>, <<0, 0, 128, 255>>, <<255, 255, 255, 255>>}
      [] f.n = "temperature" -> {Le(750, 2), Le(2700, 2)}
      [] OTHER -> {Le(k, f.w) : k \in {0, 1, 3, 4}} \cup {Ones(f.w)}
PlainValue(k) ==
    LET L == Writes(k) IN
    [n \in Names(L) |-> Plain(L[CHOOSE i \in DOMAIN L : L[i].n = n], k.n)]

Init ==
    /\ msg = [kind |-> "none", n |-> 0, peer |-> "node"]
    /\ value = <<>> /\ line = <<>> /\ stage = "free" /\ read = Refused

Put(k, v) ==
    /\ Writable(k, v)
    /\ msg' = k /\ value' = v /\ line' = Encode(Writes(k), v)
    /\ stage' = "written" /\ UNCHANGED read

Write ==
    /\ stage = "free"
    /\ \E kind \in Requests \cup Answers, peer \in {"node", "simulation"} :
         /\ peer = "simulation" => kind \notin OnlyNode
         /\ \E n \in Counts(kind) :
              LET k == [kind |-> kind, n |-> n, peer |-> peer]
                  L == Writes(k)
                  plain == PlainValue(k)
                  Variable == {i \in DOMAIN L : L[i].k # "const"}
              IN \/ Put(k, plain)
                 \/ \E i, j \in Variable : i < j /\
                      \E x \in Edges(L[i]), y \in Edges(L[j]) :
                          Put(k, [plain EXCEPT ![L[i].n] = x, ![L[j].n] = y])

(* The frame's checksum misses the damage. *)
DamageLine ==
    /\ stage = "written" /\ value = PlainValue(msg)
    /\ \/ \E i \in DOMAIN line, d \in Damage :
            line[i] # d /\ line' = [line EXCEPT ![i] = d]
       \/ \E l \in 0 .. Len(line) - 1 : line' = SubSeq(line, 1, l)
       \/ \E d \in Damage : line' = Append(line, d)
    /\ stage' = "damaged" /\ UNCHANGED <<msg, value, read>>

ReadPayload ==
    /\ stage \in {"written", "damaged"}
    /\ read' = IF msg.kind \in Requests THEN PeerRead(msg, line) ELSE HostRead(msg.kind, line)
    /\ stage' = IF stage = "written" THEN "read" ELSE "read damaged"
    /\ UNCHANGED <<msg, value, line>>

Next == Write \/ DamageLine \/ ReadPayload
Spec == Init /\ [][Next]_wireVars

------------------------
(* Both sides agree: every payload one side may write is accepted by the other
   and every field arrives as it was written, for every service, in both
   directions and between the host and the simulated node. *)
PeersAgree == stage = "read" => read = [kind |-> msg.kind, value |-> value]

(* A decoder accepts only the bytes that the encoder of the other side writes
   for the value it returns: no damaged, cut or extended payload is taken for
   a value it does not spell out, byte by byte. *)
Canonical ==
    (stage \in {"read", "read damaged"} /\ read # Refused) =>
        LET k == [msg EXCEPT !.kind = read.kind, !.n = Announced(read.kind, line)] IN
        Encodable(Writes(k), read.value) /\ Encode(Writes(k), read.value) = line

(* The two sides speak one language: nothing is refused, changed or guessed. *)
PayloadsAgree == PeersAgree /\ Canonical
=============================================================================
