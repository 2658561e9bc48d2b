--------------------------- MODULE NodeWireFormats ---------------------------
(* The payloads of protocol v3 as the node reads requests and writes answers
   (node/protocol_v3), translated from its own code. *)
EXTENDS WireCodec

GapReasonCode == Codes(0, <<"UnknownDiscontinuity", "SourceLoss", "IngressOverflow">>)
ContinuityBreakReasonCode == Codes(0, <<"Unknown", "SensorOverflow", "SensorReadUncertain",
    "InvalidTiming", "ProcessingReset">>)
OutputRate == Codes(0, <<"4000", "2000", "1000", "500", "250", "125", "62.5", "31.25",
    "15.625", "7.8125", "3.90625">>)
ConfigurationFilterProfile == Codes(0, <<"Light", "Balanced", "Aggressive">>)
ConfigValidation == Codes(0, <<"Valid", "UnsupportedOutputRate", "InvalidRange",
    "InvalidHighPassCorner", "InvalidFilterProfile", "InvalidFifoWatermark", "InvalidOffset">>)
ConfigFieldCode == Codes(0, <<"None", "OutputRate", "Range", "HighPassCorner", "FilterProfile",
    "FifoWatermark", "OffsetX", "OffsetY", "OffsetZ">>)
ConfigOperation == Codes(0, <<"Applied", "RevisionConflict", "InvalidConfiguration",
    "StorageFailed", "SensorFailed", "RollbackFailed", "WrongMode">>)
SensorRuntimeState == Codes(0, <<"Idle", "Recording", "Stopping", "Maintenance", "Faulted">>)
SensorRuntimeResultCode == Codes(0, <<"Ok", "InvalidOperation", "InvalidState",
    "InvalidArgument", "InProgress", "TransitionFailed", "Faulted">>)
Observability == Codes(0, <<"Production", "Diagnostic">>)
SensorStatus == Codes(0, <<"Ok", "NotInitialized", "Busy", "CommError", "Timeout",
    "InvalidParam", "NotSupported", "InvalidDevice", "NoData", "InvalidSample", "InternalError">>)
operation_for_message == Codes(1, <<"GetState", "Start", "Stop", "EnterMaintenance",
    "ExitMaintenance", "SetObservabilityProfile", "PrepareFirmwareUpdate", "ConfirmTrialBoot",
    "RestartNode">>)

------------------------
(* Requests. *)
read_pull_request == U(8, <<"boot", "from", "release">>) \o U(2, <<"max">>)
read_release_request == U(8, <<"boot", "release">>)
read_configuration ==
    K(1) \o E("rate", OutputRate) \o U(1, <<"range", "high_pass">>)
    \o E("filter", ConfigurationFilterProfile) \o U(1, <<"watermark">>)
    \o U(2, <<"ox", "oy", "oz">>)
read_apply_request == U(4, <<"operation", "expected">>) \o read_configuration
read_reset_request == U(4, <<"operation", "expected">>)
read_lifecycle_request(message) ==
    E("message", operation_for_message) \o U(4, <<"operation">>)
    \o (IF message = "SetObservabilityProfile" THEN E("profile", Observability) ELSE <<>>)
read_probe_request == U(8, <<"nonce">>) \o U(2, <<"slots", "slot">>)
read_assign_request == U(4, <<"operation">>) \o U(8, <<"nonce", "hardware">>) \o U(1, <<"address">>)
read_events_request == U(4, <<"start">>) \o U(1, <<"maximum">>)

ValidPull(v) == ~Zero(v.boot) /\ ~Zero(v.max) /\ Num(v.release) <= Num(v.from)
ValidConfiguration(v) ==
    /\ Num(v.range) \in {2, 4, 8} /\ Num(v.high_pass) <= 7
    /\ Num(v.watermark) \in 3 .. 96 /\ Num(v.watermark) % 3 = 0
ValidProbe(v) ==
    /\ ~Zero(v.nonce) /\ Num(v.slots) \in {2 ^ k : k \in 0 .. 8} /\ Num(v.slot) < Num(v.slots)
ValidAssignment(v) == ~Zero(v.operation) /\ ~Zero(v.nonce) /\ Num(v.address) \in 1 .. 253

------------------------
(* Answers. *)
state_fields ==
    U(8, <<"boot", "retained", "produced", "released">>) \o U(4, <<"capacity">>)
    \o U(8, <<"overwritten">>)
write_stream_state == K(0) \o state_fields
write_state_result(code) == K(0) \o K(code) \o state_fields
write_stream_changed == K(0) \o K(3) \o U(8, <<"boot">>)
write_chunk(count) ==
    K(0) \o K(0) \o U(8, <<"boot", "retained", "produced", "first">>) \o U(2, <<"count">>)
    \o U(4, <<"revision", "segment">>) \o U(8, <<"first_us", "last_us">>) \o U(4, <<"residual">>)
    \o U(2, <<"flags">>) \o FlattenSeq([n \in 1 .. count |-> Axes(Numbered(<<"x", "y", "z">>, n))])
write_gap ==
    K(0) \o K(5) \o U(8, <<"boot", "retained", "produced", "missing", "count">>)
    \o E("gap_reason", GapReasonCode)
write_break ==
    K(0) \o K(6) \o U(8, <<"boot", "retained", "produced", "at">>)
    \o E("break_reason", ContinuityBreakReasonCode)
write_observed ==
    U(4, <<"revision">>) \o read_configuration \o E("odr", OutputRate) \o U(1, <<"factor">>)
write_get_config == K(0) \o write_observed
write_validate_config == K(0) \o E("validation", ConfigValidation) \o E("field", ConfigFieldCode)
write_config_operation ==
    K(0) \o U(4, <<"operation">>) \o E("code", ConfigOperation) \o write_observed
    \o U(8, <<"effective">>)
write_identity ==
    K(0) \o U(8, <<"hardware", "boot">>)
    \o U(1, <<"address", "board", "major", "minor", "patch", "framing", "application">>)
write_capabilities ==
    K(0) \o U(1, <<"schema">>) \o U(4, <<"services">>) \o U(8, <<"features">>)
    \o U(2, <<"payload">>) \o U(4, <<"journal">>) \o U(2, <<"rates", "samples">>)
write_lifecycle ==
    K(0) \o U(4, <<"operation">>) \o E("runtime_code", SensorRuntimeResultCode)
    \o E("state", SensorRuntimeState) \o E("profile", Observability) \o E("sensor", SensorStatus)
write_probe ==
    K(0) \o U(8, <<"nonce", "hardware">>)
    \o U(1, <<"board", "major", "minor", "patch", "framing", "application">>)
write_assign == K(0) \o U(4, <<"operation">>) \o U(8, <<"hardware">>) \o U(1, <<"address">>)
write_time == K(0) \o U(8, <<"boot", "receive", "send">>)
write_telemetry == K(0) \o K(1) \o U(8, <<"captured">>) \o U(2, <<"fields", "temperature">>)
write_info ==
    K(0) \o U(1, <<"reset">>) \o E("usb", Codes(0, <<"off", "on">>)) \o U(2, <<"stored", "capacity">>)
    \o U(4, <<"dropped", "first", "next", "last">>) \o U(2, <<"last_code">>)
FaultCounters == <<"progress", "no_data", "errors", "dropped", "overflow", "overwrite", "int1",
                   "drdy", "config", "irq", "arg0", "arg1">>
write_fault ==
    K(0) \o K(1) \o U(4, <<"event", "time">>) \o U(2, <<"code">>) \o U(1, <<"severity", "reset">>)
    \o U(8, <<"sample">>) \o U(4, FaultCounters)
write_persistent ==
    K(0) \o K(1) \o U(4, <<"generation", "boots", "firmware", "event", "time">>)
    \o U(2, <<"code">>) \o U(1, <<"severity", "repeat", "reset">>) \o K(0)
    \o U(8, <<"sample">>) \o U(4, FaultCounters)
write_events(count) ==
    K(0) \o K(count) \o K(0) \o K(0) \o U(4, <<"first", "next">>)
    \o FlattenSeq([n \in 1 .. count |->
           U(4, Numbered(<<"event", "time">>, n)) \o U(2, Numbered(<<"code">>, n))
           \o U(1, Numbered(<<"severity", "repeat">>, n)) \o U(8, Numbered(<<"sample">>, n))
           \o U(4, Numbered(<<"arg0", "arg1">>, n))])

Held(v, first, count) ==
    /\ ~Zero(v.boot) /\ Num(v.retained) <= Num(v.produced)
    /\ Num(first) >= Num(v.retained) /\ Num(first) < Big /\ Num(first) + count <= Num(v.produced)
ValidState(v) ==
    /\ ~Zero(v.boot) /\ ~Zero(v.capacity)
    /\ Num(v.retained) <= Num(v.produced) /\ Num(v.released) <= Num(v.produced)
validate_chunk_fields(v) ==
    /\ Num(v.count) \in 1 .. 49 /\ Held(v, v.first, Num(v.count))
    /\ ~Zero(v.revision) /\ ~Zero(v.segment) /\ Num(v.flags) < 32
    /\ Num(v.last_us) >= Num(v.first_us)
    /\ Num(v.flags) % 2 = 1 => (Num(v.count) = 1 <=> v.first_us = v.last_us)
ValidGap(v) == ~Zero(v.count) /\ Held(v, v.missing, Num(v.count))
ValidBreak(v) == Held(v, v.at, 1)
CodeOf(table, name) == CHOOSE c \in DOMAIN table : table[c] = name
rates_match(v) ==
    /\ Num(v.factor) = 2 /\ CodeOf(OutputRate, v.rate) >= 1
    /\ CodeOf(OutputRate, v.odr) = CodeOf(OutputRate, v.rate) - 1
ValidObserved(v) == ValidConfiguration(v) /\ ~Zero(v.revision) /\ rates_match(v)
ValidIdentity(v) == ~Zero(v.boot) /\ Num(v.address) \notin {0, 254, 255} /\ ~Zero(v.board)
Flag(b, i) == (Num(b) \div 2 ^ i) % 2 = 1
ValidCapabilities(v) ==
    /\ Num(v.schema) = 2 /\ Num(v.payload) \in 1 .. 512
    /\ Num(v.services) < 512 /\ Flag(v.services, 0)
    /\ Num(v.features) < 32 /\ (Flag(v.features, 3) <=> Flag(v.features, 4))
    /\ Num(v.rates) < 2048
    /\ Flag(v.services, 1) =>
         /\ Flag(v.features, 0) /\ ~Zero(v.journal) /\ ~Zero(v.rates) /\ ~Zero(v.samples)
         /\ Num(v.samples) <= 49 /\ Num(v.samples) <= Num(v.journal)
         /\ 66 + 9 * Num(v.samples) <= Num(v.payload)
ValidTime(v) == ~Zero(v.boot) /\ Num(v.send) >= Num(v.receive)
(* The sensor's own range of temperatures: the handler checks only the fields. *)
ValidSnapshot(v) ==
    ~Zero(v.captured) /\ Num(v.fields) = 1 /\ Num(v.temperature) \in 750 .. 2700
=============================================================================
