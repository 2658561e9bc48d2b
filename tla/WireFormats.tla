----------------------------- MODULE WireFormats -----------------------------
(* The payloads of protocol v3 as the host writes and reads them
   (sensor-protocol), and what it accepts of them. *)
EXTENDS WireCodec

Ok == K(0)

------------------------
(* Enumerations of the host. *)
ResponseStatus == Codes(0, <<"Ok", "MalformedRequest", "UnsupportedService",
    "UnsupportedMessage", "WrongMode", "Busy", "Conflict", "InvalidState", "InternalError">>)
PullResultCode == Codes(0, <<"chunk", "no_data", "range_unavailable", "stream_changed",
    "invalid_release", "gap", "continuity_break">>)
OutputRateCode == Codes(0, <<"4000", "2000", "1000", "500", "250", "125", "62.5", "31.25",
    "15.625", "7.8125", "3.90625">>)
Adxl355Odr == Codes(0, <<"4000", "2000", "1000", "500", "250", "125", "62.5", "31.25",
    "15.625", "7.8125", "3.90625">>)
DecimationFilterProfile == Codes(0, <<"Light", "Balanced", "Aggressive">>)
ConfigValidationCode == Codes(0, <<"Valid", "UnsupportedOutputRate", "InvalidRange",
    "InvalidHighPassCorner", "InvalidFilterProfile", "InvalidFifoWatermark", "InvalidOffset">>)
ConfigField == Codes(0, <<"None", "OutputRate", "Range", "HighPassCorner", "FilterProfile",
    "FifoWatermark", "OffsetX", "OffsetY", "OffsetZ">>)
ConfigOperationCode == Codes(0, <<"Applied", "RevisionConflict", "InvalidConfiguration",
    "StorageFailed", "SensorFailed", "RollbackFailed", "WrongMode">>)
RuntimeOperation == Codes(1, <<"GetState", "Start", "Stop", "EnterMaintenance",
    "ExitMaintenance", "SetObservabilityProfile", "PrepareFirmwareUpdate", "ConfirmTrialBoot",
    "RestartNode">>)
RuntimeState == Codes(0, <<"Idle", "Recording", "Stopping", "Maintenance", "Faulted">>)
ObservabilityProfile == Codes(0, <<"Production", "Diagnostic">>)
RuntimeResultCode == Codes(0, <<"Ok", "InvalidOperation", "InvalidState", "InvalidArgument",
    "InProgress", "TransitionFailed", "Faulted">>)
SensorStatusCode == Codes(0, <<"Ok", "NotInitialized", "Busy", "CommError", "Timeout",
    "InvalidParam", "NotSupported", "InvalidDevice", "NoData", "InvalidSample", "InternalError">>)
encode_gap_reason == Codes(0, <<"UnknownDiscontinuity", "SourceLoss", "IngressOverflow">>)
decode_gap_reason == Codes(0, <<"UnknownDiscontinuity", "SourceLoss", "IngressOverflow">>)
encode_break_reason == Codes(0, <<"Unknown", "SensorOverflow", "SensorReadUncertain",
    "InvalidTiming", "ProcessingReset">>)
decode_break_reason == Codes(0, <<"Unknown", "SensorOverflow", "SensorReadUncertain",
    "InvalidTiming", "ProcessingReset">>)

------------------------
(* Measurement: host. *)
encode_pull_request == U(8, <<"boot", "from", "release">>) \o U(2, <<"max">>)
decode_pull_request == U(8, <<"boot", "from", "release">>) \o U(2, <<"max">>)
encode_release_request == U(8, <<"boot", "release">>)
decode_release_request == U(8, <<"boot", "release">>)
encode_stream_state_fields ==
    U(8, <<"boot", "retained", "produced", "released">>) \o U(4, <<"capacity">>)
    \o U(8, <<"overwritten">>)
decode_stream_state_fields ==
    U(8, <<"boot", "retained", "produced", "released">>) \o U(4, <<"capacity">>)
    \o U(8, <<"overwritten">>)
encode_stream_state_success == Ok \o encode_stream_state_fields
decode_stream_state_success == Ok \o decode_stream_state_fields
encode_state_result(code) == Ok \o K(code) \o encode_stream_state_fields
decode_state_result(code) == Ok \o K(code) \o decode_stream_state_fields
encode_stream_changed == Ok \o K(3) \o U(8, <<"boot">>)
decode_stream_changed == Ok \o K(3) \o U(8, <<"boot">>)
Sample(n) == Axes(Numbered(<<"x", "y", "z">>, n))
Samples(count) == FlattenSeq([n \in 1 .. count |-> Sample(n)])
encode_chunk(count) ==
    Ok \o K(0) \o U(8, <<"boot", "retained", "produced", "first">>) \o U(2, <<"count">>)
    \o U(4, <<"revision", "segment">>) \o U(8, <<"first_us", "last_us">>) \o U(4, <<"residual">>)
    \o U(2, <<"flags">>) \o Samples(count)
decode_chunk(count) ==
    Ok \o K(0) \o U(8, <<"boot", "retained", "produced", "first">>) \o U(2, <<"count">>)
    \o U(4, <<"revision", "segment">>) \o U(8, <<"first_us", "last_us">>) \o U(4, <<"residual">>)
    \o U(2, <<"flags">>) \o Samples(count)
encode_gap ==
    Ok \o K(5) \o U(8, <<"boot", "retained", "produced", "missing", "count">>)
    \o E("gap_reason", encode_gap_reason)
decode_gap ==
    Ok \o K(5) \o U(8, <<"boot", "retained", "produced", "missing", "count">>)
    \o E("gap_reason", decode_gap_reason)
encode_continuity_break ==
    Ok \o K(6) \o U(8, <<"boot", "retained", "produced", "at">>)
    \o E("break_reason", encode_break_reason)
decode_continuity_break ==
    Ok \o K(6) \o U(8, <<"boot", "retained", "produced", "at">>)
    \o E("break_reason", decode_break_reason)

(* A range of sequences the node still holds; the end must not overflow. *)
Within(v, first, count) ==
    /\ ~Zero(v.boot) /\ Num(v.retained) <= Num(v.produced)
    /\ Num(first) >= Num(v.retained) /\ Num(first) < Big /\ Num(first) + count <= Num(v.produced)

PullSamplesRequest(v) == ~Zero(v.boot) /\ ~Zero(v.max) /\ Num(v.release) <= Num(v.from)
StreamState(v) ==
    /\ ~Zero(v.boot) /\ ~Zero(v.capacity)
    /\ Num(v.retained) <= Num(v.produced) /\ Num(v.released) <= Num(v.produced)
SampleChunkHeader(v) == ~Zero(v.count) /\ Within(v, v.first, Num(v.count))
TimingEvidence(v) ==
    /\ ~Zero(v.segment) /\ Num(v.flags) < 32
    /\ Num(v.last_us) >= Num(v.first_us)
    /\ Num(v.flags) % 2 = 1 => (Num(v.count) = 1 <=> v.last_us = v.first_us)
SampleChunk(v, count) ==
    SampleChunkHeader(v) /\ ~Zero(v.revision) /\ Num(v.count) = count /\ TimingEvidence(v)
GapEvidence(v) == ~Zero(v.count) /\ Within(v, v.missing, Num(v.count))
ContinuityBreakEvidence(v) == Within(v, v.at, 1)

------------------------
(* Configuration, identity, lifecycle, commissioning, time, telemetry,
   diagnostics: host. *)
encode_configuration ==
    K(1) \o E("rate", OutputRateCode) \o U(1, <<"range", "high_pass">>)
    \o E("filter", DecimationFilterProfile) \o U(1, <<"watermark">>) \o U(2, <<"ox", "oy", "oz">>)
decode_configuration ==
    K(1) \o E("rate", OutputRateCode) \o U(1, <<"range", "high_pass">>)
    \o E("filter", DecimationFilterProfile) \o U(1, <<"watermark">>) \o U(2, <<"ox", "oy", "oz">>)
encode_observed ==
    U(4, <<"revision">>) \o encode_configuration \o E("odr", Adxl355Odr) \o U(1, <<"factor">>)
decode_observed ==
    U(4, <<"revision">>) \o decode_configuration \o E("odr", Adxl355Odr) \o U(1, <<"factor">>)
encode_apply_config_request == U(4, <<"operation", "expected">>) \o encode_configuration
decode_apply_config_request == U(4, <<"operation", "expected">>) \o decode_configuration
encode_reset_config_request == U(4, <<"operation", "expected">>)
decode_reset_config_request == U(4, <<"operation", "expected">>)
encode_get_config_response == Ok \o encode_observed
decode_get_config_response == Ok \o decode_observed
encode_validate_config_response ==
    Ok \o E("validation", ConfigValidationCode) \o E("field", ConfigField)
decode_validate_config_response ==
    Ok \o E("validation", ConfigValidationCode) \o E("field", ConfigField)
encode_config_operation_response ==
    Ok \o U(4, <<"operation">>) \o E("code", ConfigOperationCode) \o encode_observed
    \o U(8, <<"effective">>)
decode_config_operation_response ==
    Ok \o U(4, <<"operation">>) \o E("code", ConfigOperationCode) \o decode_observed
    \o U(8, <<"effective">>)

MeasurementConfiguration(v) ==
    /\ Num(v.range) \in {2, 4, 8} /\ Num(v.high_pass) <= 7
    /\ Num(v.watermark) \in 3 .. 96 /\ Num(v.watermark) % 3 = 0
(* The rates are halves of one another: 2^10 .. 2^0 times 3.90625 Hz. *)
SampleRate(table, name) == 2 ^ (10 - (CHOOSE c \in DOMAIN table : table[c] = name))
ObservedConfiguration(v) ==
    /\ MeasurementConfiguration(v) /\ ~Zero(v.revision) /\ ~Zero(v.factor)
    /\ SampleRate(Adxl355Odr, v.odr) = Num(v.factor) * SampleRate(OutputRateCode, v.rate)
validate_operation_ids(v) == ~Zero(v.operation) /\ ~Zero(v.expected)

encode_identity ==
    Ok \o U(8, <<"hardware", "boot">>)
    \o U(1, <<"address", "board", "major", "minor", "patch", "framing", "application">>)
decode_identity ==
    Ok \o U(8, <<"hardware", "boot">>)
    \o U(1, <<"address", "board", "major", "minor", "patch", "framing", "application">>)
encode_capabilities ==
    Ok \o U(1, <<"schema">>) \o U(4, <<"services">>) \o U(8, <<"features">>)
    \o U(2, <<"payload">>) \o U(4, <<"journal">>) \o U(2, <<"rates", "samples">>)
decode_capabilities ==
    Ok \o U(1, <<"schema">>) \o U(4, <<"services">>) \o U(8, <<"features">>)
    \o U(2, <<"payload">>) \o U(4, <<"journal">>) \o U(2, <<"rates", "samples">>)

NodeIdentity(v) == ~Zero(v.boot) /\ Num(v.address) \in 1 .. 253 /\ ~Zero(v.board)
Bit(b, i) == (Num(b) \div 2 ^ i) % 2 = 1
NodeCapabilities(v) ==
    LET measures == Bit(v.services, 1) IN
    /\ Num(v.schema) = 2 /\ Num(v.payload) \in 1 .. 512
    /\ Num(v.services) < 512 /\ Bit(v.services, 0)
    /\ Num(v.features) < 32 /\ (Bit(v.features, 3) <=> Bit(v.features, 4))
    /\ Num(v.rates) < 2048
    /\ measures => /\ Bit(v.features, 0) /\ ~Zero(v.journal) /\ ~Zero(v.rates)
                   /\ Num(v.samples) \in 1 .. 49 /\ Num(v.samples) <= Num(v.journal)
                   /\ 66 + 9 * Num(v.samples) <= Num(v.payload)

HasProfile == {c \in DOMAIN RuntimeOperation : RuntimeOperation[c] = "SetObservabilityProfile"}
MessageIds(codes) == [c \in codes |-> RuntimeOperation[c]]
encode_lifecycle_request ==
    E("message", MessageIds(DOMAIN RuntimeOperation \ HasProfile)) \o U(4, <<"operation">>)
encode_profile_request ==
    E("message", MessageIds(HasProfile)) \o U(4, <<"operation">>) \o E("profile", ObservabilityProfile)
decode_lifecycle_request(message) ==
    E("message", RuntimeOperation) \o U(4, <<"operation">>)
    \o (IF message = "SetObservabilityProfile" THEN E("profile", ObservabilityProfile) ELSE <<>>)
encode_lifecycle_response ==
    Ok \o U(4, <<"operation">>) \o E("runtime_code", RuntimeResultCode)
    \o E("state", RuntimeState) \o E("profile", ObservabilityProfile)
    \o E("sensor", SensorStatusCode)
decode_lifecycle_response ==
    Ok \o U(4, <<"operation">>) \o E("runtime_code", RuntimeResultCode)
    \o E("state", RuntimeState) \o E("profile", ObservabilityProfile)
    \o E("sensor", SensorStatusCode)

encode_probe_slot_request == U(8, <<"nonce">>) \o U(2, <<"slots", "slot">>)
decode_probe_slot_request == U(8, <<"nonce">>) \o U(2, <<"slots", "slot">>)
encode_probe_slot_response ==
    Ok \o U(8, <<"nonce", "hardware">>)
    \o U(1, <<"board", "major", "minor", "patch", "framing", "application">>)
decode_probe_slot_response ==
    Ok \o U(8, <<"nonce", "hardware">>)
    \o U(1, <<"board", "major", "minor", "patch", "framing", "application">>)
encode_assign_address_request ==
    U(4, <<"operation">>) \o U(8, <<"nonce", "hardware">>) \o U(1, <<"address">>)
decode_assign_address_request ==
    U(4, <<"operation">>) \o U(8, <<"nonce", "hardware">>) \o U(1, <<"address">>)
encode_assign_address_response ==
    Ok \o U(4, <<"operation">>) \o U(8, <<"hardware">>) \o U(1, <<"address">>)
decode_assign_address_response ==
    Ok \o U(4, <<"operation">>) \o U(8, <<"hardware">>) \o U(1, <<"address">>)

ProbeSlotRequest(v) ==
    /\ ~Zero(v.nonce) /\ Num(v.slots) \in {2 ^ k : k \in 0 .. 8} /\ Num(v.slot) < Num(v.slots)
CommissioningIdentity(v) == ~Zero(v.nonce) /\ ~Zero(v.board)
validate_assignment(v) == ~Zero(v.operation) /\ Num(v.address) \in 1 .. 253

encode_time_success == Ok \o U(8, <<"boot", "receive", "send">>)
decode_time_response == Ok \o U(8, <<"boot", "receive", "send">>)
TimeExchangeResponse(v) == ~Zero(v.boot) /\ Num(v.send) >= Num(v.receive)

decode_telemetry_snapshot ==
    Ok \o K(1) \o U(8, <<"captured">>) \o U(2, <<"fields", "temperature">>)
Adxl355TemperatureCode(v) == Num(v.temperature) \in 750 .. 2700
TelemetrySnapshot(v) ==
    ~Zero(v.captured) /\ Num(v.fields) = 1 /\ Adxl355TemperatureCode(v)

encode_read_events_request == U(4, <<"start">>) \o U(1, <<"maximum">>)
decode_diagnostic_info ==
    Ok \o U(1, <<"reset">>) \o E("usb", Codes(0, <<"off", "on">>)) \o U(2, <<"stored", "capacity">>)
    \o U(4, <<"dropped", "first", "next", "last">>) \o U(2, <<"last_code">>)
Counters == <<"progress", "no_data", "errors", "dropped", "overflow", "overwrite", "int1", "drdy",
              "config", "irq", "arg0", "arg1">>
decode_fault_snapshot ==
    Ok \o K(1) \o U(4, <<"event", "time">>) \o U(2, <<"code">>) \o U(1, <<"severity", "reset">>)
    \o U(8, <<"sample">>) \o U(4, Counters)
decode_persistent_diagnostic_record ==
    Ok \o K(1) \o U(4, <<"generation", "boots", "firmware", "event", "time">>) \o U(2, <<"code">>)
    \o U(1, <<"severity", "repeat", "reset">>) \o K(0) \o U(8, <<"sample">>) \o U(4, Counters)
decode_absent == Ok \o K(0)
decode_diagnostic_events(count) ==
    Ok \o K(count) \o K(0) \o K(0) \o U(4, <<"first", "next">>)
    \o FlattenSeq([n \in 1 .. count |->
           U(4, Numbered(<<"event", "time">>, n)) \o U(2, Numbered(<<"code">>, n))
           \o U(1, Numbered(<<"severity", "repeat">>, n)) \o U(8, Numbered(<<"sample">>, n))
           \o U(4, Numbered(<<"arg0", "arg1">>, n))])
ReadEventsRequest(v) == Num(v.maximum) \in 1 .. 16
=============================================================================
