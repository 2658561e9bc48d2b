SPECIFICATION Spec
CONSTANTS
    Channels = {c1, c2}
    MaxEpoch = 2
    Capacity = 1
    MaxFailures = 1
    MaxTime = 2
    MaxTelemetry = 1
    Restarting = {c1}
INVARIANTS
    TimeWalExact
    ReportsTruthful
PROPERTIES
    ProcessEnds
CHECK_DEADLOCK FALSE
