SPECIFICATION MCSpec
CONSTANTS
    NodeCount = 2
    Faulty = {1}
    JournalSamples = 3
    Chunk = 3
    Target = 1
    Slot = 1
    ServiceInterval = 3
    RetryBase = 2
    RetryMax = 2
    RetryLimit = 1
    ProbeInterval = 3
    SyncNodes = {2}
    SyncInterval = 4
    SyncRetry = 1
    FirstSync = 3
    SyncStep = 2
    TelemetryNodes = {2}
    TelemetryIntervals = {3, 5, 7}
    TelemetryRetry = 1
    OverflowGuard = 1
    Periods = {4, 6}
    Parts = 100
    MaxUtilization = 100
    RecoveryReserve = 5
    RecoveryTime = 1
    WriteTime = 0
    MaxLate = 8
    MaxWait = 7
    MaxEvents = 1
    FirstPeriod = 4
    FirstInterval = 5
    StartupNodes <- MCNodes
    JournalCapacity = 1
    MaxSamples = 2
    MaxBoots <- MCBoots
    MaxStarts = 2
    Base <- MCBase
    Overlays <- MCOverlays
    Worlds <- MCWorlds
    MaxReboots = 1
INVARIANTS
    InventoryExact
    RefusedStartsLoseNothing
    ScheduleSound
    HealthyServed
PROPERTIES
    StartedIsComplete
CHECK_DEADLOCK FALSE
