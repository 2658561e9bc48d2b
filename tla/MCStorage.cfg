SPECIFICATION MCSpec
CONSTANTS
    pa = pa
    pb = pb
    none = none
    closed = closed
    Segments = {0, 1}
    Products = {pa, pb}
    Indexes <- MCIndexes
    GracePeriods = {1, 2}
    ArchivePeriod = 1
    Closed = closed
    None = none
    MaxNow = 2
    PowerMayFail = {FALSE, TRUE}
    MaxFaults = 1
    Archives = {a0, a1}
    NoArchive = a0
    Never = never
    CaptureGrace = 1
    ArchiveRetention = 2
    MaxClock = 4
    MaxFailures = 2
    MaxCursor = 4
    MaxBatch = 2
    FaultBudgets <- MCFaultBudgets
CHECK_DEADLOCK FALSE
INVARIANTS
    CleanupResumes
    StoredIsReadable
PROPERTIES
    DeletionSafe
    CaptureKept
