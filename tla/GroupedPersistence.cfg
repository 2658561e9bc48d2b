SPECIFICATION FairPersistenceSpec
CONSTANTS
    Streams = {a, b}
    a = a
    b = b
    Capacity = 3
    MaxGroup = 2
    Window = 3
    MaxRecord = 3
    MaxFailures = 2
    MaxManaged = 1
CHECK_DEADLOCK FALSE
INVARIANTS
    RecordsSafe
PROPERTIES
    EverySubmissionSettles
