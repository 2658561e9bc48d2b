SPECIFICATION MCSpec
CONSTANTS
    Ids = {1, 2}
    Kinds = {"EnterMaintenance", "ResumeRecording", "ApplyConfiguration", "ScanUnassigned",
             "AssignAddress", "RestartNode", "GetConfiguration", "SetTelemetryInterval"}
    MailboxCapacity = 1
    LedgerCapacity = 1
    AuditMayFail = TRUE
    MaxRequests = 2
    Nodes <- MCOneNode
    MaxTail = 1
    MaxReboots = 1
    Slots = 1
    Works = {"measurement", "time"}
    Losses = {"port", "storage"}
    n1 = n1
    Addresses = {n1}
    Workloads <- MCWorkloads
    IdSpace = 2
    TransactionSeed = 1
    OperationSpace = 3
    OperationSeed = 2
    MaxPending = 2
    AttemptsPerSlot = 2
INVARIANTS
    TaskConsistent
    AuditCovers
    AgentConsistent
PROPERTIES
    MaintenanceIsQuiet
    TransitionsEnd
    AnswerBelongs
    BusRecovers
CHECK_DEADLOCK FALSE
