SPECIFICATION AgentSpec
CONSTANTS
    n1 = n1
    Addresses = {n1}
    Workloads <- MCOneWork
    IdSpace = 3
    TransactionSeed = 0
    OperationSpace = 3
    OperationSeed = 0
    MaxPending = 2
    AttemptsPerSlot = 2
CHECK_DEADLOCK FALSE
INVARIANT ExpiredIsMarked
