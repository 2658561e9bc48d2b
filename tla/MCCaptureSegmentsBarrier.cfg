SPECIFICATION SegmentSpec
CONSTANTS
    MaxCursor = 3
    MaxBatch = 2
    FaultBudgets <- MCCrashThenPowerLoss
CHECK_DEADLOCK FALSE
INVARIANT ReceiptAfterBarrier
