SPECIFICATION MCSpec
CONSTANTS
    MaxSamples = 2
    MaxEvents = 1
    Damage = {0, 1, 2, 255}
    MaxCode = 3
    MaxRaw = 5
    MaxNoise = 9
    NoiseBytes = {0, 3}
    PayloadBytes = {0, 3}
    ReadBytes = 6
    MaxOwed = 2
    Ids = {i, j}
    Kinds = {"EnterMaintenance", "ApplyConfiguration"}
    MailboxCapacity = 2
    LedgerCapacity = 2
    AuditMayFail = TRUE
    MaxRequests = 0
    Clients = {p, q}
    SubmitTries = 2
    SocketCapacity = 1
    MaxGets = 1
    MaxRestarts = 1
    Hardware = {"h1", "h2"}
    Nonces = {1}
    SlotCount = 2
    Addresses = {5, 6, 7}
    Configured = {6}
    MaxOps = 3
    MaxPowerLoss = 1
SYMMETRY ServiceSymmetry
INVARIANTS
    PayloadsAgree
    CleanFramesArrive
    ExitIsTruth
    AuditSound
PROPERTIES
    AddressesSound
CHECK_DEADLOCK FALSE
