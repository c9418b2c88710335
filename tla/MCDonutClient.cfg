SPECIFICATION ClientSpec
CONSTANTS
    poll = poll
    command = command
    Tasks <- MCTasks
    Interactive <- MCInteractive
    RetryAfters <- MCRetryAfters
    MonitoringLimit = 1
    HardLimit = 2
    Window = 2
    MaximumBackoff = 2
    MaxFloatExponent = 1
    MaxRetries = 1
    MaxErrors = 3
    MaxRestarts = 1
    MaxTime = 3
INVARIANTS
    ClientTypeOK
    ServerSeesLimit
    ReserveKept
    NobodyOversleeps
PROPERTIES
    BackoffHolds
