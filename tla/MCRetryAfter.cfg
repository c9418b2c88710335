SPECIFICATION ClientSpec
CONSTANTS
    poll = poll
    command = command
    Tasks <- MCTasks
    Interactive <- MCInteractive
    RetryAfters <- MCRetryAfters
    MonitoringLimit = 1
    HardLimit = 2
    Window = 2
    MaximumBackoff = 2
    MaxFloatExponent = 1023
    MaxRetries = 1
    MaxErrors = 2
    MaxRestarts = 0
    MaxTime = 4
PROPERTY RetryAfterHonored
