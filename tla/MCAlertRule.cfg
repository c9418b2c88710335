SPECIFICATION Spec
CONSTANTS
    None = None
    Threshold = 100
    Hysteresis = 2
    Cooldown = 2
    Prices <- MCPrices
    MaxTime = 6
INVARIANT TypeOK
PROPERTY RepeatIsEarned
PROPERTY PlainCrossingAlerts
PROPERTY GateSpec
