SPECIFICATION FairSpec
CONSTANTS
    None = None
    alice = alice
    diamond = diamond
    t1 = t1
    t2 = t2
    Users = {alice}
    Tokens = {t1}
    Items = {diamond}
    Threshold = 100
    Hysteresis = 2
    Cooldown = 1
    Prices = {90}
    CmdKinds = {"pause", "resume"}
    MaxAuths = 1
    MaxRules = 2
    MaxTime = 0
    MaxFaults = 0
CHECK_DEADLOCK FALSE
PROPERTY AlertsSettle
INVARIANT PendingIsHeld
