SPECIFICATION Spec
CONSTANTS
    None = None
    alice = alice
    diamond = diamond
    t1 = t1
    t2 = t2
    Users = {alice}
    Tokens = {t1, t2}
    Items = {diamond}
    Threshold = 100
    Hysteresis = 2
    Cooldown = 1
    Prices = {}
    CmdKinds = {"resume"}
    MaxAuths = 2
    MaxRules = 1
    MaxTime = 0
    MaxFaults = 0
CHECK_DEADLOCK FALSE
INVARIANT InvalidMeansRejected
