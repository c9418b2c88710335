SPECIFICATION FairSpec
CONSTANTS
    None = None
    alice = alice
    diamond = diamond
    t1 = t1
    t2 = t2
    Users = {alice}
    Tokens = {t1, t2}
    Items = {diamond}
    Threshold = 100
    Hysteresis = 2
    Cooldown = 1
    Prices = {}
    CmdKinds = {"resume", "delete"}
    MaxAuths = 2
    MaxRules = 2
    MaxTime = 0
    MaxFaults = 1
CHECK_DEADLOCK FALSE
INVARIANTS InvalidIffNotified InvalidMeansPausedUncrossed InvalidMeansRejectedUncrossed FailedAddLeavesNothing
PROPERTY DeadTokenFound
