SPECIFICATION Spec
CONSTANTS
    None = None
    alice = alice
    diamond = diamond
    t1 = t1
    t2 = t2
    Users = {alice}
    Tokens = {t1}
    Items = {diamond}
    Threshold = 100
    Hysteresis = 2
    Cooldown = 1
    Prices = {90, 110}
    CmdKinds = {"resume"}
    MaxAuths = 2
    MaxRules = 1
    MaxTime = 2
    MaxFaults = 1
CHECK_DEADLOCK FALSE
INVARIANTS TypeOK CooldownHolds DeliveryTruth NothingOutlivesOwner
PROPERTY EveryGate
