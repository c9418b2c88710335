SPECIFICATION FairSpec
CONSTANTS
    u1 = u1
    u2 = u2
    Users = {u1, u2}
    MaxGroups = 1
    MaxSearchPages = 2
    RequestTime = 1
    DefaultInterval = 1
    Pause = 1
    PruneInterval = 2
    Waits = {2}
    Patience = 0
    MaxKills = 1
INVARIANTS TypeOK PollsLiveInTheirCycle BudgetKept
PROPERTIES EveryUserPolled StopReturns
