SPECIFICATION FairSpec
CONSTANTS
    u1 = u1
    u2 = u2
    Users = {u1, u2}
    MaxGroups = 1
    MaxSearchPages = 1
    RequestTime = 1
    DefaultInterval = 2
    Pause = 1
    PruneInterval = 3
    Waits = {6}
    Patience = 3
    MaxKills = 0
INVARIANTS NoGroupStopsAnother
