CONSTANTS
    i1 = i1
    i2 = i2
    i3 = i3
    x1 = x1
    x2 = x2
    x3 = x3
    Instances = {i1, i2, i3}
    Schedules = {x1, x2, x3}
    Registers <- Rollback
    RenewEvery = 1
    StaleAfter = 3
    MaxFaults = 2
SPECIFICATION FairSpec
INVARIANTS TypeOK LiveEntriesFresh
PROPERTIES LastFiredKept StaleLeave
