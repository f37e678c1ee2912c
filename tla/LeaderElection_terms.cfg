CONSTANTS
    NoLeader = NoLeader
    Instances = {i1, i2}
    LeaderTTL = 5
    MaxRenew = 3
    Stalls = FALSE
    Errors = TRUE
SPECIFICATION FairSpec
CHECK_DEADLOCK FALSE
INVARIANTS TypeOK SoleLeader
PROPERTIES TermKept Failover
