CONSTANTS
    NoLeader = NoLeader
    Unset = Unset
    Instances = {i1, i2}
    LeaderTTL = 2
    MaxRenew = 1
    Stalls = FALSE
    Errors = FALSE
    FireErrors = {"enqueue", "store"}
    MaxFaults = 1
    Triggers = {2, 4}
    Horizon = 8
    MaxScan = 9
    FireOnce = TRUE
    DedupFactor = 3
SPECIFICATION PSpec
SYMMETRY InstanceSymmetry
CHECK_DEADLOCK FALSE
INVARIANTS AtMostOnce HandoverInTime
PROPERTY NoTriggerLost
