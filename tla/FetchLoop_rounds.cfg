CONSTANTS
    N = 2
    Configs <- TwoConfigs
    MaxWeight = 2
    StrictPriority = FALSE
    Concurrency = 2
    MaxFetchBatch = 2
    MaxWaiting = 2
    Errors = TRUE
SPECIFICATION FairSpec
CHECK_DEADLOCK FALSE
INVARIANTS TypeOK SlotsAccounted DispatchNeverWaits PicksProportional
PROPERTIES NoStarvation PauseTakesHold
