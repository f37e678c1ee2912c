CONSTANTS
    Horizon = 8
    MaxGap = 6
    MaxScan = 2
SPECIFICATION Spec
CHECK_DEADLOCK FALSE
INVARIANTS CatchUpBounded SkippedForGood
PROPERTY TickMatchesReference
