\* Two runs by hand in any mode, two faults, and the checked runs they call for.
SPECIFICATION Spec
CONSTANTS
    N = 3
    Unit <- AnnualThenQuarters
    Period <- SecondOriginal
    Filed <- LastLate
    LastDate = 2
    Modes <- TwoModes
    Retries = 1
    Faults = 2
    ByHand = 2
    MaxRuns = 6
    None = None
INVARIANTS
    TypeOK
    PeriodIsOneFiling
    ReadsEarlierFilings
    ScoredIsWhole
PROPERTIES
    PendingLeavesForAReason
    PendingSettles
CHECK_DEADLOCK FALSE
