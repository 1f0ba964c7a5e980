\* Two splits in four sessions, two runs by hand and a fault beside the checked runs.
SPECIFICATION Spec
CONSTANTS
    LastDay = 4
    Splits = {2, 3}
    Modes <- TwoModes
    Faults = 1
    ByHand = 2
INVARIANTS
    TypeOK
    OneBasis
PROPERTIES
    RefetchedOnce
    SeriesSettles
CHECK_DEADLOCK FALSE
