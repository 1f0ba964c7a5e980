SPECIFICATION OneTableSpec
CONSTANTS
    x = x
    y = y
    z = z
    Assets = {x, y, z}
    LastDate = 3
    MaxWeight = 6
    Kinds = {"live", "replay"}
    Settings = {"proportional", "excluding"}
    Targets <- Moving
    Overrides = {FALSE, TRUE}
    Undoable = {1, 2, 3}
INVARIANTS
    TypeOK
    StintsNeverOverlap
    AsOfBookIsSelected
    BookIsReplayOfRuns
PROPERTIES
    HistoryIsImmutable
