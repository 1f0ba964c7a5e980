SPECIFICATION Spec
CONSTANTS
    LastDate = 2
    Types = {"MONITORING", "REPLAY"}
    Filings = {"10-K"}
    FilingOf <- OneFiling
    ScoreOrder <- OneScore
    Settings <- ThreeSettings
    MaxRuns = 2
    NoSetting = NoSetting
INVARIANTS
    TypeOK
    RankedAsRecorded
    CompletedMeansDone
PROPERTIES
    RankingIsOneGo
