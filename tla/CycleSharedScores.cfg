SPECIFICATION Spec
CONSTANTS
    LastDate = 2
    Types = {"SELECTION", "MONITORING"}
    Filings = {"10-K"}
    FilingOf <- OneFiling
    ScoreOrder <- OneScore
    Settings <- ThreeSettings
    MaxRuns = 2
    NoSetting = NoSetting
INVARIANTS
    RankingIsAlwaysWhole
