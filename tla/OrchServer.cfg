SPECIFICATION StopSpec
CONSTANTS
    N = 2
    DependsOn <- TwoStepDeps
    Checked = {1}
    AlwaysRun = {}
    NewsStep = 0
    a1 = a1
    a2 = a2
    r1 = r1
    r2 = r2
    c1 = c1
    c2 = c2
    ApiRuns = {r1, r2}
    CliRuns = {}
    Servers = {a1}
    Home <- OneServerHome
    Plans <- PipelineOnly
    FaultyRuns = {r2}
    SigtermRuns = {}
    NoRun = NoRun
INVARIANTS
    StopLeavesNoChild
PROPERTIES
    ImplementsRunLedger
    StopEndsRun
    LockIsFreed
CHECK_DEADLOCK FALSE
