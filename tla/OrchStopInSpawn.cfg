SPECIFICATION Spec
CONSTANTS
    N = 2
    DependsOn <- TwoStepDeps
    Checked = {1}
    AlwaysRun = {}
    NewsStep = 0
    a1 = a1
    a2 = a2
    r1 = r1
    r2 = r2
    c1 = c1
    c2 = c2
    ApiRuns = {}
    CliRuns = {c1, c2}
    Servers = {}
    Home <- NoHome
    Plans <- PipelineOnly
    FaultyRuns = {}
    SigtermRuns = {c1, c2}
    NoRun = NoRun
INVARIANTS
    OneLiveRun
CHECK_DEADLOCK FALSE
