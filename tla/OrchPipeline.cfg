SPECIFICATION Spec
CONSTANTS
    N = 9
    DependsOn <- PipelineDeps
    Checked = {1, 2, 3, 5}
    AlwaysRun = {4}
    NewsStep = 3
    a1 = a1
    a2 = a2
    r1 = r1
    r2 = r2
    c1 = c1
    c2 = c2
    ApiRuns = {}
    CliRuns = {c1}
    Servers = {}
    Home <- NoHome
    Plans <- PipelineOnly
    FaultyRuns = {}
    SigtermRuns = {}
    NoRun = NoRun
INVARIANTS
    SoundUpstream
    PendingPropagates
CHECK_DEADLOCK FALSE
