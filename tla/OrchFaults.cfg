SPECIFICATION Spec
CONSTANTS
    N = 2
    DependsOn <- TwoStepDeps
    Checked = {1}
    AlwaysRun = {}
    NewsStep = 0
    a1 = a1
    a2 = a2
    r1 = r1
    r2 = r2
    c1 = c1
    c2 = c2
    ApiRuns = {r1}
    CliRuns = {c1}
    Servers = {a1}
    Home <- OneRunHome
    Plans <- AllPlans
    FaultyRuns = {r1}
    SigtermRuns = {c1}
    NoRun = NoRun
INVARIANTS
    TypeOK
    LockProtects
CHECK_DEADLOCK FALSE
