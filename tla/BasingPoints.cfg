SPECIFICATION Spec
CONSTANTS
    Bars <- Shapes
    LastSession = 6
    Decisions = {3, 5}
    Distances = {5, 20}
    Rules = {"bp3", "bp4"}
    TRACKING_SESSIONS = 3
    FALLBACK_SESSIONS = 2
    AWAY_DAYS = 2
INVARIANTS
    TypeOK
    MachineAsDefined
    EntersUnderTheMarket
CHECK_DEADLOCK FALSE
