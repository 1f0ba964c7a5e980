SPECIFICATION Spec
CONSTANTS
    shock = shock
    distress = distress
    Keys = {shock, distress}
    Hold <- Held2
    Opinions <- Heard
    LastDate = 3
INVARIANTS
    TypeOK
    StintsAreDisjoint
    HeldToExpiry
    VetoesAreMeant
PROPERTIES
    PastReadsStand
    ForceClearsTheWay
