SPECIFICATION Spec
CONSTANTS
    Last = 15
INVARIANTS
    TypeOK
    FloorIsHonest
PROPERTIES
    GuardsGoBack
    MigrateCompletes
