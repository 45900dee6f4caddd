CONSTANTS
    Starts <- Turns
    Horizon = 140
    Zones <- AllZones
    RetentionDays = 1
    FirstMonth <- Century
    NumMonths = 120
SPECIFICATION Spec
INVARIANTS
    TypeOK
    MonthsTile
    NamesInOrder
    WritesCovered
PROPERTIES
    DroppedIsOld
    UpkeepImplemented
CHECK_DEADLOCK FALSE
