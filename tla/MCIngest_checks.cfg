CONSTANTS
    Deliveries = {d1, d2}
    Submissions <- Outcomes
    Window = 1
    MaxTime = 3
    Nothing = Nothing
SPECIFICATION Spec
INVARIANTS
    IngestInv
    AckedIsStored
    RefusedLeavesNoRow
    StoredIsVerified
PROPERTIES
    LateCopyNeverStored
    LedgerImplemented
CHECK_DEADLOCK FALSE
