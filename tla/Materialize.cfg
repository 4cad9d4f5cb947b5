CONSTANTS
    a = a
    b = b
    Runs <- MCRuns
    PUBLISH_ATTEMPTS = 3
    Modes <- MCModes
SPECIFICATION FairSpec
CHECK_DEADLOCK FALSE
INVARIANTS
    SnapshotIsWhole
PROPERTIES
    WaiterReturns
    RerunPublishes
