SPECIFICATION FairSpec
CONSTANTS
    Ttl = 3
    Modes <- MCModes
CHECK_DEADLOCK FALSE
INVARIANTS
    HandOffWithoutGap
    NothingStranded
PROPERTIES
    RunningSyncSpared
    StopHonoured
    LeaseFreed
