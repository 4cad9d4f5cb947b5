CONSTANTS
    r1 = r1
    r2 = r2
    Runs = {r1, r2}
    Modes <- MCModes
SPECIFICATION ReaperFairSpec
PROPERTIES
    LiveRunSpared
    HoldRespected
    LeaseReapedLast
    OrphansReaped
