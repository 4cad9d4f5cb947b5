SPECIFICATION FairSpec
CONSTANTS
    Profiles <- MCProfiles
INVARIANTS
    PassIsClean
    PhasesInTurn
PROPERTIES
    StallIsReal
    OutcomeReported
CHECK_DEADLOCK FALSE
