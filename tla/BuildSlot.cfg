CONSTANTS
    r1 = r1
    r2 = r2
    r3 = r3
    Runs <- Three
    Footprints = 2
    Crashes = TRUE
    Admissions = TRUE
SPECIFICATION SlotFairSpec
PROPERTY EveryoneServed
INVARIANT ReservationCoversPod
