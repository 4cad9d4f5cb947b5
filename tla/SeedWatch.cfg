CONSTANTS
    PENDING_TIMEOUT = 2
    IMAGE_PULL_GRACE = 1
    STALL_WINDOW = 2
    METERED_STALL = 2
    BLIND_STALL = 3
    PULLER_ATTEMPTS = 3
    Payload = 2
    Files = 2
    Settings <- MCSettings
SPECIFICATION WatchSpec
CHECK_DEADLOCK FALSE
INVARIANTS
    StallIsSilent
PROPERTIES
    SilenceEnds
