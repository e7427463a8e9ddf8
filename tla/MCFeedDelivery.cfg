SPECIFICATION SafetySpec
CONSTANTS
    Updates = {u1, u2}
    Refills = {}
    Memes = {m1, m2, m3}
    Goats = {m3}
    None = None
    Reactions = {like, dislike}
    LowWater = 0
    BatchSize = 1
    MaxQueue = 2
    GetAttempts = 2
    SendAttempts = 1
    Faults = {"redis", "slow", "crash", "raise", "unknown"}
SYMMETRY Symmetry
INVARIANTS
    TypeOK
    NoRepeatDelivery
    ReactionsRecorded
    SingleAdvance
CHECK_DEADLOCK FALSE
