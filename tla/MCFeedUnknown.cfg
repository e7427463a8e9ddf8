SPECIFICATION SafetySpec
CONSTANTS
    Updates = {u1, u2}
    Refills = {}
    Memes = {m1, m2}
    Goats = {}
    None = None
    Reactions = {like, dislike}
    LowWater = 0
    BatchSize = 1
    MaxQueue = 2
    GetAttempts = 2
    SendAttempts = 1
    Faults = {"unknown"}
SYMMETRY Symmetry
INVARIANT
    EveryReactionPersisted
CHECK_DEADLOCK FALSE
