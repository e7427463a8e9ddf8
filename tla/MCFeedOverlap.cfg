SPECIFICATION SafetySpec
CONSTANTS
    Updates = {u1, u2, u3}
    Refills = {}
    Memes = {m1, m2}
    Goats = {}
    None = None
    Reactions = {like}
    LowWater = 0
    BatchSize = 1
    MaxQueue = 2
    GetAttempts = 2
    SendAttempts = 1
    Faults = {"slow"}
SYMMETRY Symmetry
PROPERTY
    ReactionsStay
CHECK_DEADLOCK FALSE
