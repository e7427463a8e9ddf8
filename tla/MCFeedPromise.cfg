SPECIFICATION SafetySpec
CONSTANTS
    Updates = {u1, u2}
    Refills = {r1}
    Memes = {m1, m2}
    Goats = {}
    None = None
    Reactions = {like, dislike}
    LowWater = 0
    BatchSize = 1
    MaxQueue = 2
    GetAttempts = 2
    SendAttempts = 1
    Faults = {"bad", "forbidden", "stall"}
SYMMETRY Symmetry
INVARIANTS
    NoDeadEnd
PROPERTIES
    KeepsPromise
    QueueSpec
