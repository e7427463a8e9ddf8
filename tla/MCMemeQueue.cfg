SPECIFICATION Spec
CONSTANTS
    Tasks = {t1, t2}
    Memes = {m1, m2, m3}
    NoTask = NoTask
    LowWater = 1
    BatchSize = 1
    MaxQueue = 3
SYMMETRY Symmetry
INVARIANTS
    GenerationExclusive
    SoloNoDuplicates
    SoloBounded
