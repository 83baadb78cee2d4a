SPECIFICATION MakeFairSpec
CONSTANTS
    m1 = m1
    m2 = m2
    None = None
    Maker = {m1, m2}
    Sizes <- AllKinds
    C = 2
    MaxSkips = 1
    MaxStops = 2
INVARIANTS
    DigestOfFile
    OffsetsMatch
    StopHeeded
PROPERTY StopEnds
CHECK_DEADLOCK FALSE
