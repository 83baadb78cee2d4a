SPECIFICATION Spec
CONSTANTS
    c1 = c1
    c2 = c2
    f1 = f1
    f2 = f2
    NoPeer = NoPeer
    Client = {c1, c2}
    File = {f1}
    ChunkCount <- OneFile
    PeerHas <- SeedAndPart
    TrackerViews <- SomeViews
    StartBitmaps <- NewJob
    Copies <- NoCopies
    MaxConn = 1
    MaxThreads = 2
    RareCount = 2
    MaxFaults = 1
    MaxCommands = 2
INVARIANTS
    TypeOK
    OnePlace
    NoneForgotten
    SocksAccounted
    BitmapsKnown
PROPERTIES
    AvailableFirst
    ImplementsLedger
CHECK_DEADLOCK FALSE
