SPECIFICATION FairSpec
CONSTANTS
    c1 = c1
    c2 = c2
    f1 = f1
    f2 = f2
    NoPeer = NoPeer
    Client = {c1, c2}
    File = {f1, f2}
    ChunkCount <- TwoFiles
    PeerHas <- SeedAndPart
    TrackerViews <- FullView
    StartBitmaps <- AnyStart
    Copies <- NoCopies
    MaxConn = 2
    MaxThreads = 2
    RareCount = 2
    MaxFaults = 0
    MaxCommands = 3
PROPERTIES
    Completes
    StopDrains
    
CHECK_DEADLOCK FALSE
