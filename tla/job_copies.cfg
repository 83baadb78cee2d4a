SPECIFICATION Spec
CONSTANTS
    c1 = c1
    c2 = c2
    f1 = f1
    f2 = f2
    NoPeer = NoPeer
    Client = {c1, c2}
    File = {f1}
    ChunkCount <- OneFile
    PeerHas <- Seeds
    TrackerViews <- FullView
    StartBitmaps <- NewJob
    Copies <- AllCopied
    MaxConn = 2
    MaxThreads = 2
    RareCount = 2
    MaxFaults = 1
    MaxCommands = 0
INVARIANT CopiesComplete
CHECK_DEADLOCK FALSE
