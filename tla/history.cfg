SPECIFICATION Spec
CONSTANTS
    TorrentFiles <- MCTorrentFiles
    Paths = {p1, p2}
    BlockBits = 3
    JobThreads = 1
    MaxCommands = 3
    MaxCrashes = 1
SYMMETRY MCPaths
INVARIANTS
    OnlyWhatWasSaved
    OwnJobsComeBack
    
    FailsOnce
CHECK_DEADLOCK FALSE
