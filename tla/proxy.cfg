SPECIFICATION ProxySpec
CONSTANTS
    t1 = t1
    t2 = t2
    ui = ui
    NoTorrent = NoTorrent
    Torrent = {t1, t2}
    Adder = {ui}
    UI = ui
    MaxJobs = 3
    Query <- MCQuery
SYMMETRY Symmetry
INVARIANTS
    JobsHaveStatus
    
    EveryJobShown
    TotalOfItsSearch
PROPERTY HandlesNeverReused
CHECK_DEADLOCK FALSE
