SPECIFICATION Spec
CONSTANTS
    t1 = t1
    t2 = t2
    ui = ui
    maker = maker
    NoTorrent = NoTorrent
    Torrent = {t1, t2}
    Adder = {ui, maker}
    UI = ui
    MaxJobs = 3
SYMMETRY Symmetry
INVARIANT JobsHaveStatus
CHECK_DEADLOCK FALSE
