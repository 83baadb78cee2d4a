SPECIFICATION Spec
CONSTANTS
    Client = {c1, c2}
    Job = {j1, j2}
    MaxConn = 3
    Workers = 1
    MaxFaults = 2
SYMMETRY Symmetry
INVARIANTS
    NoSharedSock
    UsedIsHeld
    ListBound
    NobodyWaits
CHECK_DEADLOCK FALSE
