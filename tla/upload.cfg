SPECIFICATION FairSpec
CONSTANTS
    c1 = c1
    c2 = c2
    k1 = k1
    None = None
    Conn = {c1, c2}
    Chunk = {k1}
    Size = 2
    Cap = 1
    Threads = 1
    MaxRequests = 3
    MaxStops = 1
    MaxCommands = 1
INVARIANTS
    StartedOnce
    
    NoGap
 
CHECK_DEADLOCK FALSE
