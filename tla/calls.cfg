SPECIFICATION FairSpec
CONSTANTS
    ui = ui
    maker = maker
    reporter = reporter
    None = None
    UI = ui
    Caller = {ui, maker}
    ResourceCallers = {ui, maker}
    MaxCalls = 3
    MaxFaults = 1
    MaxShort = 1
INVARIANTS
    ReplyBelongs
 
CHECK_DEADLOCK FALSE
