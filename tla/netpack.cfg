CONSTANTS
  Servers = {"peer", "tracker", "resource"}
  FileSize = 3
  BlockBits = 2
  MaxCalls = 2
SPECIFICATION NetPackSpec
INVARIANT InStep
 
INVARIANT FiledWasShown
CHECK_DEADLOCK FALSE
