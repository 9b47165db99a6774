CONSTANTS
  Cpu = {c1, c2, c3}
  MaxPairs = 2
SPECIFICATION LiveSpec
INVARIANTS WriterExcludes HandlerFindsNoRwLock DepthCountsPairs
PROPERTY WriterEnters
