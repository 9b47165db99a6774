CONSTANTS
  Cpu = {c1, c2}
  Locks <- Locks2
  MaxDepth = 2
SPECIFICATION LiveSpec
INVARIANTS MutualExclusion HandlerFindsNoLock
PROPERTY AcquireReturns
