CONSTANTS
  Task = {t0, t1}
  mem1 = mem1
  mem2 = mem2
  sp1 = sp1
  sp2 = sp2
  Memory = {mem1, mem2}
  Space = {sp1, sp2}
  None = None
  InitTask = t0
  InitSpace = sp1
  Finalizer = fin
  ArgCount = 2
  ChannelSize = 1
  MaxHandle = 2
  MaxMmap = 2
  MaxInspect = 1
  Programs <- MessagesAndSpaces
  Messages <- OneOrTwo
  IpcFlags <- Flags

SPECIFICATION Spec
CHECK_DEADLOCK FALSE
INVARIANT RefsExact
INVARIANT NoDanglingPointer
INVARIANT ResultTellsTransfer
