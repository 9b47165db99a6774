CONSTANTS
  Capacity = 3
  Data = {d1, d2, d3}
  None = None
  PageSize = 2
  MapSize = 6
  Entries <- SmallEntries
  Mmap <- BootMmap
  PageBytes = 2
  LowPages = 1
  Sizes = {1, 2, 3}
  Room = 6
  MaxRange = 3
  Memory = {m}
  Spaces = {s, t}
  ObjectSizes = {2}
  Levels = 2
  Fanout = 2
  OwnEntries = 1
  KernelPages = {4, 5}
  UserRange <- UserRange4
  Lower = {FALSE}
  Parts <- TwoParts
  Fixed <- Fixed2
  MaxMmap = 2
  MaxRefs = 3
  MaxLost = 1
  N = 4
  Self = 1
  PageUnits = 5
  NodePages = 1
  FreePages = 3
  Requests = {0, 2, 4}
  Boot <- BootProtos
  Manifests <- Services
  Nothing = Nothing
  Keys <- SomeKeys
  Moves <- SomeMoves
  MaxInputs = 2
  Views = {v1, v2, v3, v4}
  Buttons = {v1, v2}
  NoView = NoView
SPECIFICATION StructuresSpec
CHECK_DEADLOCK FALSE
INVARIANTS MapIsUnion UsedMemoryExact RangesAreUnused PagesHaveOneOwner ReachesOnlyMapped
INVARIANTS ChoosesFreshAddresses WindowAgrees BootsOneByOne BlocksApart
INVARIANTS StartsWhenProvided DecodesInput ByteIsAwaited ViewsFollowMouse
PROPERTIES AllocatesFreeRuns IsFifo
SYMMETRY SpaceSymmetry
