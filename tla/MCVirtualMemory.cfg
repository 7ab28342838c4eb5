\* Every combination of six user images, aligned and unaligned low memory, and
\* three places of the memory above the kernel; three processes.
\* The machine may halt or fault, so a deadlock is not an error.
CONSTANTS
  PageBytes = 2
  Minimum = 2
  MaxRanges = 4
  Span <- SpanDef
  UserLimit = 102
  PageLimit = 136
  MaxRegions = 15
  NumSpaces = 3
  WindowStart = 1
  LinkBase = 20
  IdentityEnd = 34
  HighBase = 102
  KernelRegions <- Kernel
  UserText <- UserTextDef
  Stacks <- StacksDef
  Pool <- PoolDef
  MaxPmm = 20
  ElfBase = 34
  Storage = 23
  StorageLength = 2
  MaxSegments = 2
  Shared = 27
  ShmPages <- ShmDef
  Boots <- BootsDef
SPECIFICATION Spec
INVARIANTS FramesAreFree RegionsHold KernelCanWalk UserConfined
PROPERTIES CheckedStaysGood
CHECK_DEADLOCK FALSE
