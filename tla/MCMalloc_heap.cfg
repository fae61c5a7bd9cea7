SPECIFICATION Spec
CONSTANTS
  parent = parent
  child = child
  NoOne = NoOne
  Processes = {parent, child}
  Workloads <- AllWorkloads
  Parent = parent
  PER_TABLE = 7
  MMAP_INCR = 3
  PERPAGE = 2
  TARGET = 2
  FreesCutBlocks = FALSE
\* every process may finish
CHECK_DEADLOCK FALSE
INVARIANTS
  TypeOK
  FreeListSound
  EveryPageHasOneUse
  FreeExtentsJoined
  EveryChunkInOnePlace
  FullPagesAreFreed
  
  EveryPageReachable
