SPECIFICATION MCSpec
CONSTANTS
  Procs = {p1}
  Names = {"a", "b"}
  Bytes = {1, 2}
  NBlocks = 5
  NInodes = 4
  BSIZE = 2
  NDIRECT = 2
    Made <- MCMade
  Loads = {"dirs", "links", "data", "fill", "stop", "again", "short"}
INVARIANTS
    DiskSound
PROPERTIES
    IsTree
CHECK_DEADLOCK FALSE
