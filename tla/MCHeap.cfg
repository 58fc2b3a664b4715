CONSTANTS
  PAGE_SIZE = 16
  Header = 8
  BigHeader = 10
  SMALLEST_BIN_LOG = 2
  BIG_BIN = 1
  SKIP_MAX_LEVEL = 1
  MaxPages = 6
  MaxLive = 2
  Requests = {3, 5, 16}
  Words = {0}
  ReallocAligned = FALSE
SPECIFICATION Spec
CHECK_DEADLOCK FALSE
INVARIANTS
  TypeOK
  NothingOverlaps
  FreeBlocksAreListed
  ContentsAreKept
PROPERTY
  BestFitAlways
