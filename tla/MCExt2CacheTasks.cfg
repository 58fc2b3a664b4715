CONSTANTS
  Blocks <- MCBlocks
  Data = {z, d}
  Zero = z
  cache_entries = 2
  MaxTime = 8
  MaxLaps = 0
  Tasks = {p, q}

SPECIFICATION TasksSpec

INVARIANT WritesAreKept

CHECK_DEADLOCK FALSE
