SPECIFICATION Spec
CONSTANTS
  Blocks <- MCBlocks
  Data = {z, d}
  Zero = z
  cache_entries = 2
  MaxTime = 4
  MaxLaps = 1
INVARIANTS
  TypeOK
  Coherent
  VictimExists
  WorkingSetIsCached
PROPERTY
  StoreSpec
