SPECIFICATION Spec
CONSTANTS
  Inodes = {1}
  EXT2_DIRECT_BLOCKS = 1
  p = 2
  BGDS = 1
  blocks_per_group = 20
  Words = {5}
  Reserved <- MCReserved
  MaxBlocks <- MCMaxBlocks
INVARIANT GetReturnsWhatWasSet
