SPECIFICATION Spec
CONSTANTS
  Inodes = {1, 2}
  EXT2_DIRECT_BLOCKS = 1
  p = 2
  BGDS = 2
  blocks_per_group = 8
  Words = {0, 5}
  Reserved <- MCReserved
  MaxBlocks <- MCMaxBlocks
INVARIANTS
  TypeOK
  CountsMatchBitmap
  NoBlockShared
  FileContents
  GetReturnsWhatWasSet
