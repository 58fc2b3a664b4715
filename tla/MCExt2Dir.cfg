CONSTANTS
  Names = {"a", "b", "long"}
  NameLen <- MCNameLen
  Block = 56
  inodes_per_group = 4
  BGDS = 2
  Reserved <- MCReserved
  Root = 2
  RootBlocks <- MCRootBlocks
SPECIFICATION Spec
CHECK_DEADLOCK FALSE
INVARIANTS
  TypeOK
  InodesAreCounted
  RecordsTile
  DirectoriesFormATree
PROPERTY
  OtherNamesAreKept
