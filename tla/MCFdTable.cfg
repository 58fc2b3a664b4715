CONSTANTS
  Tasks = {t1, t2}
  Nodes = {root, a, b}
  Root = root
  NULL = NULL
  Junk = Junk
  Length = 1
  Capacity = 2
  MaxFds = 4
  Kinds = {"file", "root"}
  MaxLinks = 2
SPECIFICATION FdSpec
SYMMETRY FdSymmetry
CHECK_DEADLOCK FALSE
INVARIANTS
  FdTypeOK
  NoDanglingEntry
  RefcountsAccounted
