SPECIFICATION Spec
CONSTANTS
  Bytes = {b1, b2}
  size = 3
  MaxCall = 3
INVARIANTS
  TypeOK
  FullIsNotEmpty
PROPERTY FifoSpec
CHECK_DEADLOCK FALSE
