CONSTANTS
  N = 4
  Roots = {0, 2}
  Opcodes <- AllOpcodes
  Known <- AllPairs
  MaxSends = 2
  MaxLoss = 1
SPECIFICATION Spec
INVARIANTS
  AtMostOnce
  NeverToRoot
  RightSocket
  RingPrefix
  FanOutFirst
PROPERTIES
  Coverage
  Drains
CHECK_DEADLOCK FALSE
