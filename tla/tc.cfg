CONSTANTS
  N = 4
  Roots = {0, 2}
  Opcodes <- AllOpcodes
  Known <- AllPairs
  MaxSends = 2
  MaxLoss = 1
SPECIFICATION TcSpec
INVARIANTS
  TwiceAtTheEnd
  NeverToRoot
  FromPredecessor
  HandedDown
PROPERTIES
  Coverage
CHECK_DEADLOCK FALSE
