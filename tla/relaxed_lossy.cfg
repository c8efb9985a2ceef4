CONSTANTS
  N = 3
  Roots <- Rank
  Opcodes <- AllOpcodes
  Known <- AllPairs
  Algorithms <- Relaxed
  Planes = {"XDP", "TC"}
  MaxBcasts = 1
  Fragments = 2
  MaxSends = 4
  MaxLoss = 1
  MaxTimeouts = 2
SPECIFICATION CSpec
INVARIANTS
  StreamsFramed
PROPERTIES
  Terminates
CHECK_DEADLOCK FALSE
