CONSTANTS
  N = 3
  Roots <- Rank
  Opcodes <- AllOpcodes
  Known <- AllPairs
  Algorithms = {"mpi_bcast_linear_xdp"}
  Planes = {"TC"}
  MaxBcasts = 1
  Fragments = 2
  MaxSends = 4
  MaxLoss = 0
  MaxTimeouts = 0
SPECIFICATION CSpec
INVARIANTS
  RightContent
CHECK_DEADLOCK FALSE
