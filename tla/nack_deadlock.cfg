CONSTANTS
  N = 3
  Roots <- Rank
  Opcodes <- AllOpcodes
  Known <- AllPairs
  Algorithms = {"mpi_bcast_ring_xdp"}
  Planes = {"XDP"}
  MaxBcasts = 1
  Fragments = 1
  MaxSends = 2
  MaxLoss = 1
  MaxTimeouts = 2
SPECIFICATION CSpec
PROPERTIES
  ReceivesReturn
CHECK_DEADLOCK FALSE
