CONSTANTS
  N = 3
  Roots <- Rank
  Opcodes <- AllOpcodes
  Known <- AllPairs
  Algorithms = {"mpi_bcast_ring_xdp"}
  Planes = {"XDP"}
  MaxBcasts = 2
  Fragments = 2
  MaxSends = 8
  MaxLoss = 0
  MaxTimeouts = 0
SPECIFICATION CSpec
INVARIANTS
  StreamsFramed
CHECK_DEADLOCK FALSE
