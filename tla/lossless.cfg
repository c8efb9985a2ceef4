CONSTANTS
  N = 4
  Roots <- Rank
  Opcodes <- AllOpcodes
  Known <- AllPairs
  Algorithms <- AnyOfThem
  Planes = {"XDP"}
  MaxBcasts = 3
  Fragments = 1
  MaxSends = 9
  MaxLoss = 0
  MaxTimeouts = 0
SPECIFICATION CSpec
INVARIANTS
  CTypeOK
  AnswersRead
  RootWaitsForAllAcks
  ReadyForNext
PROPERTIES
  KeepsThePromise
  RunsTheBarriers
  Terminates
CHECK_DEADLOCK FALSE
