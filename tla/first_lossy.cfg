CONSTANTS
  N = 3
  Roots <- Rank
  Opcodes <- AllOpcodes
  Known <- AllPairs
  Algorithms <- Waiting
  Planes = {"XDP"}
  MaxBcasts = 1
  Fragments = 2
  MaxSends = 4
  MaxLoss = 1
  MaxTimeouts = 2
SPECIFICATION CSpec
INVARIANTS
  RightContent
  CoveredOrOnItsWay
  OnlyAskedRetransmissions
PROPERTIES
  AskingTheRootReturns
CHECK_DEADLOCK FALSE
