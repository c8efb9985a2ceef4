CONSTANTS
  N = 3
  CpuCounts = {2, 3}
  MapSizes = {5, 6}
  MaxFailures = 1
SPECIFICATION Spec
INVARIANTS
  OneConnectionPerPair
  GateHolds
  Registered
PROPERTIES
  RunsTheBarrier
  EveryoneSettles
CHECK_DEADLOCK FALSE
