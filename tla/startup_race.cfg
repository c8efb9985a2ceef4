CONSTANTS
  N = 3
  CpuCounts = {3}
  MapSizes = {6}
  MaxFailures = 0
SPECIFICATION Spec
PROPERTIES
  ReachesTheBroadcast
CHECK_DEADLOCK FALSE
