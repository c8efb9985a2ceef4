CONSTANTS
  N = 4
  MaxBarriers = 4
SPECIFICATION Spec
INVARIANTS
  RootLeavesLast
  OneToken
  BoundedSkew
PROPERTIES
  EveryoneLeaves
  ImplementsOrderedBarrier
CHECK_DEADLOCK FALSE
