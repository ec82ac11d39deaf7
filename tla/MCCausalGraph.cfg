CONSTANTS
  o1 = o1
  o2 = o2
  o3 = o3
  o4 = o4
  o5 = o5
  o6 = o6
  x = x
  y = y
  NoId = NoId
  MAX_NODES = 3
  EVICTED_MAX = 1
  MaxDepth = 2
  Ops <- MCOps
  Foreign <- MCForeign
  ForeignGraphs <- MCForeignGraphs
SYMMETRY Symmetry
SPECIFICATION Spec
INVARIANTS
  TypeOK
  CurrentIsInnermost
  DanglingExplained
  ChainExtracted
CHECK_DEADLOCK FALSE
