CONSTANTS
  o1 = o1
  o2 = o2
  r1 = r1
  r2 = r2
  p1 = p1
  p2 = p2
  k1 = k1
  k2 = k2
  k3 = k3
  NoKey = NoKey
  Torn = Torn
  Weights <- MCWeights
  Budgets <- MCBudgets
  CoreBytes = 2
  BudgetEvents <- MCBudgetEvents
  Objects <- MCObjects
  LeafBytes <- MCLeafBytes
  MarkBytes = 10
  Heaps <- MCHeaps
  Root = o1
  ByteBudgets <- MCByteBudgets
  Depths <- MCDepths
  Allowlists <- MCAllowlists
  Names <- MCNames
  First = "A"
  MAX_SHAPE = 9
  Bodies <- MCBodies
  Headers <- MCHeaders
  Projects <- MCProjects
  Readers <- MCReaders
  Mtimes <- MCMtimes
  MaxWrites = 2
  MaxReads = 3
  Processes <- MCProcesses
  Keys <- MCKeyValues
  Stack <- MCStack
  MaxEvents = 3
SYMMETRY Symmetry
SPECIFICATION Spec
INVARIANTS
  DataFaithful
  SourcesAgree
  CachesExplained
  OneIdentity
CHECK_DEADLOCK FALSE
