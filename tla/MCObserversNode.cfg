CONSTANTS
  integration = integration
  direct = direct
  u1 = u1
  u2 = u2
  t1 = t1
  t2 = t2
  e1 = e1
  e2 = e2
  p = p
  q = q
  x1 = x1
  x2 = x2
  x3 = x3
  i1 = i1
  i2 = i2
  s1 = s1
  s2 = s2
  r1 = r1
  None = None
  NoOne = NoOne
  Nobody = Nobody
  BufferSize = 1
  SEEN_CAP = 1
  MaxCaptures = 2
  Callers <- MCCallers
  Integration = integration
  Undoers <- MCUndoers
  Throws <- MCThrows
  Events <- MCEvents
  Lines <- MCLines
  Threads <- MCThreads
  MainThread = p
  Exceptions <- MCExceptions
  ObjectIds <- MCObjectIds
  ToolIds <- MCToolIds
  Sessions <- MCSessions
  Requests <- MCRequests
  req1 = req1
  req2 = req2
  w1 = w1
  w2 = w2
  g1 = g1
  g2 = g2
  i3 = i3
  n1 = n1
  n2 = n2
  click1 = click1
  click2 = click2
  click3 = click3
  nav = nav
  tab1 = tab1
  tab2 = tab2
  new1 = new1
  new2 = new2
  host = host
  sampler1 = sampler1
  sampler2 = sampler2
  f1 = f1
  f2 = f2
  f3 = f3
  fp1 = fp1
  App = App
  Unset = Unset
  Gone = Gone
  NoId = NoId
  Stopped = Stopped
  FirstFetch = f1
  MAX_CACHED = 2
  MaxRaises = 2
  MAX_BREADCRUMBS = 2
  MaxLogs = 3
  MaxInits = 2
  MaxEvents = 2
  MaxSeconds = 1
  MaxClock = 3
  WINDOW = 2
  MaxSamples = 4
  MaxSignals = 1
  MaxVersion = 2
  MaxAsked = 2
  Handled <- MCHandled
  Unwrapped <- MCUnwrapped
  Workers <- MCWorkers
  Kinds <- MCNodeKind
  Errors <- MCErrors
  Ids <- MCIds
  Requested <- MCRequested
  SessionInits <- MCSessionInits
  Interactions <- MCInteractions
  Navigations <- MCNavigations
  Tabs <- MCTabs
  FreshIds <- MCFreshIds
  HostIds <- MCHostIds
  SamplerStates <- MCSamplerStates
  Fetches <- MCFetches
  Fingerprints <- MCFingerprints
  init1 = init1
  init2 = init2
  host1 = host1
  host2 = host2
  NoInit = NoInit
  MaxHandlers = 2
  Inits <- MCInits
  Programs <- MCPrograms
  Deadline = 2
  MinLeft = 1
  MAX_TOOL_ITERATIONS = 2
  MaxCalls = 2
  MaxEntries = 4
  MaxNow = 6
  MaxSteps = 3
  KEPT_CLICKS = 2
  RageCount = 2
  RageMs = 1
  RageQuiet = 2
  DeadMs = 2
  MAX_SAMPLES = 3
  LEAK_WINDOW = 3
  PageSizes <- MCPageSizes
  Hosts <- MCHosts
  MinImpact = 3
  MaxLoad = 2
SPECIFICATION Spec
INVARIANTS
  IsolatedPerRequest
CHECK_DEADLOCK FALSE
