CONSTANTS
  p1 = p1
  p2 = p2
  k1 = k1
  k2 = k2
  k3 = k3
  a = a
  b = b
  x = x
  NoKey = NoKey
  NoPeer = NoPeer
  NoSession = NoSession
  MINUTE = 1
  DEDUP_WINDOW = 3
  DEDUP_MAX = 2
  BLOCK_WINDOW = 1
  BLOCK_COUNT = 2
  BLOCK_DURATION = 1
  RATE_LIMIT_PER_MINUTE = 1
  RELAY_RATE_LIMIT_PER_MINUTE = 2
  TS_ACCEPT_PAST = 2
  TS_ACCEPT_FUTURE = 0
  QUEUE_MAX = 2
  RECONNECT_INITIAL = 1
  RECONNECT_MAX = 2
  MaxTime = 2
  MaxFaults = 1
  MaxStarts = 2
  MaxDials = 3
  MaxPublished = 3
  Procs <- MCProcs
  Keys <- MCKeys
  Peers <- MCPeers
  IdOf <- MCIdOf
  Topics <- MCTopics
  KeyChoices <- MCKeyChoices
SPECIFICATION Spec
INVARIANTS
  TypeOK
  SocketOrTimer
  InOrder
  DedupBound
  LimitsKept
  OneKeyPerPeer
CHECK_DEADLOCK FALSE
