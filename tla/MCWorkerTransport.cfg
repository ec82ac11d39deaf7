CONSTANTS
  e1 = e1
  e2 = e2
  e3 = e3
  e4 = e4
  f1 = f1
  Worker = Worker
  NoEvent = NoEvent
  MAX_RETRY_BUFFER = 2
  QueueDepth = 2
  Sdks <- MCBoth
  Events <- MCEvents
  FingerprintOf <- MCFingerprintOf
  Unserialisable <- MCUnserialisable
  Recurring <- MCRecurring
  Flushers <- MCFlushers
SPECIFICATION FairSpec
INVARIANTS
  TypeOK
  OnePlace
  FlushCovers
PROPERTIES
  ImplementsDelivery
  NothingStarves
CHECK_DEADLOCK FALSE
