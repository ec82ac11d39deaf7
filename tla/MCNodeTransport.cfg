CONSTANTS
  e1 = e1
  e2 = e2
  e3 = e3
  e4 = e4
  e5 = e5
  f1 = f1
  f2 = f2
  Background = Background
  MAX_RETRY_BUFFER = 2
  Events <- MCEvents
  FingerprintOf <- MCFingerprintOf
  Unserialisable <- MCUnserialisable
  Flushers <- MCFlushers
SPECIFICATION FairSpec
INVARIANTS
  TypeOK
  RetryBufferBounded
  OnePlace
  FlushCovers
PROPERTIES
  ImplementsDelivery
  FlushReturns
CHECK_DEADLOCK FALSE
