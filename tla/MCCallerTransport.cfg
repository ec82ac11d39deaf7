CONSTANTS
  e1 = e1
  e2 = e2
  e3 = e3
  e4 = e4
  f1 = f1
  MAX_RETRY_BUFFER = 2
  MaxCalls = 2
  Sdks <- MCAll
  Events <- MCEvents
  FingerprintOf <- MCFingerprintOf
  Unserialisable <- MCUnserialisable
  Flushers <- MCFlushers
SPECIFICATION FairSpec
INVARIANTS
  TypeOK
  OneCopy
PROPERTIES
  NoSilentLoss
  CallsReturn
CHECK_DEADLOCK FALSE
