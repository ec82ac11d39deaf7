CONSTANTS
  c1 = c1
  d1 = d1
  d2 = d2
  agent = agent
  replay = replay
  fleet = fleet
  broken = broken
  f1 = f1
  r1 = r1
  r2 = r2
  NoRelease = NoRelease
  Background = Background
  MAX_RETRY_BUFFER = 1
  PayloadV2 = TRUE
  Captures <- MCCaptures
  Exceptions <- MCExceptions
  DeployOf <- MCDeployOf
  Configs <- MCConfigs
  Hooked <- MCHooked
  SetupThrows <- MCSetupThrows
  FingerprintOf <- MCFingerprintOf
  Unserialisable <- MCUnserialisable
  Flushers <- MCFlushers
SPECIFICATION FairSpec
INVARIANTS
  TypeOK
  HandedOnce
  
  DeployKeepsTransport
PROPERTIES
  CaptureEnds
CHECK_DEADLOCK FALSE
