SPECIFICATION ESpec
CONSTANTS
  j1 = j1
  s1 = s1
  h1 = h1
  None = None
  Job <- OneJob
  KindOf <- Transcribe1
  Slot <- OneSlot
  Host <- OneHost
  HostOf <- Slot1Host
  MaxAttempts = 2
  StaleAfter = 1
  MaxTime = 0
  MaxFaults = 1
  MaxRetries = 1
  MaxDrops = 2
  MaxWire = 2
  ReusePid = FALSE
  BoundedJobs = TRUE
  AtomicRecovery = TRUE
PROPERTIES StreamStops PageLearnsTheEnd
