SPECIFICATION FairSpec
CONSTANTS
  j1 = j1
  s1 = s1
  s2 = s2
  h1 = h1
  h2 = h2
  None = None
  Job <- OneJob
  KindOf <- Transcribe1
  Slot <- OneSlot
  Host <- TwoHosts
  HostOf <- Slot1Host
  MaxAttempts = 2
  StaleAfter = 1
  MaxTime = 2
  MaxFaults = 1
  ReusePid = TRUE
  BoundedJobs = TRUE
  AtomicRecovery = TRUE
PROPERTIES EveryJobSettles
