SPECIFICATION LSpec
CONSTANTS
  s1 = s1
  h1 = h1
  None = None
  Job <- TwoJobs
  KindOf <- OneOfEach
  Slot <- OneSlot
  Host <- OneHost
  HostOf <- Slot1Host
  MaxAttempts = 2
  StaleAfter = 1
  MaxTime = 2
  MaxFaults = 1
  ReusePid = FALSE
  BoundedJobs = TRUE
  AtomicRecovery = TRUE
INVARIANTS AudioStays ResultsOnDisk NoOrphanFiles NewestIsShown ListIsCoherent
