SPECIFICATION FairSpec
CONSTANTS
  j1 = j1
  s1 = s1
  s2 = s2
  h1 = h1
  h2 = h2
  None = None
  Job <- OneJob
  KindOf <- Transcribe1
  Slot <- TwoSlots
  Host <- TwoHosts
  HostOf <- SlotsShareHost
  MaxAttempts = 2
  StaleAfter = 1
  MaxTime = 3
  MaxFaults = 2
  ReusePid = FALSE
  BoundedJobs = TRUE
  AtomicRecovery = TRUE
INVARIANTS TypeOK SoleRunner RowMatchesRunner NoLostJob AttemptsBounded LiveClaimIsRun
PROPERTIES ImplementsLifecycle EveryJobSettles TerminalIsFinal
