SPECIFICATION MSpec
CONSTANTS
  s1 = s1
  s2 = s2
  h1 = h1
  h2 = h2
  r1 = r1
  r2 = r2
  p1 = p1
  p2 = p2
  None = None
  Job <- TwoJobs
  KindOf <- AllSummarize
  Request <- TwoRequests
  Patch <- OnePatch
  Slot <- OneSlot
  Host <- OneHost
  HostOf <- Slot1Host
  MaxAttempts = 2
  StaleAfter = 1
  MaxTime = 1
  MaxFaults = 1
  MaxEdits = 1
  ReusePid = FALSE
  BoundedJobs = TRUE
  AtomicRecovery = TRUE
INVARIANTS DoubledOnlyByRace OwnJobIsFresh DiffersOnlyIfTorn
