SPECIFICATION TSpec
CONSTANTS
  j1 = j1
  s1 = s1
  s2 = s2
  h1 = h1
  h2 = h2
  k1 = k1
  k2 = k2
  None = None
  Voices <- TwoVoices
  Job <- OneJob
  KindOf <- Transcribe1
  Slot <- OneSlot
  Host <- TwoHosts
  HostOf <- Slot1Host
  MaxAttempts = 1
  StaleAfter = 1
  MaxTime = 1
  MaxFaults = 1
  ReusePid = FALSE
  BoundedJobs = TRUE
  AtomicRecovery = TRUE
INVARIANTS ReadyIsComplete
PROPERTIES SettledIsTheUsers
