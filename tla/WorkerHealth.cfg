SPECIFICATION HFairSpec
CONSTANTS
  Api = Api
  w1 = w1
  w2 = w2
  Process <- ApiAndTwo
  Script <- TwoFiles
  MaxFaults = 2
  WholeMigrations = TRUE
  Interval = 2
  Fresh = 6
  Patience = 1
  MaxMisses = 1
INVARIANTS SchemaComplete BusyIsAlive DeadIsNoticed
PROPERTIES EveryoneStarts BannerFollows
