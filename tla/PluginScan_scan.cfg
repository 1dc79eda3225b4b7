SPECIFICATION ScanFairSpec
CONSTANTS
  Plugins = 2
  Threads = 2
  MaxFaults = 3
  MaxServerCrashes = 1
INVARIANTS NothingMissed BlacklistedDeserve
PROPERTY ScanEnds
CHECK_DEADLOCK FALSE
