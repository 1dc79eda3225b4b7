SPECIFICATION FairSpec
CONSTANTS
  Channels = {1, 2}
  MaxEdits = 2
  MaxFaults = 3
  MaxMiscounts = 2
INVARIANT SandboxOwned
PROPERTIES ComesBackAsItWas UnloadEnds
CHECK_DEADLOCK FALSE
