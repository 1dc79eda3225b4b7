SPECIFICATION FairSpec
CONSTANTS
  Clients = 2
  MaxLaunches = 2
  MaxEdits = 2
  MaxCrashes = 1
INVARIANTS MapTracksSandboxes OneEditor
PROPERTIES ClientAnswered NoOrphan
CHECK_DEADLOCK FALSE
