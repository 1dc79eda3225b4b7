SPECIFICATION Spec
CONSTANTS
  Plugin = {p1, p2}
  SyncRemote = TRUE
  MaxRetries = 1
  MaxEdits = 2
  MaxSessions = 2
  MaxFaults = 1
INVARIANTS ListAndChain SavesOwnSettings
SYMMETRY Symmetry
