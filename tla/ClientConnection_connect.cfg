SPECIFICATION FairSpec
CONSTANTS
  Server = {s1, s2}
  Format = {f1, f2}
  MaxChanges = 4
  MaxFaults = 2
INVARIANTS SessionCurrent AnnouncedState
PROPERTIES GetsConnected PluginGoes
CHECK_DEADLOCK FALSE
