SPECIFICATION IndexesSpec
CONSTANTS
  Plugins = 3
  Slots = 2
  MaxEdits = 3
  MaxNotes = 1
  MaxSessions = 1
INVARIANTS IndexesFollow MisdirectionsExplained EditorShown
CHECK_DEADLOCK FALSE
