SPECIFICATION RoutingSpec
CONSTANTS
  Kinds = {"fx", "inst"}
  MaxChannels = 3
  MainChannels = 1
  MaxExtra = 1
  MaxEdits = 1
  MaxLayouts = 1
INVARIANTS Routing ChannelsCurrent
CHECK_DEADLOCK FALSE
