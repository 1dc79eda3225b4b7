SPECIFICATION SamplesSpec
CONSTANTS
  NUM_OF_BUFFERS = 1
  BlockSize = 2
  FIXED_OUTBOUND_BUFFER = {TRUE, FALSE}
  LIVE_MODE = TRUE
  MaxSamples = 9
  MaxSwitches = 1
INVARIANTS SamplesAccounted InPlace
CHECK_DEADLOCK FALSE

