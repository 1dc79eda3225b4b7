SPECIFICATION FairSpec
CONSTANTS
  NUM_OF_BUFFERS = 1
  LIVE_MODE <- BothModes
  MaxSends = 9
INVARIANTS TypeOK LatencyAccounted NeverEarly AudioNeverLost NoLostWakeup PopFindsBlock
PROPERTIES ImplementsChannel CallsReturn
CHECK_DEADLOCK FALSE
