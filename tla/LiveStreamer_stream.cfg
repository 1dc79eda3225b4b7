SPECIFICATION FairSpec
CONSTANTS
  LIVE_MODE = {FALSE, TRUE}
  MaxCalls = 4
INVARIANT InOrder
PROPERTIES ProcessBlockReturns 
CHECK_DEADLOCK FALSE
