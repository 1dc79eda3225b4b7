SPECIFICATION FairSpec
CONSTANTS
  Thread = {message, client}
  ClientThread = client
  MaxCalls = 3
  MaxSessions = 2
  MaxFaults = 1
INVARIANTS OneAnswerPerCall StaleAnswersExplained
PROPERTY CallReturns
CHECK_DEADLOCK FALSE
