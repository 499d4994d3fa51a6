CONSTANTS
  Ids = {i1}
  Frequencies <- MCFrequencies
  MaxTime = 5
  MaxSleep = 2
  HistoryLimit = 1
SPECIFICATION Spec
INVARIANTS FailureKeepsCadence
CHECK_DEADLOCK FALSE
