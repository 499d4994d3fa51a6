CONSTANTS
  Ids = {i1, i2}
  Frequencies <- MCFrequencies
  MaxTime = 4
  MaxSleep = 1
  HistoryLimit = 2
SPECIFICATION Spec
SYMMETRY IdSymmetry
INVARIANTS RunsAccounted PauseHolds CadenceKept
PROPERTIES RestartHonest
CHECK_DEADLOCK FALSE
