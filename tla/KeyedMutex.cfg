CONSTANTS
  Calls = {c1, c2, c3, c4}
  Keys = {k1, k2}
  NoTail = NoTail
  NoKey = NoKey
SPECIFICATION Spec
INVARIANTS MutualExclusion TableCoversWork
PROPERTIES TableEmpties ImplementsKeyedLock
CHECK_DEADLOCK FALSE
