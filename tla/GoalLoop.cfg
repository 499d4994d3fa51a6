SPECIFICATION Spec
CONSTANTS
  Runs = {r1, r2, r3}
  NoRun = NoRun
  MaxTurns = 2
  MaxMessages = 2
  MaxEdits = 1
INVARIANTS
  BudgetExact
  LoopInHand
PROPERTIES
  LoopEnds
