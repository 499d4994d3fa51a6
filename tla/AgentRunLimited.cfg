CONSTANTS
  Messages = {m1, m2, m3}
  MaxTurns = 2
  ToolTurnBudget = 1
  RepairTurns = 3
  InferenceAttempts = 3
  QualityRepairs = 2
  ModelTurns = 0
SPECIFICATION Spec
INVARIANTS SteeringConserved SealedAnswersAll TurnsBounded ToolTurnsBounded
PROPERTIES NoTurnAfterCancel RunEnds ImplementsRunContract
CHECK_DEADLOCK FALSE
