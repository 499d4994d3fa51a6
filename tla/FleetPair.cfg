CONSTANTS
  hello = hello
  redirect = redirect
  a = a
  b = b
  UserMessages <- MCOneMessage
  Redirections <- MCRedirections
  Tasks <- MCTwoTasks
  Messages <- MCMessagesTwoTasks
  MaxRounds = 2
  MaxDispatches = 2
  MaxTurns = 0
  ToolTurnBudget = 0
  RepairTurns = 3
  InferenceAttempts = 1
  QualityRepairs = 0
  ModelTurns = 2
SPECIFICATION FleetSpec
INVARIANTS FleetBooks PostConserved CompletedHeardEveryone
CHECK_DEADLOCK FALSE
