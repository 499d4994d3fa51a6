CONSTANTS
  hello = hello
  redirect = redirect
  a = a
  b = b
  UserMessages <- MCUserMessages
  Redirections <- MCRedirections
  Tasks <- MCOneTask
  Messages <- MCMessagesOneTask
  MaxRounds = 3
  MaxDispatches = 2
  MaxTurns = 0
  ToolTurnBudget = 0
  RepairTurns = 3
  InferenceAttempts = 1
  QualityRepairs = 0
  ModelTurns = 2
SPECIFICATION FleetSpec
INVARIANTS CancellationsLicensed
PROPERTIES EveryoneSettles ImplementsContractWithFleet
CHECK_DEADLOCK FALSE
