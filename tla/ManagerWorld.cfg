CONSTANTS
  a = a
  b = b
  d = d
  home = home
  away = away
  NoJob = NoJob
  NoRun = NoRun
  UserRun = UserRun
  Jobs <- MCThreeJobs
  Chats <- TwoChats
  ChatOf <- OneAway
  Serial = {}
  Priorities = {1}
  ChatLimit = 2
  GlobalLimit = 2
  HistoryLimit = 1
  Allowed <- WorldEvents
SPECIFICATION Spec
INVARIANTS GlobalLimitKept NeverAsleep DependenciesKept RunningHasRun
PROPERTIES QueueDrains
CHECK_DEADLOCK FALSE
