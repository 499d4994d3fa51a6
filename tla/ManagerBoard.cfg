CONSTANTS
  a = a
  b = b
  d = d
  home = home
  away = away
  NoJob = NoJob
  NoRun = NoRun
  UserRun = UserRun
  Jobs <- MCThreeJobs
  Chats <- OneChat
  ChatOf <- AllHome
  Serial <- OnlyD
  Priorities = {1}
  ChatLimit = 2
  GlobalLimit = 4
  HistoryLimit = 1
  Allowed <- BoardEvents
SPECIFICATION Spec
INVARIANTS BoardInvariant
CHECK_DEADLOCK FALSE
