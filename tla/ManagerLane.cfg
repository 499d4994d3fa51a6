CONSTANTS
  a = a
  b = b
  d = d
  home = home
  away = away
  NoJob = NoJob
  NoRun = NoRun
  UserRun = UserRun
  Jobs <- MCThreeJobs
  Chats <- OneChat
  ChatOf <- AllHome
  Serial <- OnlyD
  Priorities = {1, 2}
  ChatLimit = 2
  GlobalLimit = 4
  HistoryLimit = 3
  Allowed <- LaneEvents
SPECIFICATION Spec
INVARIANTS ExclusiveAlone
CHECK_DEADLOCK FALSE
