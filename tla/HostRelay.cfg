CONSTANTS
  Requests = {r1, r2}
  Sockets = {s1, s2}
  NoSocket = NoSocket
  MaxActive = 1
SPECIFICATION Spec
INVARIANTS ConnectionInvariant AnsweredOnce
PROPERTIES NewHostKeepsItsRequests ImplementsRelayContract
CHECK_DEADLOCK FALSE
