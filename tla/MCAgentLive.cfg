SPECIFICATION MCSpec
CONSTANTS
  watched = c1
  Talking = {c1, c2}
  Session = {c1, c2, c3}
  Kind = {"desktop"}
  MaxConnections = 3
  MaxWorkers = 3
  Size = {1, 2}
  MaxRequests = 2
  ConnectionBytes = 3
  ServerBytes = 5
CHECK_DEADLOCK FALSE
INVARIANT OutputBalances
PROPERTIES
  WaitersAreServed
  SessionsDrain
  ExecutorsAreWoken
