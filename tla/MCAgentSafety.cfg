SPECIFICATION MCSpec
CONSTANTS
  Session = {c1, c2, c3}
  Kind = {"desktop", "plain"}
  MaxConnections = 3
  MaxWorkers = 2
  Payload = {1, 3}
  Header = 1
  MaxRequests = 2
  ConnectionBytes = 6
  ServerBytes = 8
  Window = 4
  MaxStarts = 3
  Startup = 2
  Allowance = 1
  RestartDelay = 1
  MaxTime = 7
SYMMETRY Symmetry
CHECK_DEADLOCK FALSE
INVARIANTS
  BudgetsBalance
  NoLostWakeup
  DesktopExclusive
  PermitAccounted
  OneSession
  RestartsArePaced
