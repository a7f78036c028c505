SPECIFICATION Spec
CONSTANTS
  Worker = {w1, w2}
  Pid = {p1, p2}
  WorkerSlot = {s1, s2}
  Record = {r1, r2}
  MaxGeneration = 2
  None = None
  Stranger = Stranger
  Sealed = Sealed
SYMMETRY Symmetry
INVARIANTS
  NoOldWorkerBesideNewHost
  OutputIsOwned
  RemovedAfterExit
  StrangersAreSpared
PROPERTIES
  OwnedUntilRemoved
  ImplementsOwnership
