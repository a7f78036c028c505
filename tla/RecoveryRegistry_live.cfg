SPECIFICATION FairSpec
CONSTANTS
  Worker = {w1, w2}
  Pid = {p1}
  WorkerSlot = {s1}
  Record = {r1}
  MaxGeneration = 2
  None = None
  Stranger = Stranger
  Sealed = Sealed
PROPERTIES
  StoppedHostIsSettled
  RecordsAreRecovered
