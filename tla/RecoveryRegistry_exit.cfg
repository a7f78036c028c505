SPECIFICATION Spec
CONSTANTS
  Worker = {w1}
  Pid = {p1}
  WorkerSlot = {s1}
  Record = {r1}
  MaxGeneration = 2
  None = None
  Stranger = Stranger
  Sealed = Sealed
PROPERTIES
  ExitIsFinal
