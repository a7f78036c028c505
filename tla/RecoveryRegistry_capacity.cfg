SPECIFICATION Spec
CONSTANTS
  Worker = {w1, w2}
  Pid = {p1, p2}
  WorkerSlot = {s1}
  Record = {r1}
  MaxGeneration = 3
  None = None
  Stranger = Stranger
  Sealed = Sealed
SYMMETRY Symmetry
INVARIANTS
  HandlesAreOwned
  RegistrationFits
  CleanStart
