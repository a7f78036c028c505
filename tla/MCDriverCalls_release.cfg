SPECIFICATION MCSpec
CONSTANTS
  Level = 3
  Id = {"k1", "k2"}
  MaxCalls = 3
  Call = {"p1", "p2", "p3"}
  Original = "original"
  Nothing = "nothing"
  Proc = {1, 2, 3, 4}
  Root = 1
  Reader = {"r1", "r2"}
  StableIterations = 2
  MaxChanges = 4
  Path <- Paths
  Canon <- Canons
  Filters <- FilterSets
  MaxSyncCalls = 2
  Data <- Payloads
  ChunkSize = 2
  MaxPayload = 3
  MaxMessages = 1
INVARIANT NothingLeftPressed
CHECK_DEADLOCK FALSE
