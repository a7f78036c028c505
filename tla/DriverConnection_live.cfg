SPECIFICATION FairSpec
CONSTANTS
  film = film
  still = still
  None = None
  Request = {film}
  Video = {v}
  Image = {}
  Reference <- MCReference
  Sent <- MCSent
  MaxBatch = 2
PROPERTIES RequestsSettle SessionsEnd
INVARIANTS FilesAreCollected
CHECK_DEADLOCK FALSE
