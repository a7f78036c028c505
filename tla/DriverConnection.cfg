SPECIFICATION Spec
CONSTANTS
  film = film
  still = still
  None = None
  Request = {film, still}
  Video = {v}
  Image = {i}
  Reference <- MCReference
  Sent <- MCSent
  MaxBatch = 1
INVARIANTS FailedAttemptIsClosed FailureEndsSession WaitersAreSettled
CHECK_DEADLOCK FALSE
