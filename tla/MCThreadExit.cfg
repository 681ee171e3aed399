\* Exit() called by the work function against Close() by another thread.
SPECIFICATION Spec
CONSTANTS
  Threads <- MCThreads
  Callers = {p1, p2}
  Nobody = Nobody
  MaxStarts = 2
  WorkExits = TRUE
INVARIANT ExitDoesNotBlock
CHECK_DEADLOCK FALSE
