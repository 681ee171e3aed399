\* Two threads start and close one Thread that is spawned up to three times.
SPECIFICATION FairSpec
CONSTANTS
  Threads <- MCThreads
  Callers = {p1, p2}
  Nobody = Nobody
  MaxStarts = 3
  WorkExits = TRUE
INVARIANTS
  TypeOK
  NoLostWakeup
  SemaphoreAtRest
PROPERTIES
  CloseWaitsForFirstRun
  SemaphoreCounts
  CloseReturns
\* Callers may stop calling once every activation has ended.
CHECK_DEADLOCK FALSE
