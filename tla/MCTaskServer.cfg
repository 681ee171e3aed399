\* Four tasks added at any moment before, during and after one Start and Close.
SPECIFICATION FairSpec
CONSTANTS
  Threads <- MCThreads
  Self <- MCSelf
  Owner = owner
  Nobody = Nobody
  Tasks = {a, b, c, d}
INVARIANTS
  TypeOK
  RunsInOrder
  CloseFlushes
PROPERTIES
  QuietAfterClose
  AddedRuns
\* Everything is over once the owner has closed and no task is left to add.
CHECK_DEADLOCK FALSE
