\* Buffers that a message just does not fit, two answers to send.
SPECIFICATION FairSpec
CONSTANTS
  h1 = h1
  h2 = h2
  None = None
  MaxClient = 2
  Handles <- MCHandles
  Size = 3
  SendSize = 2
  MsgLens <- MCMsgLens
INVARIANTS
  TypeOK
  OpsHaveOwners
  OpsInPlace
PROPERTIES
  ClosedLeaves
CHECK_DEADLOCK FALSE
