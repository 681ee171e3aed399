\* Four requests, the third of which changes the host.
SPECIFICATION FairSpec
CONSTANTS
  MaxReq = 4
  Host <- TwoHosts
INVARIANTS
  CalledBackOnce
PROPERTIES
  RequestEnds
