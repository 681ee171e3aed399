\* Four requests, registrations included, through buffers of two, with every connection breaking at will.
SPECIFICATION FairSpec
CONSTANTS
  Links <- MCLinks
  Servers <- MCServers
  MaxReq = 4
  MaxQ = 2
INVARIANTS
  TypeOK
  EndsOnce
  ListenersLive
PROPERTIES
  EveryRequestEnds
