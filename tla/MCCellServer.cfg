\* Two Servers, three descriptors, room for two clients, one Start and one Close.
SPECIFICATION Spec
CONSTANTS
  Threads <- MCThreads
  Nobody = Nobody
  Main = Main
  NoSock = NoSock
  NServers = 2
  Socks = {k1, k2, k3}
  MaxClient = 2
  MaxStarts = 1
  MaxPollFailures = 0
SYMMETRY SockSymmetry
INVARIANTS
  TypeOK
  OneOwner
  AcceptWithinLimit
  CountersExact
  ClearIsAlone
  CloseReleasesAll
PROPERTY RefusedOnlyWhenFullAtFirst
\* Everything stops once the TcpServer is closed and may not be started again.
CHECK_DEADLOCK FALSE
