\* A TcpServer closed with clients connected, and started again.
SPECIFICATION Spec
CONSTANTS
  Threads <- MCThreads
  Nobody = Nobody
  Main = Main
  NoSock = NoSock
  NServers = 1
  Socks = {k1, k2}
  MaxClient = 1
  MaxStarts = 2
  MaxPollFailures = 0
SYMMETRY SockSymmetry
PROPERTY RefusedOnlyWhenFull
CHECK_DEADLOCK FALSE
