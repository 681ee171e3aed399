\* Two Servers, room for one client, started, closed and started again.
SPECIFICATION Spec
CONSTANTS
  Threads <- MCThreads
  Nobody = Nobody
  Main = Main
  NoSock = NoSock
  NServers = 2
  Socks = {k1, k2}
  MaxClient = 1
  MaxStarts = 2
  MaxPollFailures = 0
SYMMETRY SockSymmetry
PROPERTY ConnectionsKept
\* Everything stops once the TcpServer is closed and may not be started again.
CHECK_DEADLOCK FALSE
