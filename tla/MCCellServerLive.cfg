\* One Server with room for one client, two descriptors, and one failing epoll_wait in either thread.
SPECIFICATION FairSpec
CONSTANTS
  Threads <- MCThreads
  Nobody = Nobody
  Main = Main
  NoSock = NoSock
  NServers = 1
  Socks = {k1, k2}
  MaxClient = 1
  MaxStarts = 1
  MaxPollFailures = 1
PROPERTIES
  HandedOverIsServed
  GoneIsClosed
  CloseEnds
\* Everything stops once the TcpServer is closed and may not be started again.
CHECK_DEADLOCK FALSE
