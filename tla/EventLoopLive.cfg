SPECIFICATION FairSpec
CONSTANTS
  c1 = c1
  c2 = c2
  c3 = c3
  NoConn = NoConn
  Clients = {c1, c2}
  ClientFds = {8, 9}
  TimerFds = {}
  Seconds <- NoTimers
  ListenFd = 6
  SaveFd = 3
  WaitSlot = 2
  ClientSlot = 2
  Near = 1
  MaxPending = 1
  PairCap = 1
  Commands = {"query"}
PROPERTIES QuietServerDropsClients RequestsServed HangUpsNoticed
