SPECIFICATION Spec
CONSTANTS
  c1 = c1
  c2 = c2
  c3 = c3
  NoConn = NoConn
  Clients = {c1, c2, c3}
  ClientFds = {3, 6}
  TimerFds = {1}
  Seconds <- CollidingSeconds
  ListenFd = 7
  SaveFd = 0
  WaitSlot = 2
  ClientSlot = 2
  Near = 1
  MaxPending = 1
  PairCap = 1
  Commands = {"query", "bgsave"}
SYMMETRY ClientSymmetry
INVARIANTS TypeOK TablesAgree TimerOwnsItsFd ClientHasTimer DetectTerminates
PROPERTY KickOnlyIdle
