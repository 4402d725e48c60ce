SPECIFICATION FairSpec
CONSTANTS
  r1 = r1
  r2 = r2
  c1 = c1
  c2 = c2
  w1 = w1
  w2 = w2
  None = None
  Requests = {r1, r2}
  Conns = {c1, c2}
  Workers = {w1, w2}
  Ids = {1}
  MaxQueue = 4
INVARIANTS TypeOK ArmedOrRead SentOnce
PROPERTY GetResultReturns
CHECK_DEADLOCK FALSE
