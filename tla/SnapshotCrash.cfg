SPECIFICATION Spec
CONSTANTS
  k1 = k1
  k2 = k2
  Absent = Absent
  None = None
  SetEnds = {0, 1}
  MaxNow = 2
  Dbs = {0}
  Keys = {k1, k2}
  Kind <- AllStrings
  Uses <- Anywhere
INVARIANT DurableSurvives
