CONSTANTS
  Keys = {k1}
  v1 = v1
  v2 = v2
  Values = {v1, v2}
  Fields = {f1, f2}
  Scores = {1, 2}
  ValueLists <- MCValueLists
  None = None
  MaxPushed = 3
SPECIFICATION Spec
INVARIANTS
  TypeOK
  QueueFifo
PROPERTY IsStore
SYMMETRY FieldSymmetry
