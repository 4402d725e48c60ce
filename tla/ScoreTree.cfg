SPECIFICATION Spec
CONSTANTS
  m1 = m1
  m2 = m2
  Null = Null
  Nil = Nil
  Scores = {1, 2, 3, 4, 5, 6, 7}
  Values = {m1, m2}
INVARIANTS TypeOK RangesRight RepairSafe RepairShort
PROPERTY IsScoreSet
SYMMETRY MemberSymmetry
