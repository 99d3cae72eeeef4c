SPECIFICATION MCSpec
CONSTANTS
  Rebuilders = {r1, r2}
  Readers = {q1}
  Events = {e1, e2}
  MaxRebuilds = 1
  InitialSchema = 0
  Disturbances = 0
  Null = Null
  Nothing = Null
  CaseEvents <- SmallCase
  MaxCase = 4
SYMMETRY Symmetry
CHECK_DEADLOCK FALSE
INVARIANT
  RebuiltIsCurrent
