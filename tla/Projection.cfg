SPECIFICATION MCSpec
CONSTANTS
  Rebuilders = {r1, r2}
  Readers = {q1}
  Events = {e1, e2}
  MaxRebuilds = 2
  InitialSchema = 1
  Disturbances = 1
  Null = Null
  Nothing = Null
  CaseEvents <- SmallCase
  MaxCase = 4
SYMMETRY Symmetry
CHECK_DEADLOCK FALSE
INVARIANTS
  RebuiltAloneIsCurrent
  ViewsAgree
PROPERTIES
  ReadsAreCurrent
  StaleMeansBehind
