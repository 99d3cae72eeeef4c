SPECIFICATION MCSpec
CONSTANTS
  Rebuilders = {r1}
  Readers = {q1}
  Events = {e1}
  MaxRebuilds = 2
  InitialSchema = 1
  Disturbances = 0
  Null = Null
  Nothing = Null
  CaseEvents <- SmallCase
  MaxCase = 4
SYMMETRY Symmetry
CHECK_DEADLOCK FALSE
INVARIANT
  MigrationIsRestartable
