SPECIFICATION MCSpec
CONSTANTS
  Bodies = {b1, b2}
  MaxRecords = 3
  MaxEdits = 3
  Absent = Absent
  Nil = Nil
  Bad = Bad
  Empty = Empty
  EventPool <- SmallPool
  Packs <- SmallPacks
  MaxEvents = 4
  Contracts <- SmallContracts
  Recordable <- SmallRecordable
SYMMETRY Symmetry
CHECK_DEADLOCK FALSE
INVARIANTS
  VerifiesWhatAppendWrites
  VerifiedPrefixIsLongest
  OnlyTailLossPasses
  AnchoredScanDetectsEverything
  ReportedSequencesOccurred
  LabVerdictsStand
  PassedContractsHold
