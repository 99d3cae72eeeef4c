SPECIFICATION MCSpec
CONSTANTS
  Null = Null
  Processes = {p1, p2}
  Files = {manifest, report}
  MaxOps = 4
  Missing = Missing
  Torn = Torn
  EventIds = {1, 2}
  SigningKeys = {key}
  Scopes <- SmallScopes
  MaxTrail = 2
  MaxChanges = 4
  Absent = Absent
  EvalScenarios <- SmallScenarios
  LiveAnswers <- SmallAnswers
  MaxRuns = 3
SYMMETRY ArtifactSymmetry
CHECK_DEADLOCK FALSE
INVARIANTS
  VerifiedLogHoldsAcknowledged
  PublishedIsComplete
  AcknowledgedExportStays
  TrustedRootsHold
  PassedReplaysReproduce
PROPERTY
  PublishedStays
