SPECIFICATION MCSpec
CONSTANTS
  s1 = s1
  s2 = s2
  ask = ask
  token = token
  Null = Null
  Sessions = {s1, s2}
  Requests = {ask}
  Decisions <- SmallDecisions
  Artifacts <- SmallArtifacts
  MaxCalls = 2
  MaxLives = 3
  MaxTime = 1
  None = None
  Calls <- SmallCalls
  Expectations <- SmallExpectations
  CloudRecords <- SmallCloudRecords
  SensorRecords <- SmallSensorRecords
  Declarations <- SmallDeclarations
  MaxRecords = 2
  MaxDay = 2
  MaxAge = 1
SYMMETRY SessionSymmetry
CHECK_DEADLOCK FALSE
INVARIANTS
  ToolsRunOnEvidence
  RecordedInOrder
  ResultsAreRecorded
  ApprovalsAreSpentOnce
  DanglingParentsAreForeign
  DecisionsFollowTheRecords
