SPECIFICATION MCSpec
CONSTANTS
  k1 = k1
  k2 = k2
  k3 = k3
  k4 = k4
  k5 = k5
  k6 = k6
  x = x
  y = y
  Null = Null
  Clients = {c1, c2}
  MaxAttempts = 2
  MaxImports = 1
  Batches <- SmallBatches
  Legacy <- LegacyEntry
  Unhashable <- UnhashableRecords
  Malformed <- MalformedRecords
  Unpersistable <- UnpersistableRecords
  Unredactable <- UnredactableRecords
  RewrittenKeys = {}
CHECK_DEADLOCK FALSE
INVARIANT
  FailuresReportedPerRecord
