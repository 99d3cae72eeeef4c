SPECIFICATION ServiceSpec
CONSTANTS
  k1 = k1
  k2 = k2
  k3 = k3
  x = x
  y = y
  Null = Null
  writer = writer
  capable = capable
  reader = reader
  Clients = {writer, capable, reader}
  MaxAttempts = 2
  Batches <- SmallBatches
  Legacy <- NoEntries
  Unhashable <- NoRecords
  Malformed <- NoRecords
  Unpersistable <- NoRecords
  Unredactable <- NoRecords
  RewrittenKeys = {}
  Grants <- SmallGrants
  Trusting <- TrustingBatches
CHECK_DEADLOCK FALSE
INVARIANT CommitsAreReported
