SPECIFICATION ServiceSpec
CONSTANTS
  k1 = k1
  k2 = k2
  k3 = k3
  x = x
  y = y
  Null = Null
  writer = writer
  capable = capable
  reader = reader
  Clients = {writer, capable, reader}
  MaxAttempts = 2
  Batches <- SmallBatches
  Legacy <- NoEntries
  Unhashable <- UnhashableRecords
  Malformed <- MalformedRecords
  Unpersistable <- NoRecords
  Unredactable <- UnredactableRecords
  RewrittenKeys = {}
  Grants <- SmallGrants
  Trusting <- TrustingBatches
CHECK_DEADLOCK FALSE
INVARIANT
  StatusIsTrue
PROPERTIES
  RebuiltCoversOutcomes
