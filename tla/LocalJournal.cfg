SPECIFICATION FairSpec
CONSTANTS
  Procs = {p1, p2}
  Events = {e1, e2}
  NoEvent = NoEvent
  MaxSequence = 2
  HostCrashes = TRUE
INVARIANTS
  TypeOK
  ChainIntact
  AcknowledgedIsDurable
  RefusedIsAbsent
  SnapshotIsCommitted
PROPERTIES
  TornTailBlocksAppends
  Implements
  CallsReturn
