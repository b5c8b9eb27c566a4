CONSTANTS
  NoSnapshot = NoSnapshot
  NoElement = NoElement
  Content <- MCContent
  OpLists <- MCOpLists
  ApplyOps <- MCApplyOps
  HasResync <- MCHasResync
  ResyncSignal <- MCResyncSignal
  DiffRevs <- MCDiffRevs
  Captures <- MCCaptures
  SnapshotRevs = {1}
  ChannelCapacity = 2
  MaxRecentDiffs = 2
  MaxEvents = 3
SPECIFICATION Spec
INVARIANTS
  TypeOK
  ClientReplicaCoherent
  DeliveredDiffApplies
  CacheCoherentOutsideRecovery
  RecentDiffsChain
  DrainedClientCaughtUp
PROPERTIES
  RevisionsNeverDecrease
  ImplementsVersions
CHECK_DEADLOCK FALSE
