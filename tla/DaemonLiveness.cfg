CONSTANTS
  NoSnapshot = NoSnapshot
  NoElement = NoElement
  Content <- SafeContent
  OpLists <- SafeOps
  ApplyOps <- MCApplyOps
  HasResync <- MCHasResync
  ResyncSignal <- MCResyncSignal
  DiffRevs <- MCDiffRevs
  Captures <- MCCaptures
  SnapshotRevs = {1}
  ChannelCapacity = 1
  MaxRecentDiffs = 2
  MaxEvents = 2
SPECIFICATION FairSpec
INVARIANTS
  CachedReadIsCommitted
PROPERTIES
  ClientCatchesUp
  ClosedSessionQuiesces
CHECK_DEADLOCK FALSE
