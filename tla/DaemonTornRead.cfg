CONSTANTS
  NoSnapshot = NoSnapshot
  NoElement = NoElement
  Content <- MCContent
  OpLists <- MCOpLists
  ApplyOps <- MCApplyOps
  HasResync <- MCHasResync
  ResyncSignal <- MCResyncSignal
  DiffRevs <- MCDiffRevs
  Captures <- MCCaptures
  SnapshotRevs = {1}
  ChannelCapacity = 2
  MaxRecentDiffs = 2
  MaxEvents = 2
SPECIFICATION Spec
INVARIANTS
  CachedReadIsCommitted
CHECK_DEADLOCK FALSE
