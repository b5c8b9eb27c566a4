SPECIFICATION FairSpec
CONSTANTS
  None = None
  Snapshots <- MCSnapshots
  Requests <- MCRequests
  MaxTime = 2
  MaxRev = 3
  Faults = TRUE
INVARIANTS TypeOK NoWakeUpLost WaitStaysOnTarget SelectionsAgree AnswersAreTrue
PROPERTIES EnrichmentKeepsMeaning WaitEnds
CHECK_DEADLOCK FALSE
