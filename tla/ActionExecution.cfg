SPECIFICATION FairSpec
CONSTANTS
  None = None
  Sessions = {1, 2}
  Rows <- MCRows
  Requests <- MCRequests
  MaxActions = 2
  MaxShifts = 1
ACTION_CONSTRAINT FirstIsFirst
INVARIANTS TypeOK  AnswersAreFinal
PROPERTIES TimedActionsEnd
CHECK_DEADLOCK FALSE
