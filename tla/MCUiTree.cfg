CONSTANTS
  NoElement = NoElement
  Windows = {1, 2}
  MaxNodes = 5
SPECIFICATION Spec
INVARIANTS
  TreeMatchesTable
CHECK_DEADLOCK FALSE
