CONSTANTS
  Ids = {1, 2, 3}
  Sizes = {1, 2, 4}
  MaxCount = 2
  MaxBytes = 3
  MaxAge = 1
  MaxNow = 2
SPECIFICATION Spec
INVARIANTS
  MetadataConsistent
