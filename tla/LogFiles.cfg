SPECIFICATION Spec
CONSTANTS
  Writers = {w1, w2}
  None = None
  Limit = 3
  Lengths = {1, 2, 4}
  MaxTime = 1
  MaxWrites = 4
INVARIANT LogTypeOK
INVARIANT FilesAreSegments
INVARIANT FilesInOrder
CHECK_DEADLOCK FALSE
