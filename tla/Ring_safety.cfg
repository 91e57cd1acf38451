SPECIFICATION Spec
CONSTANTS
  Producers = {p1, p2}
  Consumers = {c1, c2}
  Items = {x, y}
  None = None
  Length = 2
SYMMETRY Symmetry
INVARIANT RingTypeOK
INVARIANT WakeupsLostInTwoWays
PROPERTY OverrunOnlyInWrap
PROPERTY ImplementsBoundedQueue
CHECK_DEADLOCK FALSE
