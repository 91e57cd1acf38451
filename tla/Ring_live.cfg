SPECIFICATION FairSpec
CONSTANTS
  Producers = {p1}
  Consumers = {c1, c2}
  Items = {x}
  None = None
  Length = 1
PROPERTY TimedCallsReturn
CHECK_DEADLOCK FALSE
