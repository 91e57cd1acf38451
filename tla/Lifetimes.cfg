SPECIFICATION FairSpec
CONSTANTS
  Actors = {a1, a2}
  Clients = {c1, c2}
  Workers = {w1}
  None = None
  MaxCalls = 3
INVARIANT LifeTypeOK
INVARIANT DeadStayDead
PROPERTY CallsReturn
PROPERTY StoppedAreFreed
CHECK_DEADLOCK FALSE
