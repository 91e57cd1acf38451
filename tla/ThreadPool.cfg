SPECIFICATION FairSpec
CONSTANTS
  Workers = {w1, w2, w3}
  Callers = {c1}
  Checkers = {k1}
  Owner = owner
  Jobs = {j1, j2}
  None = None
  Min = 1
  Max = 2
  Threshold = 1
  QueueLimit = 2
INVARIANT PoolTypeOK
INVARIANT NoSleepOnWork
INVARIANT ExitsExact
PROPERTY JoinBlockedForGood
PROPERTY ImplementsJobPool
PROPERTY JoinReturns
PROPERTY JobsStart
CHECK_DEADLOCK FALSE
