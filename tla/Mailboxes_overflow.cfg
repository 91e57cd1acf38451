SPECIFICATION FairSpec
CONSTANTS
  Actors = {a1, a2}
  Clients = {c1, c2}
  Workers = {w1}
  None = None
  QueueLimit = 1
  MaxSends = 3
PROPERTY StrandedForGood
PROPERTY HandledOrLost
CHECK_DEADLOCK FALSE
