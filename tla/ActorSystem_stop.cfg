SPECIFICATION SystemSpec
CONSTANTS
  Actors = {a1}
  Clients = {c1}
  Workers = {w1}
  None = None
  QueueLimit = 0
  MaxSends = 1
  Names = {n1}
INVARIANT StopDestroys
CHECK_DEADLOCK FALSE
