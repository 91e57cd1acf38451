SPECIFICATION SystemSpec
CONSTANTS
  Actors = {a1, a2}
  Clients = {c1, c2}
  Workers = {w1, w2}
  None = None
  QueueLimit = 0
  MaxSends = 3
  Names = {n1, n2}
SYMMETRY Symmetry
INVARIANT SystemTypeOK
INVARIANT NamesMatch
INVARIANT QuietStopsAreSafe
PROPERTY StopEndsInflow
PROPERTY SystemImplementsActorModel
CHECK_DEADLOCK FALSE
