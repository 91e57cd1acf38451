SPECIFICATION Spec
CONSTANTS
  Actors = {a1, a2}
  Clients = {c1, c2}
  Workers = {w1, w2}
  None = None
  QueueLimit = 2
  MaxSends = 4
SYMMETRY Symmetry
INVARIANT TypeOK
INVARIANT OneOwner
INVARIANT NoLostWakeup
INVARIANT NoneStranded
INVARIANT SenderIsCurrent
PROPERTY ImplementsActorModel
CHECK_DEADLOCK FALSE
