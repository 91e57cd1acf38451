SPECIFICATION Spec
CONSTANTS
  Threads = {t1, t2}
  None = None
  Names = {actor, other}
  Appenders = {p1, p2}
  LevelNone = 1
  MaxLines = 2
  MaxCalls = 3
  ActorLog = actor
  Types = {type}
  Funcs = {f, g}
SYMMETRY Symmetry
INVARIANT DispatchTypeOK
INVARIANT LinesInOrder
INVARIANT CreatedOnce
PROPERTY HandledAsMeant
CHECK_DEADLOCK FALSE
