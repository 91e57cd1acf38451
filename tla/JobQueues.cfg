SPECIFICATION Spec
CONSTANTS
  Workers = {w1, w2}
  Callers = {c1, c2}
  Delays <- MCDelays
  Priorities <- MCPriorities
  Never = Never
  MaxTime = 2
  MaxAdds = 3
INVARIANT SomebodyWatches
PROPERTY TakenInOrder
CHECK_DEADLOCK FALSE
