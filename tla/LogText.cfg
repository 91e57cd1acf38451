SPECIFICATION Spec
CONSTANTS
  Tags = {"T"}
  Plain = {"x"}
  Args <- ArgLists
  MaxLength = 5
  Parts = {"a", "b"}
  Cwd <- Home
  MaxParts = 6
INVARIANT LineAsMeant
INVARIANT PathAsMeant
CHECK_DEADLOCK FALSE
