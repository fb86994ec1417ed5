SPECIFICATION Spec
CONSTANTS
  Pairs = {c1, c2, c3, c4}
  MaxTarget = 3
INVARIANTS TypeOK LengthIsRight ArityTestIsRight
PROPERTY Returns
CHECK_DEADLOCK FALSE
