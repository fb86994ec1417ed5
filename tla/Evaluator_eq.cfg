SPECIFICATION Spec
CONSTANTS
  HandleFrameSize = 6
  Prims = {"eq?"}
  MaxArgs = 1
  MaxItems = 1
  MaxBody = 1
  FormNest = 1
  BodyNest = 1
INVARIANT EqHasTwoOperands
CHECK_DEADLOCK FALSE
