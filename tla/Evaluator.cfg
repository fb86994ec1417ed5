SPECIFICATION Spec
CONSTANTS
  HandleFrameSize = 9
  Prims = {"list", "set-cdr!", "cons", "+", "if", "lambda", "define", "error", "definternal"}
  MaxArgs = 2
  MaxItems = 3
  MaxBody = 1
  FormNest = 2
  BodyNest = 1
INVARIANTS TypeOK NoAssertionFails HandlesOwned LevelIsDepth EvalStackLinked
PROPERTIES DefineOnlyAtToplevel FailedFormDefinesNothing
CHECK_DEADLOCK FALSE
