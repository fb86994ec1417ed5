SPECIFICATION Spec
CONSTANTS
  HandleFrameSize = 5
  Prims = {"list", "set-car!", "set-cdr!", "cons", "length", "+", "*", "-", "=", "if", "lambda", "quote", "eq?", "define", "error", "definternal", "deflibrary", "dump_symtab", "dump_handles", "dump_roots"}
  MaxArgs = 1
  MaxItems = 2
  MaxBody = 2
  FormNest = 1
  BodyNest = 1
PROPERTIES EveryFormAnswered ReplSpec
CHECK_DEADLOCK FALSE
