SPECIFICATION Spec
CONSTANTS
  Specials = {"define"}
  Primitives = {"length"}
  Internals = {"definternal", "deflibrary"}
  Others = {}
  ParamLists <- OneParam
  BoundNames = {"length", "define"}
  Kinds = {"NULL", "datum"}
  MaxCalls = 1
  MaxBindings = 1
  MaxOps = 2
INVARIANT EarlierOverrides
CHECK_DEADLOCK FALSE
