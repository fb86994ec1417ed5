SPECIFICATION Spec
CONSTANTS
  Specials = {"define"}
  Primitives = {"length"}
  Internals = {"definternal", "deflibrary"}
  Others = {}
  ParamLists <- MCParamLists
  BoundNames = {"length", "define"}
  Kinds = {"NULL", "datum"}
  MaxCalls = 2
  MaxBindings = 2
  MaxOps = 3
INVARIANTS TypeOK SpecialFormsFixed DefineTakesEffect FreedOnce
PROPERTIES ClosuresKeepTheirMeaning ScopesSpec
CHECK_DEADLOCK FALSE
