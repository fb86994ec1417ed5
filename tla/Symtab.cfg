SPECIFICATION Spec
CONSTANTS
  PrimNames = {"if", "lambda"}
  Names = {"NIL", "x", "y", "if"}
  MaxStrings = 10
INVARIANTS TypeOK OneCellPerName NamesAlive PayloadsFreedOrStolen
PROPERTY SymbolsStay
CHECK_DEADLOCK FALSE
