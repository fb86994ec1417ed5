SPECIFICATION Spec
CONSTANTS
  Chars = {" ", "(", ")", "quote", "0", "7", "8", "9", "-", "+", "a", "."}
  MAX_TOKEN_LENGTH = 3
  IntMax = 7
  LongMax = 31
  MaxText = 5
INVARIANTS TypeOK TokensCoverText BufferInBounds IntsAreRead
PROPERTY EveryTextEnds
CHECK_DEADLOCK FALSE
