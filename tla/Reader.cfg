SPECIFICATION Spec
CONSTANTS
  Chars = {" ", "(", ")", "quote", "1", "a"}
  MAX_TOKEN_LENGTH = 2
  IntMax = 127
  LongMax = 1023
  HandleFrameSize = 13
  MaxText = 7
INVARIANTS TypeOK HandlesFollowLists FormIsItsText
PROPERTIES OwnListHandled EveryInputEnds
CHECK_DEADLOCK FALSE
