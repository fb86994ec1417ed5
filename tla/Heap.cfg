SPECIFICATION Spec
CONSTANTS
  Word = 8
  HeapSize = 104
  Sizes = {1, 8, 9}
INVARIANTS TypeOK ObjectsDisjoint BytesFit ScanOnHeaders
PROPERTIES ScanSkipsNothing CallsReturn
CHECK_DEADLOCK FALSE
