SPECIFICATION AudioSpec
CONSTANTS
  FileBlocks = 8
  Blanks = 0
  Ahead = 3
  BlockLen = 10
  DacLimit = 5
  DacChunk = 4
  Prompt = TRUE
  MaxPauses = 0
INVARIANTS FewRequests
CHECK_DEADLOCK FALSE
