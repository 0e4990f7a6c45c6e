SPECIFICATION AudioSpec
CONSTANTS
  FileBlocks = 5
  Blanks = 2
  Ahead = 3
  BlockLen = 10
  DacLimit = 5
  DacChunk = 4
  Prompt = TRUE
  MaxPauses = 1
INVARIANTS AudioInv
PROPERTIES PauseHolds AllPlayed
CHECK_DEADLOCK FALSE
