SPECIFICATION SpiSpec
CONSTANTS
  Fifo = 3
  TxLevel = 1
  Limit = 5
  Chunk = 4
  BlockMax = 5
  PolledMax = 1
  SpiLengths = {1, 3, 5, 8, 10}
  MaxCalls = 3
  NoBlocks = TRUE
  Timeouts = TRUE
INVARIANTS SpiInv
PROPERTIES OnlyStaleTokens TransferEnds
CHECK_DEADLOCK FALSE
