SPECIFICATION TxSpec
CONSTANTS
  TxDepth = 3
  TxTrigger = 1
  Lengths = {1, 4}
  MaxWritten = 14
INVARIANTS TxInv
PROPERTIES Answered
CHECK_DEADLOCK FALSE
