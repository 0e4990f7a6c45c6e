SPECIFICATION FairSpec
CONSTANTS
  LogBlockNbr = 4
  CacheBlocks = 2
  Contents = {0, 1, 2, 3, 7, 8, 9}
  Blank <- MCBlank
  Junk = 9
  MaxErrors = 1
  Commands <- MCCommands
  MaxCommands = 2
  MaxTag = 8
  MaxFaults = 1
INVARIANT Inv
PROPERTIES ImplementsDisk AnswersHold Served
CHECK_DEADLOCK FALSE
