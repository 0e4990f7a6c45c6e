SPECIFICATION FairSpec
CONSTANTS
  Programs <- AllPrograms
  Repeats = {0, 2}
  Pulses = {0, 2}
  MaxCmds = 5
  MaxStarts = 2
INVARIANTS Inv DoneMeansDone PulsesExact
PROPERTIES Finishes
CHECK_DEADLOCK FALSE
