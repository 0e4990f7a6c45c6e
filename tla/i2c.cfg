SPECIFICATION FairSpec
CONSTANTS
  Lengths = {1, 2, 3}
  RegLens = {1, 2}
  Toms = 3
  MaxCalls = 2
INVARIANTS Inv BufferIsFree SuccessIsWhole
 
CHECK_DEADLOCK FALSE
