SPECIFICATION FairSpec
CONSTANTS
  Block = 2
  ImageLens = {1, 2, 3, 4}
  Chunks = {1, 2}
  Stores = {"flash", "spi", "file"}
  MaxDownloads = 2
  Patient = TRUE
INVARIANTS Inv NoFalseAlarm
PROPERTIES VerdictComes
CHECK_DEADLOCK FALSE
