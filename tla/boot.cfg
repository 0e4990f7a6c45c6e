SPECIFICATION MainFair
CONSTANTS
  Sectors = 3
  Blocks = 1
  Plain = {2}
  MaxCuts = 1
  MaxUpgrades = 1
  Packets = 1
  MaxDownloads = 1
  MaxLost = 1
  Prompt = TRUE
INVARIANTS Inv RunsWhole Downloads
PROPERTIES InstalledAnyway BadPackageHarmless LocalEnds
CHECK_DEADLOCK FALSE
