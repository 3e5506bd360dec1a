SPECIFICATION Spec
CONSTANTS
  MaxMade = 3
  MaxCrashes = 2
  MaxOpen = 2
  MaxLost = 1
INVARIANTS
  FileBacksTheScreen
  InventedNumbersSaySo
PROPERTIES
  FileIsWhole
  ScreenSettles
