SPECIFICATION Spec
CONSTANTS
  MaxMade = 1
  MaxCrashes = 0
  MaxOpen = 2
  MaxLost = 0
PROPERTY SwitchTakesEffect
