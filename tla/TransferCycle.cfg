SPECIFICATION Spec
CONSTANTS
  MaxSectors = 5
  MaxBlocks = 2
  Wrap = 8
PROPERTY PowerCycleSwitchesOff
