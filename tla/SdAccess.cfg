\* Every bring-up of five cards, and requests of up to two sectors anywhere.
SPECIFICATION MCSpec
CONSTANTS
  Consoles <- MCConsoles
  SdLists <- MCSdLists
  NandLists <- MCNandLists
  Heap <- MCHeap
  MaxSectors = 2
INVARIANTS
  ReadyAgrees
  NeverOverdriven
  NotTooFast
  Delivered
  ListRestored
PROPERTIES
  EndSwitchesOff
  ImplementsDevice
