\* Up to three blocks of two units, boundaries every three units: in the middle
\* of a block, at its end, and twice in a transfer.
SPECIFICATION FairSpec
CONSTANTS
  BlkSize = 2
  Boundary = 3
  MaxBlocks = 3
  Starts = {0, 1, 2}
INVARIANTS
  ResponseIsOwn
  DataInPlace
  SuccessIsComplete
  NoFalseFailure
  ClockGated
PROPERTIES
  CommandsReturn
