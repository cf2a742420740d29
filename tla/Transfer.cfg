\* Requests of up to three commands: the retries, and the abstract driver.
SPECIFICATION FairSpec
CONSTANTS
  MaxSectors = 5
  MaxBlocks = 2
  Wrap = 8
INVARIANTS
  InStep
  SuccessIsComplete
PROPERTIES
  NeverFaster
  ImplementsDevice
  CallsReturn
