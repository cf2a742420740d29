SPECIFICATION FairSpec
CONSTANTS
  BasePages <- MCBasePages
  InjectedSize <- MCInjectedSize
  Symbol <- MCSymbol
  FsVersions <- MCFsVersions
INVARIANTS
  StackInUse
  HandleKnown
  PatchedAsListed
  HooksReach
  PathsRedirected
PROPERTY
  BootEnds
