\* Four cards; MCFileIo's layouts, requests of up to seven sectors anywhere.
SPECIFICATION MCSpec
CONSTANTS
  Cards <- MCCards
  Path <- MCPath
  Names <- MCNames
  PerFat <- MCPerFat
  PerSect <- MCPerSect
  CltblSize = 8
  MaxWritten = 2
  Csize = 2
  Database = 3
  Images <- MCImages
  MaxSectors = 7
INVARIANTS
  NothingMisplaced
  SuccessIsComplete
  OwnClustersOnly
  MountedIsImage
  OthersKept
PROPERTIES
  CallsReturn
