\* An error at the head of a request, inside a cluster.
SPECIFICATION Spec
CONSTANTS
  Csize = 2
  Database = 3
  Images <- MCImages
  MaxSectors = 3
INVARIANTS
  AlignedAfterHead
