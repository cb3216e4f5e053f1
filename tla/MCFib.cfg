CONSTANTS
  a = a
  ab = ab
  c = c
  d = d
  n1 = n1
  n2 = n2
  n3 = n3
  Prefixes <- MCPrefixes
  NoPrefix = NoPrefix
  Faces <- MCFaces
  Names <- MCNames
  Path <- MCPath
  Crc <- MCCrc
  Reach <- MCFits
  NumBuckets = 2
  BucketSize = 2
  MaxElements = 4
SPECIFICATION Spec
INVARIANTS TypeOK SlotsOwnEntries
PROPERTIES ImplementsRouteTable
VIEW LiveState
