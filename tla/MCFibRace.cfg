CONSTANTS
  a = a
  ab = ab
  n1 = n1
  Prefixes <- MCPrefixes
  NoPrefix = NoPrefix
  Faces <- MCFaces
  Names <- MCNames
  Path <- MCPath
  Crc <- MCCrc
  Length <- MCLength
  Starts <- MCStarts
  NumBuckets = 1
  BucketSize = 2
  MaxElements = 3
  Lcores = {1, 2}
  Readers = {1}
SPECIFICATION Spec
INVARIANTS TypeOK StableRoutesSeen AnswersAreRoutes FibsAgree
