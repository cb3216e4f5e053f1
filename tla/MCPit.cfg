CONSTANTS
  a = a
  b = b
  c = c
  d = d
  f1 = f1
  f2 = f2
  Names <- MCNames
  NoName = NoName
  Crc <- MCCrc
  Faces <- MCFaces
  NumBuckets = 2
  BucketSize = 2
  MaxElements = 2
  TTLs = {1, 2}
  MaxTime = 2
SPECIFICATION Spec
INVARIANTS TypeOK PendingOnce TableAgreesWithRing Consistent
PROPERTIES RefusedOnlyWhenFull PurgeIsExact PurgeBoundsLifetime ImplementsPendingInterests
SYMMETRY MCSymmetry
VIEW LiveState
