CONSTANTS
  a = a
  b = b
  c = c
  d = d
  m1 = m1
  m2 = m2
  m3 = m3
  m4 = m4
  Names <- MCNames
  NoName = NoName
  Crc <- MCCrc
  Mbufs <- MCMbufs
  NoMbuf = NoMbuf
  NumBuckets = 2
  BucketSize = 2
  MaxElements = 3
SPECIFICATION Spec
INVARIANTS TypeOK TableAgreesWithRing
PROPERTIES FreedWhenForgotten ImplementsContentStore
SYMMETRY MCSymmetry
VIEW LiveState
