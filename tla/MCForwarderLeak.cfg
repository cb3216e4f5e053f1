CONSTANTS
  a = a
  b = b
  m1 = m1
  m2 = m2
  m3 = m3
  m4 = m4
  Names <- MCNames
  Faces <- MCFaces
  Mbufs <- MCMbufs
  NoMbuf = NoMbuf
  Hash <- MCHash
  Ways = 2
  Capacity = 2
  MaxBurst = 2
  NicRing = 2
  CounterMod = 8
SPECIFICATION Spec
INVARIANTS NoLeakedMbuf
SYMMETRY MCSymmetry
VIEW NoCounters
