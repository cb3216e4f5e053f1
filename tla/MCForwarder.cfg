CONSTANTS
  a = a
  b = b
  m1 = m1
  m2 = m2
  m3 = m3
  m4 = m4
  Names <- MCNames
  Faces <- MCFaces
  Mbufs <- MCFew
  NoMbuf = NoMbuf
  Hash <- MCApart
  Ways = 1
  Capacity = 1
  MaxBurst = 2
  NicRing = 1
  CounterMod = 8
SPECIFICATION FairSpec
INVARIANTS TypeOK NoDanglingMbuf ReferencesAccounted  PendingNotCached
PROPERTIES StatsBalance PendingIsForwarded BatchesLeave
VIEW NoCounters
