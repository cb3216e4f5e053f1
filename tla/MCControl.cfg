CONSTANTS
  a = a
  b = b
  empty = empty
  MaxLcores = 4
  Forwarding = {1, 2}
  Prefixes <- MCPrefixes
  NoPrefix = empty
  MaxPorts = 3
  Faces = {0, 1, 2, 3}
  PortMasks <- MCMasks
  Messages <- MCMessages
  None = None
  Hash <- MCHash
  Ways = 2
  Capacity = 3
  QueueSize = 2
SPECIFICATION FairSpec
INVARIANTS TypeOK RoutesLeadToPorts
PROPERTIES ImplementsReplicatedTable CommandsTaken
