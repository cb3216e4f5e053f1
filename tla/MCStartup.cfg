CONSTANTS
  MaxLcores = 4
  MaxSockets = 2
  MaxPorts = 3
  NicQueues = 2
  CoreMasks <- AllCoreMasks
  PortMasks <- AllPortMasks
SPECIFICATION Spec
INVARIANTS TypeOK NothingShared ServedWhenDense FacesArePorts NameHasOneLcore
CHECK_DEADLOCK FALSE
