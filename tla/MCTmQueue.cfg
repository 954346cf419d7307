CONSTANTS
  DEPTH = 3
  MAX_SIZE = 2
  COUNTER_MAX = 2
  OCTETS = {0, 1}
  CAPACITIES = {0, 1, 2}
SPECIFICATION Spec
INVARIANTS TypeOK OccupiedSlotsHoldPackets
PROPERTY ImplementsBoundedFifo
