CONSTANTS
  U32 = 32
  FINE = 4
  MS_PER_S = 6
  TICK_MS = 5
  CommandedCoarse = {0, 5, 31}
SPECIFICATION MCSpec
INVARIANT HalTypeOK
PROPERTIES SetTimeReadsBack TimeAdvancesByOneTick
