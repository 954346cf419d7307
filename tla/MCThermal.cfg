CONSTANTS
  DEPTH = 2
  COUNTER_MAX = 1
  SEQ_MODULUS = 1
  MSG_MODULUS = 1
  U32 = 2
  FINE = 1
  MS_PER_S = 1
  TICK_MS = 1
  HK_PERIOD = 2
  Telecommands <- ThermalTcs
SPECIFICATION GSpec
INVARIANTS TypeOK SafeHoldsHeaterOff HousekeepingCoherent AlarmOncePerExcursion EventsTrackUnit
