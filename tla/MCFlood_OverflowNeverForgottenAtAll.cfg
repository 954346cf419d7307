CONSTANTS
  DEPTH = 2
  COUNTER_MAX = 3
  SEQ_MODULUS = 1
  MSG_MODULUS = 1
  U32 = 2
  FINE = 1
  MS_PER_S = 1
  TICK_MS = 1
  HK_PERIOD = 2
  Telecommands <- FloodTcs
SPECIFICATION GSpec
INVARIANT OverflowNeverForgottenAtAll
