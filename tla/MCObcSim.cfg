CONSTANTS
  DEPTH = 6
  COUNTER_MAX = 0
  SEQ_MODULUS = 1
  MSG_MODULUS = 1
  U32 = 2
  FINE = 1
  MS_PER_S = 1
  TICK_MS = 1
  HK_PERIOD = 1
  Packets <- SimPackets
  RX_SIZE = 20
  SEGMENTS = {4, 31}
  SEND_ROOM = 1
  WINDOW = 24
  STRAY = 13
SPECIFICATION SimFairSpec
INVARIANTS InStep AlarmReachesGround
PROPERTIES NeverWedged HotUnitGoesSafe
