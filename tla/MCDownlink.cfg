CONSTANTS
  DEPTH = 2
  COUNTER_MAX = 2
  SEQ_MODULUS = 7
  MSG_MODULUS = 5
  Contents <- McContents
  MaxBurst = 3
  MaxDropped = 2
SPECIFICATION DgSpec
INVARIANTS DlTypeOK GapsRevealLoss SequenceCountsInOrder
PROPERTY EmitIsRepeatedSend
