CONSTANTS
  Messages <- LinkMessages
  FLIPS = 2
  BURST = 6
SPECIFICATION NlSpec
INVARIANTS CrcIsRemainder NoiseIsCaught HeaderRoundTrip TcDecodesAsSent TelemetryDecodes
CHECK_DEADLOCK FALSE
