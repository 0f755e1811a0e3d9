SPECIFICATION CodecSpec
CONSTANTS
  AtomLen = 4
  AtomCodes = {0, 15, 63}
  MaxString = 5
  ExpBits = 4
  SigBits = 3
  ByteBase = 4
  LenWidth = 2
CHECK_DEADLOCK FALSE
INVARIANT StringRoundTrip
