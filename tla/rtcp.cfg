CONSTANTS
  MaxBlocks = 3
  SeqModulus = 8
  BlpBits = 2
  MaxLost = 4
  MaxMantissa = 7
  Exponents = {3, 5, 6}
  WordBits = 6
  LongShift = "low bits"
  Bitrates = {0, 15, 40}
  DefaultBitrate = 32
  MinBitrate = 4
  CnameLength = 10
SPECIFICATION Spec
INVARIANTS PacketIsBlocks SsrcFixed CapHonest ReportComplete
CHECK_DEADLOCK FALSE
