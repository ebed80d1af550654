CONSTANTS
  PacketSize = 2
  MaxBytes = 4
  Newlines = {2, 4}
  MaxResets = 0
  MaxMessages = 2
  AnswerPackets = 2
  LinePackets = {1}
  EchoMax = 0
SPECIFICATION BridgeSpec
INVARIANTS AnswerOwn
CHECK_DEADLOCK FALSE
