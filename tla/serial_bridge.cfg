CONSTANTS
  PacketSize = 2
  MaxBytes = 8
  Newlines = {2, 5, 8}
  MaxResets = 1
  MaxMessages = 3
  AnswerPackets = 2
  LinePackets = {1, 2}
  EchoMax = 1
SPECIFICATION FairBridge
INVARIANTS BridgeTypeOK AnswersInTime BufferOwned TxHonest StreamIntact NothingTwice
PROPERTIES PortAlive RequestsExecuted
CHECK_DEADLOCK FALSE
