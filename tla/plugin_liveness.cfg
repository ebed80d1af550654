CONSTANTS
  Handles = {h1}
  Callers = {c1, c2}
  Bodies = {"command", "garbage"}
  Ports = {"tty"}
  MaxMessages = 2
  MaxSetups = 1
  Grace = 2
  AnswerTime = 1
SPECIFICATION PromptSpec
INVARIANTS OneDonePerHangup
PROPERTIES EveryMessageServed ShutdownEnds SessionReclaimed ImplementsService ServiceIsLive
CHECK_DEADLOCK FALSE
