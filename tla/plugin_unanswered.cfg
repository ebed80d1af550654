CONSTANTS
  Handles = {h1}
  Callers = {c1}
  Bodies = {"ignored"}
  Ports = {"tty"}
  MaxMessages = 1
  MaxSetups = 0
  Grace = 1
  AnswerTime = 1
SPECIFICATION PromptSpec
PROPERTIES ShutdownEnds
CHECK_DEADLOCK FALSE
