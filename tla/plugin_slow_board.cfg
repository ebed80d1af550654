CONSTANTS
  Handles = {h1}
  Callers = {c1}
  Bodies = {"command"}
  Ports = {"tty"}
  MaxMessages = 2
  MaxSetups = 0
  Grace = 2
  AnswerTime = 2
SPECIFICATION Spec
INVARIANTS HandlerMemory
CHECK_DEADLOCK FALSE
