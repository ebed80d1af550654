CONSTANTS
  Handles = {h1, h2}
  Callers = {c1, c2}
  Bodies = {"command", "garbage"}
  Ports = {"tty", "stdin", "error"}
  MaxMessages = 2
  MaxSetups = 0
  Grace = 2
  AnswerTime = 1
SPECIFICATION Spec
INVARIANTS TypeOK SessionTables CallerMemory HandlerMemory ServedInOrder QuietTeardown
SYMMETRY Symmetry
CHECK_DEADLOCK FALSE
