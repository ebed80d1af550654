CONSTANTS
  Workers = {w1, w2}
  Ids = {drawn}
  Named = {}
  MaxSessions = 1
  MaxEvents = 1
  PollTime = 1
  SessionTimeout = 2
  CleanupDelay = 2
SPECIFICATION Spec
INVARIANTS FoundDestroyedExists
CHECK_DEADLOCK FALSE
