CONSTANTS
  Workers = {w1}
  Ids = {d1, d2}
  Named = {}
  MaxSessions = 2
  MaxEvents = 1
  PollTime = 1
  SessionTimeout = 2
  CleanupDelay = 2
SPECIFICATION FairSpec
PROPERTIES Reclaimed AbandonedReclaimed
CHECK_DEADLOCK FALSE
