CONSTANTS
  Workers = {w1, w2}
  Ids = {drawn, named}
  Named = {named}
  MaxSessions = 2
  MaxEvents = 1
  PollTime = 2
  SessionTimeout = 3
  CleanupDelay = 2
SPECIFICATION Spec
INVARIANTS TypeOK TableLive UserMemory PollProtects NothingLeaks
SYMMETRY Symmetry
CHECK_DEADLOCK FALSE
