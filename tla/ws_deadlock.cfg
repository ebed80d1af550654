CONSTANTS
  Clients = {c1}
  Workers = {w1}
  MaxSessions = 2
  MaxConnections = 1
  MaxEvents = 0
  MaxWaiting = 1
  SessionTimeout = 1
  CleanupDelay = 1
SPECIFICATION FairSpec
PROPERTIES ClientClosed
CHECK_DEADLOCK FALSE
