CONSTANTS
  Clients = {c1}
  Workers = {w1}
  MaxSessions = 2
  MaxConnections = 1
  MaxEvents = 1
  MaxWaiting = 1
  SessionTimeout = 1
  CleanupDelay = 1
SPECIFICATION FairSpec
INVARIANTS TypeOK ClientSessionsLive WakePending ClosedForgotten
PROPERTIES TimedOutClosed ClosedReclaimed
CHECK_DEADLOCK FALSE
