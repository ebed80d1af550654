------------------------- MODULE SerialPluginService -------------------------
(***************************************************************************)
(* The plugin implements CommandService: the queue is what waits, the      *)
(* message of the handler is the command in hand, and the service is open  *)
(* between the end of init and the first step of destroy.                  *)
(***************************************************************************)
EXTENDS SerialPlugin

Phase ==
  IF main \in {"init", "open", "start_watchdog", "start_handler"} THEN "starting"
  ELSE IF main = "up" THEN IF initialized = 1 THEN "open" ELSE "closed"
  ELSE IF main \in {"join_handler", "join_watchdog", "free"} THEN "closing"
  ELSE "closed"

Service == INSTANCE CommandService WITH
  phase     <- Phase,
  waiting   <- messages,
  inHand    <- current,
  fates     <- served,
  withdrawn <- {h \in Handles : gateway[h] = "detached"},
  unplugged <- line = "hungup"

\* Every behaviour of the threads is a behaviour of the service: nothing is
\* accepted before init is over or after destroy has begun, commands are
\* served in order, none twice, and every fate has its explanation.
ImplementsService == Service!Spec

\* With a board that answers, the service also keeps its promise to serve
\* what it accepted and to end once it closes.
ServiceIsLive == Service!FairSpec
=============================================================================
