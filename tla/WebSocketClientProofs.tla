------------------------- MODULE WebSocketClientProofs -------------------------
(***************************************************************************)
(* Proofs about the gateway's WebSocket clients, for any number of clients,*)
(* threads, sessions and events: types, wake-ups, closed clients, and the  *)
(* sessions that an open client's callback walks.                          *)
(***************************************************************************)
EXTENDS WebSocketClient, TLAPS

\* A closed client is in old_wss, one that is closing gets there first, and
\* nobody works for a client that has never connected.
ClosedInv ==
  /\ \A c \in Clients : state[c] = "closed" => c \in old_wss
  /\ \A c \in Clients : c \in old_wss /\ state[c] = "open" =>
       service.at = "cleanup" /\ service.client = c
  /\ service.at # "idle" => state[service.client] = "open"
  /\ service.at = "cleanup" => service.client \in old_wss
  /\ \A w \in Workers : worker[w].at # "idle" => state[worker[w].client] # "none"
  /\ \A s \in Sessions : \A c \in source[s] : state[c] # "none"
  /\ ClosedForgotten

Names(w, s) ==
  /\ worker[w].at \in {"source", "adopt", "respond", "doom", "forget", "forgetting", "flag",
                       "remove"}
  /\ worker[w].session = s

\* A session that nobody has heard of yet.
Fresh(s) ==
  /\ destroy[s] = 0 /\ timeout[s] = 0 /\ idle[s] = 0 /\ messages[s] = 0
  /\ timer[s] = NoTimer /\ \A c \in Clients : s \notin mine[c]

\* A session has one thread that creates or destroys it at a time, and is
\* fresh until its client has it.
NamingInv ==
  /\ \A s \in Sessions, v, w \in Workers : Names(v, s) /\ Names(w, s) => v = w
  /\ \A s \in Sessions, w \in Workers : Names(w, s) => memory[s] # "none"
  /\ \A s \in Sessions : memory[s] = "none" => Fresh(s) /\ s \notin table /\ source[s] = {}
  /\ \A s \in Sessions, w \in Workers : Names(w, s) =>
       /\ worker[w].at \in {"source", "adopt"} =>
            Fresh(s) /\ memory[s] = "live" /\ (watchdog.at # "idle" => watchdog.session # s)
       /\ worker[w].at = "source" => source[s] = {}
       /\ worker[w].at = "adopt" => source[s] = {worker[w].client}
       /\ worker[w].at \in {"doom", "forget", "forgetting"} =>
            destroy[s] = 0 /\ source[s] = {worker[w].client}
       /\ worker[w].at \in {"doom", "forget", "forgetting", "flag", "remove"} =>
            timer[s] \in {NoTimer, 0}
       /\ worker[w].at = "remove" => destroy[s] = 1

\* What is in the table has no timer, and what the watchdog is about to take
\* out of it is in it.
TableInv ==
  /\ \A s \in table : timer[s] = NoTimer /\ timeout[s] = 0 /\ memory[s] = "live"
  /\ \A s \in table : destroy[s] = 1 => \E w \in Workers : Names(w, s) /\ worker[w].at = "remove"
  /\ watchdog.at # "idle" => watchdog.session \in table

Attended(c) == writable[c] \/ (service.at # "idle" /\ service.client = c)
Cleaning(c) == service.at = "cleanup" /\ service.client = c

\* What a client has is its own.
OwnInv == \A c \in Clients : \A s \in mine[c] : destroy[s] = 0 => source[s] = {c}

\* A timer for what an open client has runs only while a callback for the
\* client is due or under way, and is not due before that: or the callback has
\* missed the session.
MineInv == \A c \in Clients : state[c] = "open" => \A s \in mine[c] : s \notin missed =>
  /\ memory[s] = "live" /\ timer[s] # CleanupDelay
  /\ destroy[s] = 1 => Cleaning(c)
  /\ \A w \in Workers : Names(w, s) /\ worker[w].at \in {"flag", "remove"} => Cleaning(c)
  /\ timer[s] # NoTimer => Attended(c)
  /\ timer[s] # NoTimer /\ destroy[s] = 0 => timeout[s] = 1
  /\ watchdog.at = "retire" /\ watchdog.session = s => Attended(c)

-----------------------------------------------------------------------------
(***************************************************************************)
(* What the threads are doing, and what they may turn to.                  *)
(***************************************************************************)
LEMMA WorkerFields ==
  ASSUME TypeOK, NEW w \in Workers, worker[w].at # "idle"
  PROVE  /\ worker[w].at \in Steps /\ worker[w].client \in Clients
         /\ worker[w].number \in Nat /\ worker[w].session \in 0..MaxSessions
BY DEF TypeOK, WorkerStates, Idle

LEMMA WorkerIdle ==
  ASSUME TypeOK, NEW w \in Workers
  PROVE  worker[w] = Idle <=> worker[w].at = "idle"
BY SMTT(40) DEF TypeOK, WorkerStates, Idle, Steps

LEMMA ServiceFields ==
  ASSUME TypeOK, service.at # "idle"
  PROVE  service.at \in {"append", "cleanup", "timeout"} /\ service.client \in Clients
BY DEF TypeOK, ServiceStates, Idle

LEMMA ServiceIdle == TypeOK => (service = Idle <=> service.at = "idle")
BY DEF TypeOK, ServiceStates, Idle

LEMMA WatchdogFields ==
  ASSUME TypeOK, watchdog.at # "idle"
  PROVE  watchdog.at \in {"expired", "wake", "retire"} /\ watchdog.session \in Sessions
BY DEF TypeOK, WatchdogStates, Idle

LEMMA WatchdogIdle == TypeOK => (watchdog = Idle <=> watchdog.at = "idle")
BY DEF TypeOK, WatchdogStates, Idle

LEMMA GotoTyped ==
  ASSUME TypeOK, NEW w \in Workers, NEW at \in Steps, NEW c \in Clients, NEW n \in Nat,
         NEW s \in 0..MaxSessions, Goto(w, at, c, n, s)
  PROVE  worker' \in [Workers -> WorkerStates]
<1>1. [at |-> at, client |-> c, number |-> n, session |-> s] \in WorkerStates
  BY DEF WorkerStates
<1> QED
  BY <1>1 DEF TypeOK, Goto

LEMMA ReturnTyped ==
  ASSUME TypeOK, NEW w \in Workers, Return(w)
  PROVE  worker' \in [Workers -> WorkerStates]
<1>1. Idle \in WorkerStates
  BY DEF WorkerStates
<1> QED
  BY <1>1 DEF TypeOK, Return

\* Every reachable state is well typed.
LEMMA TypeNext == TypeOK /\ [Next]_vars => TypeOK'
<1> SUFFICES ASSUME TypeOK, [Next]_vars PROVE TypeOK'
  OBVIOUS
<1> USE ConstantsAssumption DEF NoTimer
<1>1. ASSUME NEW c \in Clients, Established(c) PROVE TypeOK'
  BY <1>1 DEF Established, session, client, TypeOK
<1>2. ASSUME NEW c \in Clients, NEW w \in Workers, Receive(c, w) PROVE TypeOK'
  <2>1. opened[c] \in Nat /\ 0 \in 0..MaxSessions /\ "task" \in Steps
    BY DEF TypeOK, Steps
  <2>2. worker' \in [Workers -> WorkerStates]
    BY <1>2, <2>1, GotoTyped DEF Receive
  <2> QED
    BY <1>2, <2>2 DEF Receive, TypeOK, session, client
<1>3. ASSUME NEW c \in Clients, WriteResponse(c) PROVE TypeOK'
  BY <1>3 DEF WriteResponse, CalledBack, session, client, TypeOK
<1>4. ASSUME NEW c \in Clients, WriteEvent(c) PROVE TypeOK'
  BY <1>4 DEF WriteEvent, CalledBack, Walked, session, client, TypeOK
<1>5. ASSUME NEW c \in Clients, WriteNothing(c) PROVE TypeOK'
  BY <1>5 DEF WriteNothing, CalledBack, Walked, session, client, TypeOK
<1>6. ASSUME NEW c \in Clients, WalkTimedOut(c) PROVE TypeOK'
  <2>1. service' \in ServiceStates
    BY <1>6 DEF WalkTimedOut, Walked, ServiceStates, TypeOK
  <2> QED
    BY <1>6, <2>1 DEF WalkTimedOut, TypeOK, session, client
<1>7. ASSUME NEW c \in Clients, CloseTimedOut(c) PROVE TypeOK'
  <2>1. service' \in ServiceStates
    BY <1>7 DEF CloseTimedOut, ServiceStates
  <2> QED
    BY <1>7, <2>1 DEF CloseTimedOut, TypeOK, session, client, Expiring
<1>8. ASSUME NEW c \in Clients, Closed(c) PROVE TypeOK'
  <2>1. service' \in ServiceStates
    BY <1>8 DEF Closed, ServiceStates
  <2> QED
    BY <1>8, <2>1 DEF Closed, TypeOK, session, client
<1>9. ASSUME NEW c \in Clients, ClosedAppend(c) PROVE TypeOK'
  <2>1. service' \in ServiceStates
    BY <1>9 DEF ClosedAppend, ServiceStates
  <2> QED
    BY <1>9, <2>1 DEF ClosedAppend, TypeOK, session, client
<1>10. ASSUME NEW c \in Clients, ClosedCleanup(c) PROVE TypeOK'
  <2>1. service' \in ServiceStates
    BY <1>10 DEF ClosedCleanup, ServiceStates
  <2> QED
    BY <1>10, <2>1 DEF ClosedCleanup, TypeOK, session, client, Expiring
<1>11. ASSUME NEW w \in Workers, TaskDropped(w) PROVE TypeOK'
  <2>1. worker' \in [Workers -> WorkerStates]
    BY <1>11, ReturnTyped DEF TaskDropped, At, Steps, Sessions
  <2> QED
    BY <1>11, <2>1 DEF TaskDropped, At, TypeOK, session, client
<1>12. ASSUME NEW w \in Workers, NEW c \in Clients, TaskCreate(w, c) PROVE TypeOK'
  <2>1. worker' \in [Workers -> WorkerStates]
    BY <1>12, GotoTyped, WorkerFields DEF TaskCreate, At, Steps, Sessions
  <2> QED
    BY <1>12, <2>1 DEF TaskCreate, At, TypeOK, session, client
<1>13. ASSUME NEW w \in Workers, NEW c \in Clients, CreateInsert(w, c) PROVE TypeOK'
  <2>1. PICK s \in Sessions :
          /\ worker[w].at = "create" /\ Goto(w, "source", c, worker[w].number, s)
          /\ memory' = [memory EXCEPT ![s] = "live"]
          /\ number' = [number EXCEPT ![s] = worker[w].number] /\ table' = table \cup {s}
    BY <1>13 DEF CreateInsert, At
  <2>2. worker[w].number \in Nat /\ s \in 0..MaxSessions /\ "source" \in Steps
    BY <2>1, WorkerFields DEF Steps, Sessions
  <2>3. worker' \in [Workers -> WorkerStates]
    BY <2>1, <2>2, GotoTyped
  <2> QED
    BY <1>13, <2>1, <2>2, <2>3 DEF CreateInsert, TypeOK, client
<1>14. ASSUME NEW w \in Workers, NEW c \in Clients, CreateSource(w, c) PROVE TypeOK'
  <2>1. worker' \in [Workers -> WorkerStates]
    BY <1>14, GotoTyped, WorkerFields DEF CreateSource, At, Steps, Sessions
  <2> QED
    BY <1>14, <2>1 DEF CreateSource, At, TypeOK, session, client
<1>15. ASSUME NEW w \in Workers, NEW c \in Clients, CreateAdopt(w, c) PROVE TypeOK'
  <2>1. worker' \in [Workers -> WorkerStates]
    BY <1>15, GotoTyped, WorkerFields DEF CreateAdopt, At, Steps, Sessions
  <2> QED
    BY <1>15, <2>1 DEF CreateAdopt, At, TypeOK, session, client
<1>16. ASSUME NEW w \in Workers, NEW c \in Clients, TaskOther(w, c) PROVE TypeOK'
  <2>1. worker' \in [Workers -> WorkerStates]
    BY <1>16, GotoTyped, WorkerFields DEF TaskOther, At, Steps, Sessions
  <2> QED
    BY <1>16, <2>1 DEF TaskOther, At, TypeOK, session, client
<1>17. ASSUME NEW w \in Workers, NEW c \in Clients, TaskRequest(w, c) PROVE TypeOK'
  <2>1. worker' \in [Workers -> WorkerStates]
    BY <1>17, GotoTyped, WorkerFields DEF TaskRequest, At, Steps, Sessions
  <2> QED
    BY <1>17, <2>1 DEF TaskRequest, At, TypeOK, session, client
<1>18. ASSUME NEW w \in Workers, NEW c \in Clients, DestroyForget(w, c) PROVE TypeOK'
  <2>1. worker' \in [Workers -> WorkerStates]
    BY <1>18, GotoTyped, WorkerFields DEF DestroyForget, At, Steps, Sessions
  <2> QED
    BY <1>18, <2>1 DEF DestroyForget, At, TypeOK, session, client
<1>19. ASSUME NEW w \in Workers, NEW c \in Clients, DestroyForgotten(w, c) PROVE TypeOK'
  <2>1. worker' \in [Workers -> WorkerStates]
    BY <1>19, GotoTyped, WorkerFields DEF DestroyForgotten, At, Steps, Sessions
  <2> QED
    BY <1>19, <2>1 DEF DestroyForgotten, At, TypeOK, session, client
<1>20. ASSUME NEW w \in Workers, NEW c \in Clients, DestroyFlag(w, c) PROVE TypeOK'
  <2>1. worker' \in [Workers -> WorkerStates]
    BY <1>20, GotoTyped, WorkerFields DEF DestroyFlag, At, Steps, Sessions
  <2> QED
    BY <1>20, <2>1 DEF DestroyFlag, At, TypeOK, session, client
<1>21. ASSUME NEW w \in Workers, NEW c \in Clients, DestroyRemove(w, c) PROVE TypeOK'
  <2>1. worker' \in [Workers -> WorkerStates]
    BY <1>21, GotoTyped, WorkerFields DEF DestroyRemove, At, Steps, Sessions
  <2> QED
    BY <1>21, <2>1 DEF DestroyRemove, At, TypeOK, session, client, Timed
<1>22. ASSUME NEW w \in Workers, NEW c \in Clients, Respond(w, c) PROVE TypeOK'
  <2>1. worker' \in [Workers -> WorkerStates]
    BY <1>22, GotoTyped, WorkerFields, ReturnTyped DEF Respond, At, Steps, Sessions
  <2> QED
    BY <1>22, <2>1 DEF Respond, At, TypeOK, session, client
<1>23. ASSUME NEW w \in Workers, NEW c \in Clients, Wake(w, c) PROVE TypeOK'
  <2>1. worker' \in [Workers -> WorkerStates]
    BY <1>23, ReturnTyped DEF Wake, At, Steps, Sessions
  <2> QED
    BY <1>23, <2>1 DEF Wake, At, TypeOK, session, client
<1>24. ASSUME NEW w \in Workers, PushEvent(w) PROVE TypeOK'
  <2>1. PICK s \in Sessions, c \in Clients :
          Goto(w, "event", c, number[s], s) /\ messages' = [messages EXCEPT ![s] = messages[s] + 1]
    BY <1>24 DEF PushEvent
  <2>2. number[s] \in Nat /\ s \in 0..MaxSessions /\ "event" \in Steps
    BY DEF TypeOK, Steps, Sessions
  <2>3. worker' \in [Workers -> WorkerStates]
    BY <2>1, <2>2, GotoTyped
  <2> QED
    BY <1>24, <2>1, <2>3 DEF PushEvent, TypeOK, client
<1>25. ASSUME NEW w \in Workers, NEW c \in Clients, PushWake(w, c) PROVE TypeOK'
  <2>1. worker' \in [Workers -> WorkerStates]
    BY <1>25, GotoTyped, WorkerFields, ReturnTyped DEF PushWake, At, Steps, Sessions
  <2> QED
    BY <1>25, <2>1 DEF PushWake, At, TypeOK, session, client
<1>26. CASE Expire
  <2>1. watchdog' \in WatchdogStates
    BY <1>26 DEF Expire, WatchdogStates, TypeOK
  <2> QED
    BY <1>26, <2>1 DEF Expire, TypeOK, session, client
<1>27. ASSUME NEW c \in Clients, ExpireLock(c) PROVE TypeOK'
  <2>1. watchdog' \in WatchdogStates
    <4>1. watchdog \in [at : {"expired", "wake", "retire"}, session : Sessions]
      BY <1>27 DEF ExpireLock, TypeOK, WatchdogStates, Idle
    <4> QED
      BY <1>27, <4>1 DEF ExpireLock, WatchdogStates
  <2> QED
    BY <1>27, <2>1 DEF ExpireLock, TypeOK, session, client
<1>28. ASSUME NEW c \in Clients, ExpireWake(c) PROVE TypeOK'
  <2>1. watchdog' \in WatchdogStates
    <4>1. watchdog \in [at : {"expired", "wake", "retire"}, session : Sessions]
      BY <1>28 DEF ExpireWake, TypeOK, WatchdogStates, Idle
    <4> QED
      BY <1>28, <4>1 DEF ExpireWake, WatchdogStates
  <2> QED
    BY <1>28, <2>1 DEF ExpireWake, TypeOK, session, client
<1>29. CASE Retire
  <2>1. watchdog' \in WatchdogStates /\ watchdog.session \in Sessions
    BY <1>29, WatchdogFields DEF Retire, WatchdogStates
  <2> QED
    BY <1>29, <2>1 DEF Retire, Timed, TypeOK, client
<1>30. CASE Cleanup
  BY <1>30 DEF Cleanup, session, client, TypeOK
<1>31. CASE Tick
  BY <1>31 DEF Tick, Older, session, client, TypeOK
<1>33. ASSUME NEW c \in Clients, Refuse(c) PROVE TypeOK'
  BY <1>33 DEF Refuse, session, client, TypeOK
<1>34. ASSUME NEW c \in Clients, WalkFreed(c) PROVE TypeOK'
  <2>1. service' \in ServiceStates
    BY <1>34 DEF WalkFreed, ServiceStates, TypeOK
  <2> QED
    BY <1>34, <2>1 DEF WalkFreed, TypeOK, session, client
<1>35. ASSUME NEW w \in Workers, NEW c \in Clients, RequestFind(w, c) PROVE TypeOK'
  <2>1. worker' \in [Workers -> WorkerStates]
    BY <1>35, GotoTyped, WorkerFields DEF RequestFind, Found, At, Steps, Sessions
  <2> QED
    BY <1>35, <2>1 DEF RequestFind, Found, At, TypeOK, session, client
<1>36. ASSUME NEW w \in Workers, NEW c \in Clients, RequestTouch(w, c) PROVE TypeOK'
  <2>1. worker' \in [Workers -> WorkerStates]
    BY <1>36, GotoTyped, WorkerFields DEF RequestTouch, At, Steps, Sessions
  <2> QED
    BY <1>36, <2>1 DEF RequestTouch, At, TypeOK, client
<1>32. CASE UNCHANGED vars
  BY <1>32 DEF vars, session, client, TypeOK
<1> QED
  BY <1>1, <1>2, <1>3, <1>4, <1>5, <1>6, <1>7, <1>8, <1>9, <1>10, <1>11,
     <1>12, <1>13, <1>14, <1>15, <1>16, <1>17, <1>18, <1>19, <1>20, <1>21,
     <1>22, <1>23, <1>24, <1>25, <1>26, <1>27, <1>28, <1>29, <1>30, <1>31,
     <1>32, <1>33, <1>34, <1>35, <1>36
  DEF Next, Callback, Closing, Connection, Work, Watchdog

\* Every callback of a client, every task of the pool, the watchdog and its
\* timers keep the types, for any number of clients, threads and sessions.
THEOREM TypeCorrect == Spec => []TypeOK
<1>1. Init => TypeOK
  BY ConstantsAssumption DEF Init, TypeOK, NoTimer, ServiceStates, WorkerStates, WatchdogStates
<1> QED
  BY <1>1, TypeNext, PTL DEF Spec

\* Responses of closed clients: a client is in old_wss before it is closed, and
\* stays there until it is opened again.
LEMMA ClosedNext == TypeOK /\ ClosedInv /\ [Next]_vars => ClosedInv'
<1> SUFFICES ASSUME TypeOK, ClosedInv, [Next]_vars PROVE ClosedInv'
  OBVIOUS
<1> USE DEF ClosedInv, ClosedForgotten, Idle
<1>1. ASSUME NEW c \in Clients, Established(c) PROVE ClosedInv'
  BY <1>1 DEF Established, session, client, TypeOK
<1>2. ASSUME NEW c \in Clients, NEW w \in Workers, Receive(c, w) PROVE ClosedInv'
  BY <1>2 DEF Receive, Goto, session, client, TypeOK
<1>3. ASSUME NEW c \in Clients, WriteResponse(c) PROVE ClosedInv'
  BY <1>3 DEF WriteResponse, CalledBack, session, client, TypeOK
<1>4. ASSUME NEW c \in Clients, WriteEvent(c) PROVE ClosedInv'
  BY <1>4 DEF WriteEvent, CalledBack, Walked, session, client, TypeOK
<1>5. ASSUME NEW c \in Clients, WriteNothing(c) PROVE ClosedInv'
  BY <1>5 DEF WriteNothing, CalledBack, Walked, session, client, TypeOK
<1>6. ASSUME NEW c \in Clients, WalkTimedOut(c) PROVE ClosedInv'
  BY <1>6 DEF WalkTimedOut, CalledBack, Walked, session, client, TypeOK
<1>7. ASSUME NEW c \in Clients, CloseTimedOut(c) PROVE ClosedInv'
  BY <1>7 DEF CloseTimedOut, Expiring, session, client, TypeOK
<1>8. ASSUME NEW c \in Clients, Closed(c) PROVE ClosedInv'
  BY <1>8 DEF Closed, session, client, TypeOK
<1>9. ASSUME NEW c \in Clients, ClosedAppend(c) PROVE ClosedInv'
  BY <1>9 DEF ClosedAppend, session, client, TypeOK
<1>10. ASSUME NEW c \in Clients, ClosedCleanup(c) PROVE ClosedInv'
  BY <1>10 DEF ClosedCleanup, Expiring, session, client, TypeOK
<1>11. ASSUME NEW w \in Workers, TaskDropped(w) PROVE ClosedInv'
  BY <1>11 DEF TaskDropped, Return, session, client, TypeOK
<1>12. ASSUME NEW w \in Workers, NEW c \in Clients, TaskCreate(w, c) PROVE ClosedInv'
  BY <1>12 DEF TaskCreate, Goto, session, client, TypeOK
<1>13. ASSUME NEW w \in Workers, NEW c \in Clients, CreateInsert(w, c) PROVE ClosedInv'
  BY <1>13 DEF CreateInsert, At, Goto, session, client, TypeOK
<1>14. ASSUME NEW w \in Workers, NEW c \in Clients, CreateSource(w, c) PROVE ClosedInv'
  BY <1>14 DEF CreateSource, At, Goto, session, client, TypeOK
<1>15. ASSUME NEW w \in Workers, NEW c \in Clients, CreateAdopt(w, c) PROVE ClosedInv'
  BY <1>15 DEF CreateAdopt, At, Goto, session, client, TypeOK
<1>16. ASSUME NEW w \in Workers, NEW c \in Clients, TaskOther(w, c) PROVE ClosedInv'
  BY <1>16 DEF TaskOther, Goto, session, client, TypeOK
<1>17. ASSUME NEW w \in Workers, NEW c \in Clients, TaskRequest(w, c) PROVE ClosedInv'
  BY <1>17 DEF TaskRequest, Goto, session, client, TypeOK
<1>18. ASSUME NEW w \in Workers, NEW c \in Clients, DestroyForget(w, c) PROVE ClosedInv'
  BY <1>18 DEF DestroyForget, At, Goto, session, client, TypeOK
<1>19. ASSUME NEW w \in Workers, NEW c \in Clients, DestroyForgotten(w, c) PROVE ClosedInv'
  BY <1>19 DEF DestroyForgotten, At, Goto, session, client, TypeOK
<1>20. ASSUME NEW w \in Workers, NEW c \in Clients, DestroyFlag(w, c) PROVE ClosedInv'
  BY <1>20 DEF DestroyFlag, At, Goto, session, client, TypeOK
<1>21. ASSUME NEW w \in Workers, NEW c \in Clients, DestroyRemove(w, c) PROVE ClosedInv'
  BY <1>21 DEF DestroyRemove, At, Goto, Timed, session, client, TypeOK
<1>22. ASSUME NEW w \in Workers, NEW c \in Clients, Respond(w, c) PROVE ClosedInv'
  BY <1>22 DEF Respond, At, Goto, Return, session, client, TypeOK
<1>23. ASSUME NEW w \in Workers, NEW c \in Clients, Wake(w, c) PROVE ClosedInv'
  BY <1>23 DEF Wake, At, Return, session, client, TypeOK
<1>24. ASSUME NEW w \in Workers, PushEvent(w) PROVE ClosedInv'
  BY <1>24 DEF PushEvent, Goto, Creating, session, client, TypeOK
<1>25. ASSUME NEW w \in Workers, NEW c \in Clients, PushWake(w, c) PROVE ClosedInv'
  BY <1>25 DEF PushWake, At, Goto, Return, session, client, TypeOK
<1>26. CASE Expire
  BY <1>26 DEF Expire, session, client, TypeOK
<1>27. ASSUME NEW c \in Clients, ExpireLock(c) PROVE ClosedInv'
  BY <1>27 DEF ExpireLock, session, client, TypeOK
<1>28. ASSUME NEW c \in Clients, ExpireWake(c) PROVE ClosedInv'
  BY <1>28 DEF ExpireWake, session, client, TypeOK
<1>29. CASE Retire
  BY <1>29 DEF Retire, Timed, session, client, TypeOK
<1>30. CASE Cleanup
  BY <1>30 DEF Cleanup, session, client, TypeOK
<1>31. CASE Tick
  BY <1>31 DEF Tick, Older, session, client, TypeOK
<1>33. ASSUME NEW c \in Clients, Refuse(c) PROVE ClosedInv'
  BY <1>33 DEF Refuse, session, client, TypeOK
<1>34. ASSUME NEW c \in Clients, WalkFreed(c) PROVE ClosedInv'
  BY <1>34 DEF WalkFreed, CalledBack, session, client, TypeOK
<1>35. ASSUME NEW w \in Workers, NEW c \in Clients, RequestFind(w, c) PROVE ClosedInv'
  BY <1>35 DEF RequestFind, Found, Creating, Destroying, At, Goto, session, client, TypeOK
<1>36. ASSUME NEW w \in Workers, NEW c \in Clients, RequestTouch(w, c) PROVE ClosedInv'
  BY <1>36 DEF RequestTouch, At, Goto, session, client, TypeOK
<1>32. CASE UNCHANGED vars
  BY <1>32 DEF vars, session, client, TypeOK
<1> QED
  BY <1>1, <1>2, <1>3, <1>4, <1>5, <1>6, <1>7, <1>8, <1>9, <1>10, <1>11,
     <1>12, <1>13, <1>14, <1>15, <1>16, <1>17, <1>18, <1>19, <1>20, <1>21,
     <1>22, <1>23, <1>24, <1>25, <1>26, <1>27, <1>28, <1>29, <1>30, <1>31,
     <1>32, <1>33, <1>34, <1>35, <1>36
  DEF Next, Callback, Closing, Connection, Work, Watchdog

\* Names and tables: a session is fresh until its client has it.
LEMMA NamingNext == TypeOK /\ NamingInv /\ TableInv /\ [Next]_vars => NamingInv'
<1> SUFFICES ASSUME TypeOK, NamingInv, TableInv, [Next]_vars PROVE NamingInv'
  OBVIOUS
<1> USE ConstantsAssumption DEF NamingInv, TableInv, Idle, NoTimer
<1>1. ASSUME NEW c \in Clients, Established(c) PROVE NamingInv'
  BY <1>1 DEF Established, session, client, TypeOK, Names, Fresh
<1>2. ASSUME NEW c \in Clients, NEW w \in Workers, Receive(c, w) PROVE NamingInv'
  BY <1>2 DEF Receive, Goto, session, client, TypeOK, Names, Fresh
<1>3. ASSUME NEW c \in Clients, WriteResponse(c) PROVE NamingInv'
  BY <1>3 DEF WriteResponse, CalledBack, session, client, TypeOK, Names, Fresh
<1>4. ASSUME NEW c \in Clients, WriteEvent(c) PROVE NamingInv'
  BY <1>4 DEF WriteEvent, CalledBack, Walked, session, client, TypeOK, Names, Fresh
<1>5. ASSUME NEW c \in Clients, WriteNothing(c) PROVE NamingInv'
  BY <1>5 DEF WriteNothing, CalledBack, Walked, session, client, TypeOK, Names, Fresh
<1>6. ASSUME NEW c \in Clients, WalkTimedOut(c) PROVE NamingInv'
  BY <1>6 DEF WalkTimedOut, CalledBack, Walked, session, client, TypeOK, Names, Fresh
<1>7. ASSUME NEW c \in Clients, CloseTimedOut(c) PROVE NamingInv'
  BY <1>7 DEF CloseTimedOut, Expiring, session, client, TypeOK, Names, Fresh
<1>8. ASSUME NEW c \in Clients, Closed(c) PROVE NamingInv'
  BY <1>8 DEF Closed, session, client, TypeOK, Names, Fresh
<1>9. ASSUME NEW c \in Clients, ClosedAppend(c) PROVE NamingInv'
  BY <1>9 DEF ClosedAppend, session, client, TypeOK, Names, Fresh
<1>10. ASSUME NEW c \in Clients, ClosedCleanup(c) PROVE NamingInv'
  BY <1>10 DEF ClosedCleanup, Expiring, session, client, TypeOK, Names, Fresh
<1>11. ASSUME NEW w \in Workers, TaskDropped(w) PROVE NamingInv'
  BY <1>11 DEF TaskDropped, Return, session, client, TypeOK, Names, Fresh
<1>12. ASSUME NEW w \in Workers, NEW c \in Clients, TaskCreate(w, c) PROVE NamingInv'
  BY <1>12 DEF TaskCreate, Goto, session, client, TypeOK, Names, Fresh
<1>13. ASSUME NEW w \in Workers, NEW c \in Clients, CreateInsert(w, c) PROVE NamingInv'
  BY <1>13 DEF CreateInsert, At, Goto, session, client, TypeOK, Names, Fresh
<1>14. ASSUME NEW w \in Workers, NEW c \in Clients, CreateSource(w, c) PROVE NamingInv'
  BY <1>14 DEF CreateSource, At, Goto, session, client, TypeOK, Names, Fresh
<1>15. ASSUME NEW w \in Workers, NEW c \in Clients, CreateAdopt(w, c) PROVE NamingInv'
  BY <1>15 DEF CreateAdopt, At, Goto, session, client, TypeOK, Names, Fresh
<1>16. ASSUME NEW w \in Workers, NEW c \in Clients, TaskOther(w, c) PROVE NamingInv'
  <2>1. \A v \in Workers : v # w => worker'[v] = worker[v]
    BY <1>16 DEF TaskOther, Goto, TypeOK
  <2>2. \A r \in Sessions : ~Names(w, r)'
    BY <1>16 DEF TaskOther, Goto, TypeOK, Sessions, Names
  <2>3. \A r \in Sessions, v \in Workers : Names(v, r)' => v # w /\ Names(v, r)
    BY <2>1, <2>2 DEF Names
  <2>4. UNCHANGED <<table, memory, source, destroy, timeout, idle, messages, timer, watchdog, mine>>
    BY <1>16 DEF TaskOther, session, client
  <2>5. \A r \in Sessions : Fresh(r) => Fresh(r)'
    BY <2>4 DEF Fresh
  <2> QED
    BY <2>1, <2>3, <2>4, <2>5
<1>17. ASSUME NEW w \in Workers, NEW c \in Clients, TaskRequest(w, c) PROVE NamingInv'
  BY <1>17 DEF TaskRequest, Goto, session, client, TypeOK, Names, Fresh
<1>18. ASSUME NEW w \in Workers, NEW c \in Clients, DestroyForget(w, c) PROVE NamingInv'
  BY <1>18 DEF DestroyForget, At, Goto, session, client, TypeOK, Names, Fresh
<1>19. ASSUME NEW w \in Workers, NEW c \in Clients, DestroyForgotten(w, c) PROVE NamingInv'
  BY <1>19 DEF DestroyForgotten, At, Goto, session, client, TypeOK, Names, Fresh
<1>20. ASSUME NEW w \in Workers, NEW c \in Clients, DestroyFlag(w, c) PROVE NamingInv'
  BY <1>20 DEF DestroyFlag, At, Goto, session, client, TypeOK, Names, Fresh
<1>21. ASSUME NEW w \in Workers, NEW c \in Clients, DestroyRemove(w, c) PROVE NamingInv'
  <2>1. PICK s \in Sessions : At(w, "remove", c, s) /\ table' = table \ {s} /\ Timed(s)
    BY <1>21 DEF DestroyRemove
  <2>2. \A v \in Workers : v # w => worker'[v] = worker[v]
    BY <1>21 DEF DestroyRemove, Goto, TypeOK
  <2>3. worker'[w].at = "respond" /\ worker'[w].session = 0
    BY <1>21 DEF DestroyRemove, Goto, TypeOK
  <2>4. \A r \in Sessions, v \in Workers : Names(v, r)' => v # w /\ Names(v, r)
    BY <2>2, <2>3 DEF Sessions, Names
  <2>5. UNCHANGED <<memory, source, destroy, timeout, idle, messages, watchdog, mine>>
    BY <1>21 DEF DestroyRemove, client
  <2>6. \A r \in Sessions : r # s => timer'[r] = timer[r]
    BY <2>1 DEF Timed, TypeOK
  <2>7. Names(w, s) /\ worker[w].at = "remove"
    BY <2>1 DEF At, Names
  <2>8. \A v \in Workers : ~Names(v, s)'
    BY <2>4, <2>7
  <2>9. \A r \in Sessions : r # s /\ Fresh(r) => Fresh(r)'
    BY <2>5, <2>6 DEF Fresh
  <2>10. memory[s] # "none"
    BY <2>7
  <2> QED
    BY <2>1, <2>2, <2>4, <2>5, <2>6, <2>8, <2>9, <2>10
<1>22. ASSUME NEW w \in Workers, NEW c \in Clients, Respond(w, c) PROVE NamingInv'
  <2>1. \A v \in Workers : v # w => worker'[v] = worker[v]
    BY <1>22 DEF Respond, At, Goto, Return, TypeOK
  <2>2. \A r \in Sessions : ~Names(w, r)'
    BY <1>22 DEF Respond, At, Goto, Return, TypeOK, Sessions, Names
  <2>3. \A r \in Sessions, v \in Workers : Names(v, r)' => v # w /\ Names(v, r)
    BY <2>1, <2>2 DEF Names
  <2>4. UNCHANGED <<table, memory, source, destroy, timeout, idle, messages, timer, watchdog, mine>>
    BY <1>22 DEF Respond, session, client
  <2>5. \A r \in Sessions : Fresh(r) => Fresh(r)'
    BY <2>4 DEF Fresh
  <2> QED
    BY <2>1, <2>3, <2>4, <2>5
<1>23. ASSUME NEW w \in Workers, NEW c \in Clients, Wake(w, c) PROVE NamingInv'
  BY <1>23 DEF Wake, At, Return, session, client, TypeOK, Names, Fresh
<1>24. ASSUME NEW w \in Workers, PushEvent(w) PROVE NamingInv'
  BY <1>24 DEF PushEvent, Goto, Creating, session, client, TypeOK, Names, Fresh
<1>25. ASSUME NEW w \in Workers, NEW c \in Clients, PushWake(w, c) PROVE NamingInv'
  <2>1. \A v \in Workers : v # w => worker'[v] = worker[v]
    BY <1>25 DEF PushWake, At, Goto, Return, TypeOK
  <2>2. \A r \in Sessions : ~Names(w, r)'
    BY <1>25 DEF PushWake, At, Goto, Return, TypeOK, Sessions, Names
  <2>3. \A r \in Sessions, v \in Workers : Names(v, r)' => v # w /\ Names(v, r)
    BY <2>1, <2>2 DEF Names
  <2>4. UNCHANGED <<table, memory, source, destroy, timeout, idle, messages, timer, watchdog, mine>>
    BY <1>25 DEF PushWake, session, client
  <2>5. \A r \in Sessions : Fresh(r) => Fresh(r)'
    BY <2>4 DEF Fresh
  <2> QED
    BY <2>1, <2>3, <2>4, <2>5
<1>26. CASE Expire
  BY <1>26 DEF Expire, session, client, TypeOK, Names, Fresh
<1>27. ASSUME NEW c \in Clients, ExpireLock(c) PROVE NamingInv'
  BY <1>27 DEF ExpireLock, session, client, TypeOK, Names, Fresh
<1>28. ASSUME NEW c \in Clients, ExpireWake(c) PROVE NamingInv'
  BY <1>28 DEF ExpireWake, session, client, TypeOK, Names, Fresh
<1>29. CASE Retire
  BY <1>29 DEF Retire, Timed, session, client, TypeOK, Names, Fresh
<1>30. CASE Cleanup
  BY <1>30 DEF Cleanup, session, client, TypeOK, Names, Fresh
<1>31. CASE Tick
  BY <1>31 DEF Tick, Older, session, client, TypeOK, Names, Fresh
<1>33. ASSUME NEW c \in Clients, Refuse(c) PROVE NamingInv'
  BY <1>33 DEF Refuse, session, client, TypeOK, Names, Fresh
<1>34. ASSUME NEW c \in Clients, WalkFreed(c) PROVE NamingInv'
  BY <1>34 DEF WalkFreed, CalledBack, session, client, TypeOK, Names, Fresh
<1>35. ASSUME NEW w \in Workers, NEW c \in Clients, RequestFind(w, c) PROVE NamingInv'
  <2>1. PICK s \in 0..MaxSessions, at \in {"respond", "touch", "doom"} :
          /\ At(w, "find", c, 0) /\ Goto(w, at, c, worker[w].number, s)
          /\ at \in {"respond", "touch", "doom"} /\ (at = "respond" => s = 0)
          /\ at = "doom" => s \in table /\ source[s] = {c} /\ ~Creating(s) /\ ~Destroying(s)
    BY <1>35 DEF RequestFind, Found, Sessions
  <2>2. \A v \in Workers : v # w => worker'[v] = worker[v]
    BY <2>1 DEF Goto, TypeOK
  <2>3. worker'[w].at = at /\ worker'[w].session = s /\ worker'[w].client = c
    BY <2>1 DEF Goto, TypeOK
  <2>4. \A r \in Sessions : Names(w, r)' => r = s /\ at = "doom"
    BY <2>3, <2>1 DEF Names, Sessions
  <2>5. at = "doom" => \A v \in Workers : ~Names(v, s)
    BY <2>1 DEF Creating, Destroying, Names
  <2>6. UNCHANGED <<table, memory, source, destroy, timeout, idle, messages, timer, watchdog, mine>>
    BY <1>35 DEF RequestFind, session, client
  <2>7. \A r \in Sessions : Fresh(r) => Fresh(r)'
    BY <2>6 DEF Fresh
  <2>8. \A r \in Sessions, v \in Workers : v # w => (Names(v, r)' <=> Names(v, r))
    BY <2>2 DEF Names
  <2>9. at = "doom" => s \in Sessions /\ timer[s] = NoTimer /\ memory[s] = "live" /\ destroy[s] = 0
    BY <2>1, <2>5 DEF TypeOK
  <2>10. \A r \in Sessions, v \in Workers :
           Names(v, r)' => (v = w /\ r = s /\ at = "doom") \/ (v # w /\ Names(v, r))
    BY <2>4, <2>8
  <2>11. at = "doom" => \A r \in Sessions, v \in Workers : Names(v, r) => r # s
    BY <2>5
  <2>12. \A r \in Sessions, v \in Workers : Names(v, r)' =>
           (v = w /\ r = s /\ at = "doom") \/ (v # w /\ Names(v, r) /\ (at = "doom" => r # s))
    BY <2>10, <2>11
  <2> QED
    BY <2>1, <2>2, <2>3, <2>6, <2>7, <2>9, <2>12
<1>36. ASSUME NEW w \in Workers, NEW c \in Clients, RequestTouch(w, c) PROVE NamingInv'
  <2>1. PICK s \in Sessions :
          /\ idle' = [idle EXCEPT ![s] = 0]
          /\ \/ At(w, "touch", c, s) /\ Goto(w, "respond", c, worker[w].number, 0)
             \/ At(w, "doom", c, s) /\ Goto(w, "forget", c, worker[w].number, s)
    BY <1>36 DEF RequestTouch
  <2>2. \A v \in Workers : v # w => worker'[v] = worker[v]
    BY <2>1 DEF Goto, TypeOK
  <2>3. \A r \in Sessions : Names(w, r)' =>
          Names(w, r) /\ worker[w].at = "doom" /\ worker'[w].at = "forget" /\
                 worker'[w].client = worker[w].client
    BY <2>1 DEF Goto, At, TypeOK, Sessions, Names
  <2>4. \A r \in Sessions, v \in Workers : v # w => (Names(v, r)' <=> Names(v, r))
    BY <2>2 DEF Names
  <2>5. UNCHANGED <<table, memory, source, destroy, timeout, messages, timer, watchdog, mine>>
    BY <1>36 DEF RequestTouch, client
  <2>6. \A r \in Sessions : Fresh(r) => Fresh(r)'
    BY <2>1, <2>5 DEF Fresh, TypeOK
  <2>7. \A r \in Sessions, v \in Workers : Names(v, r)' => Names(v, r)
    BY <2>3, <2>4
  <2>8. \A v \in Workers : v # w => worker'[v].at = worker[v].at /\
         worker'[v].client = worker[v].client
    BY <2>2
  <2> QED
    BY <2>3, <2>5, <2>6, <2>7, <2>8
<1>32. CASE UNCHANGED vars
  BY <1>32 DEF vars, session, client, TypeOK, Names, Fresh
<1> QED
  BY <1>1, <1>2, <1>3, <1>4, <1>5, <1>6, <1>7, <1>8, <1>9, <1>10, <1>11,
     <1>12, <1>13, <1>14, <1>15, <1>16, <1>17, <1>18, <1>19, <1>20, <1>21,
     <1>22, <1>23, <1>24, <1>25, <1>26, <1>27, <1>28, <1>29, <1>30, <1>31,
     <1>32, <1>33, <1>34, <1>35, <1>36
  DEF Next, Callback, Closing, Connection, Work, Watchdog

\* The table holds live sessions without timers.
LEMMA TableNext == TypeOK /\ NamingInv /\ TableInv /\ [Next]_vars => TableInv'
<1> SUFFICES ASSUME TypeOK, NamingInv, TableInv, [Next]_vars PROVE TableInv'
  OBVIOUS
<1> USE ConstantsAssumption DEF NamingInv, TableInv, Idle, NoTimer
<1>1. ASSUME NEW c \in Clients, Established(c) PROVE TableInv'
  BY <1>1 DEF Established, session, client, TypeOK, SFree, Names, Fresh
<1>2. ASSUME NEW c \in Clients, NEW w \in Workers, Receive(c, w) PROVE TableInv'
  BY <1>2 DEF Receive, Goto, session, client, TypeOK, SFree, Names, Fresh
<1>3. ASSUME NEW c \in Clients, WriteResponse(c) PROVE TableInv'
  BY <1>3 DEF WriteResponse, CalledBack, session, client, TypeOK, SFree, Names, Fresh
<1>4. ASSUME NEW c \in Clients, WriteEvent(c) PROVE TableInv'
  BY <1>4 DEF WriteEvent, CalledBack, Walked, session, client, TypeOK, SFree, Names, Fresh
<1>5. ASSUME NEW c \in Clients, WriteNothing(c) PROVE TableInv'
  BY <1>5 DEF WriteNothing, CalledBack, Walked, session, client, TypeOK, SFree, Names, Fresh
<1>6. ASSUME NEW c \in Clients, WalkTimedOut(c) PROVE TableInv'
  BY <1>6 DEF WalkTimedOut, CalledBack, Walked, session, client, TypeOK, SFree, Names, Fresh
<1>7. ASSUME NEW c \in Clients, CloseTimedOut(c) PROVE TableInv'
  BY <1>7 DEF CloseTimedOut, Expiring, session, client, TypeOK, SFree, Names, Fresh
<1>8. ASSUME NEW c \in Clients, Closed(c) PROVE TableInv'
  BY <1>8 DEF Closed, session, client, TypeOK, SFree, Names, Fresh
<1>9. ASSUME NEW c \in Clients, ClosedAppend(c) PROVE TableInv'
  BY <1>9 DEF ClosedAppend, session, client, TypeOK, SFree, Names, Fresh
<1>10. ASSUME NEW c \in Clients, ClosedCleanup(c) PROVE TableInv'
  BY <1>10 DEF ClosedCleanup, Expiring, session, client, TypeOK, SFree, Names, Fresh
<1>11. ASSUME NEW w \in Workers, TaskDropped(w) PROVE TableInv'
  BY <1>11 DEF TaskDropped, Return, session, client, TypeOK, SFree, Names, Fresh
<1>12. ASSUME NEW w \in Workers, NEW c \in Clients, TaskCreate(w, c) PROVE TableInv'
  BY <1>12 DEF TaskCreate, Goto, session, client, TypeOK, SFree, Names, Fresh
<1>13. ASSUME NEW w \in Workers, NEW c \in Clients, CreateInsert(w, c) PROVE TableInv'
  BY <1>13 DEF CreateInsert, At, Goto, session, client, TypeOK, SFree, Names, Fresh
<1>14. ASSUME NEW w \in Workers, NEW c \in Clients, CreateSource(w, c) PROVE TableInv'
  BY <1>14 DEF CreateSource, At, Goto, session, client, TypeOK, SFree, Names, Fresh
<1>15. ASSUME NEW w \in Workers, NEW c \in Clients, CreateAdopt(w, c) PROVE TableInv'
  BY <1>15 DEF CreateAdopt, At, Goto, session, client, TypeOK, SFree, Names, Fresh
<1>16. ASSUME NEW w \in Workers, NEW c \in Clients, TaskOther(w, c) PROVE TableInv'
  <2>1. \A v \in Workers : v # w => worker'[v] = worker[v]
    BY <1>16 DEF TaskOther, Goto, TypeOK
  <2>2. \A r \in Sessions : ~Names(w, r)'
    BY <1>16 DEF TaskOther, Goto, TypeOK, Sessions, Names
  <2>3. \A r \in Sessions, v \in Workers : Names(v, r)' => v # w /\ Names(v, r)
    BY <2>1, <2>2 DEF Names
  <2>4. UNCHANGED <<table, memory, source, destroy, timeout, idle, messages, timer, watchdog, mine>>
    BY <1>16 DEF TaskOther, session, client
  <2>5. \A r \in Sessions : Fresh(r) => Fresh(r)'
    BY <2>4 DEF Fresh
  <2>6. \A r \in Sessions : ~Names(w, r) \/ worker[w].at # "remove"
    BY <1>16 DEF TaskOther, At, Names
  <2>7. \A r \in Sessions, v \in Workers : Names(v, r) /\ worker[v].at = "remove" => Names(v,
         r)' /\ worker'[v].at = "remove"
    BY <2>1, <2>6 DEF Names
  <2> QED
    BY <2>1, <2>3, <2>4, <2>5, <2>7 DEF TypeOK
<1>17. ASSUME NEW w \in Workers, NEW c \in Clients, TaskRequest(w, c) PROVE TableInv'
  BY <1>17 DEF TaskRequest, Goto, session, client, TypeOK, SFree, Names, Fresh
<1>18. ASSUME NEW w \in Workers, NEW c \in Clients, DestroyForget(w, c) PROVE TableInv'
  BY <1>18 DEF DestroyForget, At, Goto, session, client, TypeOK, SFree, Names, Fresh
<1>19. ASSUME NEW w \in Workers, NEW c \in Clients, DestroyForgotten(w, c) PROVE TableInv'
  BY <1>19 DEF DestroyForgotten, At, Goto, session, client, TypeOK, SFree, Names, Fresh
<1>20. ASSUME NEW w \in Workers, NEW c \in Clients, DestroyFlag(w, c) PROVE TableInv'
  BY <1>20 DEF DestroyFlag, At, Goto, session, client, TypeOK, SFree, Names, Fresh
<1>21. ASSUME NEW w \in Workers, NEW c \in Clients, DestroyRemove(w, c) PROVE TableInv'
  <2>1. PICK s \in Sessions : At(w, "remove", c, s) /\ table' = table \ {s} /\ Timed(s)
    BY <1>21 DEF DestroyRemove
  <2>2. \A v \in Workers : v # w => worker'[v] = worker[v]
    BY <1>21 DEF DestroyRemove, Goto, TypeOK
  <2>3. worker'[w].at = "respond" /\ worker'[w].session = 0
    BY <1>21 DEF DestroyRemove, Goto, TypeOK
  <2>4. \A r \in Sessions, v \in Workers : Names(v, r)' => v # w /\ Names(v, r)
    BY <2>2, <2>3 DEF Sessions, Names
  <2>5. UNCHANGED <<memory, source, destroy, timeout, idle, messages, watchdog, mine>>
    BY <1>21 DEF DestroyRemove, client
  <2>6. \A r \in Sessions : r # s => timer'[r] = timer[r]
    BY <2>1 DEF Timed, TypeOK
  <2>7. Names(w, s) /\ worker[w].at = "remove"
    BY <2>1 DEF At, Names
  <2>8. \A v \in Workers : ~Names(v, s)'
    BY <2>4, <2>7
  <2>9. \A r \in Sessions : r # s /\ Fresh(r) => Fresh(r)'
    BY <2>5, <2>6 DEF Fresh
  <2>10. memory[s] # "none"
    BY <2>7
  <2>11. watchdog.at = "idle"
    BY <1>21, WatchdogFields DEF DestroyRemove, SFree
  <2>12. \A r \in Sessions, v \in Workers :
           r # s /\ Names(v, r) => Names(v, r)' /\ worker'[v].at = worker[v].at
    BY <2>2, <2>7 DEF Names
  <2> QED
    BY <2>1, <2>5, <2>6, <2>11, <2>12 DEF TypeOK
<1>22. ASSUME NEW w \in Workers, NEW c \in Clients, Respond(w, c) PROVE TableInv'
  <2>1. \A v \in Workers : v # w => worker'[v] = worker[v]
    BY <1>22 DEF Respond, At, Goto, Return, TypeOK
  <2>2. \A r \in Sessions : ~Names(w, r)'
    BY <1>22 DEF Respond, At, Goto, Return, TypeOK, Sessions, Names
  <2>3. \A r \in Sessions, v \in Workers : Names(v, r)' => v # w /\ Names(v, r)
    BY <2>1, <2>2 DEF Names
  <2>4. UNCHANGED <<table, memory, source, destroy, timeout, idle, messages, timer, watchdog, mine>>
    BY <1>22 DEF Respond, session, client
  <2>5. \A r \in Sessions : Fresh(r) => Fresh(r)'
    BY <2>4 DEF Fresh
  <2>6. \A r \in Sessions : ~Names(w, r) \/ worker[w].at # "remove"
    BY <1>22 DEF Respond, At, Names
  <2>7. \A r \in Sessions, v \in Workers : Names(v, r) /\ worker[v].at = "remove" => Names(v,
         r)' /\ worker'[v].at = "remove"
    BY <2>1, <2>6 DEF Names
  <2> QED
    BY <2>1, <2>3, <2>4, <2>5, <2>7 DEF TypeOK
<1>23. ASSUME NEW w \in Workers, NEW c \in Clients, Wake(w, c) PROVE TableInv'
  BY <1>23 DEF Wake, At, Return, session, client, TypeOK, SFree, Names, Fresh
<1>24. ASSUME NEW w \in Workers, PushEvent(w) PROVE TableInv'
  BY <1>24 DEF PushEvent, Goto, Creating, session, client, TypeOK, SFree, Names, Fresh
<1>25. ASSUME NEW w \in Workers, NEW c \in Clients, PushWake(w, c) PROVE TableInv'
  <2>1. \A v \in Workers : v # w => worker'[v] = worker[v]
    BY <1>25 DEF PushWake, At, Goto, Return, TypeOK
  <2>2. \A r \in Sessions : ~Names(w, r)'
    BY <1>25 DEF PushWake, At, Goto, Return, TypeOK, Sessions, Names
  <2>3. \A r \in Sessions, v \in Workers : Names(v, r)' => v # w /\ Names(v, r)
    BY <2>1, <2>2 DEF Names
  <2>4. UNCHANGED <<table, memory, source, destroy, timeout, idle, messages, timer, watchdog, mine>>
    BY <1>25 DEF PushWake, session, client
  <2>5. \A r \in Sessions : Fresh(r) => Fresh(r)'
    BY <2>4 DEF Fresh
  <2>6. \A r \in Sessions : ~Names(w, r) \/ worker[w].at # "remove"
    BY <1>25 DEF PushWake, At, Names
  <2>7. \A r \in Sessions, v \in Workers : Names(v, r) /\ worker[v].at = "remove" => Names(v,
         r)' /\ worker'[v].at = "remove"
    BY <2>1, <2>6 DEF Names
  <2> QED
    BY <2>1, <2>3, <2>4, <2>5, <2>7 DEF TypeOK
<1>26. CASE Expire
  BY <1>26 DEF Expire, session, client, TypeOK, SFree, Names, Fresh
<1>27. ASSUME NEW c \in Clients, ExpireLock(c) PROVE TableInv'
  BY <1>27 DEF ExpireLock, session, client, TypeOK, SFree, Names, Fresh
<1>28. ASSUME NEW c \in Clients, ExpireWake(c) PROVE TableInv'
  BY <1>28 DEF ExpireWake, session, client, TypeOK, SFree, Names, Fresh
<1>29. CASE Retire
  BY <1>29 DEF Retire, Timed, session, client, TypeOK, SFree, Names, Fresh
<1>30. CASE Cleanup
  BY <1>30 DEF Cleanup, session, client, TypeOK, SFree, Names, Fresh
<1>31. CASE Tick
  BY <1>31 DEF Tick, Older, session, client, TypeOK, SFree, Names, Fresh
<1>33. ASSUME NEW c \in Clients, Refuse(c) PROVE TableInv'
  BY <1>33 DEF Refuse, session, client, TypeOK, SFree, Names, Fresh
<1>34. ASSUME NEW c \in Clients, WalkFreed(c) PROVE TableInv'
  BY <1>34 DEF WalkFreed, CalledBack, session, client, TypeOK, SFree, Names, Fresh
<1>35. ASSUME NEW w \in Workers, NEW c \in Clients, RequestFind(w, c) PROVE TableInv'
  <2>1. \A v \in Workers : v # w => worker'[v] = worker[v]
    BY <1>35 DEF RequestFind, Found, Goto, TypeOK
  <2>2. worker[w].at = "find"
    BY <1>35 DEF RequestFind, Found, At
  <2>3. \A r \in Sessions, v \in Workers :
           Names(v, r) /\ worker[v].at = "remove" => Names(v, r)' /\ worker'[v].at = "remove"
    BY <2>1, <2>2 DEF Names
  <2>4. UNCHANGED <<table, memory, destroy, timeout, timer, watchdog>>
    BY <1>35 DEF RequestFind, session
  <2> QED
    BY <2>3, <2>4 DEF TypeOK
<1>36. ASSUME NEW w \in Workers, NEW c \in Clients, RequestTouch(w, c) PROVE TableInv'
  <2>1. \A v \in Workers : v # w => worker'[v] = worker[v]
    BY <1>36 DEF RequestTouch, At, Goto, TypeOK
  <2>2. worker[w].at \in {"touch", "doom"}
    BY <1>36 DEF RequestTouch, At
  <2>3. \A r \in Sessions, v \in Workers :
           Names(v, r) /\ worker[v].at = "remove" => Names(v, r)' /\ worker'[v].at = "remove"
    BY <2>1, <2>2 DEF Names
  <2>4. UNCHANGED <<table, memory, destroy, timeout, timer, watchdog>>
    BY <1>36 DEF RequestTouch, session
  <2> QED
    BY <2>3, <2>4 DEF TypeOK
<1>32. CASE UNCHANGED vars
  BY <1>32 DEF vars, session, client, TypeOK, SFree, Names, Fresh
<1> QED
  BY <1>1, <1>2, <1>3, <1>4, <1>5, <1>6, <1>7, <1>8, <1>9, <1>10, <1>11,
     <1>12, <1>13, <1>14, <1>15, <1>16, <1>17, <1>18, <1>19, <1>20, <1>21,
     <1>22, <1>23, <1>24, <1>25, <1>26, <1>27, <1>28, <1>29, <1>30, <1>31,
     <1>32, <1>33, <1>34, <1>35, <1>36
  DEF Next, Callback, Closing, Connection, Work, Watchdog

\* What a callback walks: a client adopts what was made for it.
LEMMA OwnNext ==
  TypeOK /\ NamingInv /\ OwnInv /\ [Next]_vars
    => OwnInv'
<1> SUFFICES ASSUME TypeOK, NamingInv, OwnInv, [Next]_vars
             PROVE  OwnInv'
  OBVIOUS
<1> USE DEF OwnInv, NamingInv, Idle
<1>1. ASSUME NEW c \in Clients, Established(c) PROVE OwnInv'
  BY <1>1 DEF Established, session, client, TypeOK, Names, Fresh
<1>2. ASSUME NEW c \in Clients, NEW w \in Workers, Receive(c, w) PROVE OwnInv'
  BY <1>2 DEF Receive, Goto, session, client, TypeOK, Names, Fresh
<1>3. ASSUME NEW c \in Clients, WriteResponse(c) PROVE OwnInv'
  BY <1>3 DEF WriteResponse, CalledBack, session, client, TypeOK, Names, Fresh
<1>4. ASSUME NEW c \in Clients, WriteEvent(c) PROVE OwnInv'
  BY <1>4 DEF WriteEvent, CalledBack, Walked, session, client, TypeOK, Names, Fresh
<1>5. ASSUME NEW c \in Clients, WriteNothing(c) PROVE OwnInv'
  BY <1>5 DEF WriteNothing, CalledBack, Walked, session, client, TypeOK, Names, Fresh
<1>6. ASSUME NEW c \in Clients, WalkTimedOut(c) PROVE OwnInv'
  BY <1>6 DEF WalkTimedOut, CalledBack, Walked, session, client, TypeOK, Names, Fresh
<1>7. ASSUME NEW c \in Clients, CloseTimedOut(c) PROVE OwnInv'
  BY <1>7 DEF CloseTimedOut, Expiring, session, client, TypeOK, Names, Fresh
<1>8. ASSUME NEW c \in Clients, Closed(c) PROVE OwnInv'
  BY <1>8 DEF Closed, session, client, TypeOK, Names, Fresh
<1>9. ASSUME NEW c \in Clients, ClosedAppend(c) PROVE OwnInv'
  BY <1>9 DEF ClosedAppend, session, client, TypeOK, Names, Fresh
<1>10. ASSUME NEW c \in Clients, ClosedCleanup(c) PROVE OwnInv'
  BY <1>10 DEF ClosedCleanup, Expiring, session, client, TypeOK, Names, Fresh
<1>11. ASSUME NEW w \in Workers, TaskDropped(w) PROVE OwnInv'
  BY <1>11 DEF TaskDropped, Return, session, client, TypeOK, Names, Fresh
<1>12. ASSUME NEW w \in Workers, NEW c \in Clients, TaskCreate(w, c) PROVE OwnInv'
  BY <1>12 DEF TaskCreate, Goto, session, client, TypeOK, Names, Fresh
<1>13. ASSUME NEW w \in Workers, NEW c \in Clients, CreateInsert(w, c) PROVE OwnInv'
  BY <1>13 DEF CreateInsert, At, Goto, session, client, TypeOK, Names, Fresh
<1>14. ASSUME NEW w \in Workers, NEW c \in Clients, CreateSource(w, c) PROVE OwnInv'
  BY <1>14 DEF CreateSource, At, Goto, session, client, TypeOK, Names, Fresh
<1>15. ASSUME NEW w \in Workers, NEW c \in Clients, CreateAdopt(w, c) PROVE OwnInv'
  BY <1>15 DEF CreateAdopt, At, Goto, session, client, TypeOK, Names, Fresh
<1>16. ASSUME NEW w \in Workers, NEW c \in Clients, TaskOther(w, c) PROVE OwnInv'
  BY <1>16 DEF TaskOther, Goto, session, client, TypeOK, Names, Fresh
<1>17. ASSUME NEW w \in Workers, NEW c \in Clients, TaskRequest(w, c) PROVE OwnInv'
  BY <1>17 DEF TaskRequest, Goto, session, client, TypeOK, Names, Fresh
<1>18. ASSUME NEW w \in Workers, NEW c \in Clients, DestroyForget(w, c) PROVE OwnInv'
  BY <1>18 DEF DestroyForget, At, Goto, session, client, TypeOK, Names, Fresh
<1>19. ASSUME NEW w \in Workers, NEW c \in Clients, DestroyForgotten(w, c) PROVE OwnInv'
  BY <1>19 DEF DestroyForgotten, At, Goto, session, client, TypeOK, Names, Fresh
<1>20. ASSUME NEW w \in Workers, NEW c \in Clients, DestroyFlag(w, c) PROVE OwnInv'
  BY <1>20 DEF DestroyFlag, At, Goto, session, client, TypeOK, Names, Fresh
<1>21. ASSUME NEW w \in Workers, NEW c \in Clients, DestroyRemove(w, c) PROVE OwnInv'
  BY <1>21 DEF DestroyRemove, At, Goto, Timed, session, client, TypeOK, Names, Fresh
<1>22. ASSUME NEW w \in Workers, NEW c \in Clients, Respond(w, c) PROVE OwnInv'
  BY <1>22 DEF Respond, At, Goto, Return, session, client, TypeOK, Names, Fresh
<1>23. ASSUME NEW w \in Workers, NEW c \in Clients, Wake(w, c) PROVE OwnInv'
  BY <1>23 DEF Wake, At, Return, session, client, TypeOK, Names, Fresh
<1>24. ASSUME NEW w \in Workers, PushEvent(w) PROVE OwnInv'
  BY <1>24 DEF PushEvent, Goto, Creating, session, client, TypeOK, Names, Fresh
<1>25. ASSUME NEW w \in Workers, NEW c \in Clients, PushWake(w, c) PROVE OwnInv'
  BY <1>25 DEF PushWake, At, Goto, Return, session, client, TypeOK, Names, Fresh
<1>26. CASE Expire
  BY <1>26 DEF Expire, session, client, TypeOK, Names, Fresh
<1>27. ASSUME NEW c \in Clients, ExpireLock(c) PROVE OwnInv'
  BY <1>27 DEF ExpireLock, session, client, TypeOK, Names, Fresh
<1>28. ASSUME NEW c \in Clients, ExpireWake(c) PROVE OwnInv'
  BY <1>28 DEF ExpireWake, session, client, TypeOK, Names, Fresh
<1>29. CASE Retire
  BY <1>29 DEF Retire, Timed, session, client, TypeOK, Names, Fresh
<1>30. CASE Cleanup
  BY <1>30 DEF Cleanup, session, client, TypeOK, Names, Fresh
<1>31. CASE Tick
  BY <1>31 DEF Tick, Older, session, client, TypeOK, Names, Fresh
<1>33. ASSUME NEW c \in Clients, Refuse(c) PROVE OwnInv'
  BY <1>33 DEF Refuse, session, client, TypeOK, Names, Fresh
<1>34. ASSUME NEW c \in Clients, WalkFreed(c) PROVE OwnInv'
  BY <1>34 DEF WalkFreed, CalledBack, session, client, TypeOK, Names, Fresh
<1>35. ASSUME NEW w \in Workers, NEW c \in Clients, RequestFind(w, c) PROVE OwnInv'
  BY <1>35 DEF RequestFind, Found, Creating, Destroying, At, Goto, session, client, TypeOK,
         Names, Fresh
<1>36. ASSUME NEW w \in Workers, NEW c \in Clients, RequestTouch(w, c) PROVE OwnInv'
  BY <1>36 DEF RequestTouch, At, Goto, session, client, TypeOK, Names, Fresh
<1>32. CASE UNCHANGED vars
  BY <1>32 DEF vars, session, client, TypeOK, Names, Fresh
<1> QED
  BY <1>1, <1>2, <1>3, <1>4, <1>5, <1>6, <1>7, <1>8, <1>9, <1>10, <1>11,
     <1>12, <1>13, <1>14, <1>15, <1>16, <1>17, <1>18, <1>19, <1>20, <1>21,
     <1>22, <1>23, <1>24, <1>25, <1>26, <1>27, <1>28, <1>29, <1>30, <1>31,
     <1>32, <1>33, <1>34, <1>35, <1>36
  DEF Next, Callback, Closing, Connection, Work, Watchdog

\* A session is freed ticks after the watchdog or its
\* client's request took it out of the table, and no tick passes before the
\* callback has seen it.
LEMMA MineNext ==
  TypeOK /\ ClosedInv /\ NamingInv /\ TableInv /\ OwnInv /\ MineInv /\ [Next]_vars => MineInv'
<1> SUFFICES ASSUME TypeOK, ClosedInv, NamingInv, TableInv, OwnInv, MineInv, [Next]_vars
             PROVE  MineInv'
  OBVIOUS
<1> USE ConstantsAssumption DEF MineInv, OwnInv, ClosedInv, NamingInv, TableInv, Idle, NoTimer,
       Cleaning, Attended
<1>1. ASSUME NEW c \in Clients, Established(c) PROVE MineInv'
  BY <1>1 DEF Established, session, client, TypeOK, Names, Fresh
<1>2. ASSUME NEW c \in Clients, NEW w \in Workers, Receive(c, w) PROVE MineInv'
  BY <1>2 DEF Receive, Goto, session, client, TypeOK, Names, Fresh
<1>3. ASSUME NEW c \in Clients, WriteResponse(c) PROVE MineInv'
  BY <1>3 DEF WriteResponse, CalledBack, session, client, TypeOK, Names, Fresh
<1>4. ASSUME NEW c \in Clients, WriteEvent(c) PROVE MineInv'
  BY <1>4 DEF WriteEvent, CalledBack, Walked, session, client, TypeOK, Names, Fresh
<1>5. ASSUME NEW c \in Clients, WriteNothing(c) PROVE MineInv'
  <2>1. /\ service.at = "idle" /\ writable' = [writable EXCEPT ![c] = FALSE]
        /\ missed' = missed \cup {s \in mine[c] : watchdog = [at |-> "retire", session |-> s]}
        /\ \A s \in mine[c] : destroy[s] = 0 => timeout[s] = 0
    BY <1>5 DEF WriteNothing, CalledBack, Walked, TypeOK
  <2>2. UNCHANGED <<memory, destroy, timeout, timer, mine, state, service, worker, watchdog>>
    BY <1>5 DEF WriteNothing, session
  <2>3. \A r \in Sessions, v \in Workers : Names(v, r)' <=> Names(v, r)
    BY <2>2 DEF Names
  <2> SUFFICES ASSUME NEW d \in Clients, state[d] = "open", NEW s \in mine[d], s \notin missed'
               PROVE  /\ timer[s] # NoTimer => writable'[d]
                      /\ watchdog.at = "retire" /\ watchdog.session = s => writable'[d]
    BY <2>1, <2>2, <2>3 DEF TypeOK
  <2>4. s \in Sessions /\ s \notin missed /\ ~Cleaning(d) /\ destroy[s] \in 0..1
    BY <2>1 DEF TypeOK
  <2>5. CASE d # c
    BY <2>1, <2>4, <2>5 DEF TypeOK
  <2>6. CASE d = c
    <3>1. destroy[s] = 0 /\ timeout[s] = 0
      BY <2>1, <2>4, <2>6
    <3>2. timer[s] = NoTimer
      BY <2>4, <3>1
    <3>3. watchdog.at = "retire" /\ watchdog.session = s => watchdog = [at |-> "retire",
           session |-> s]
      BY DEF TypeOK, WatchdogStates
    <3> QED
      BY <2>1, <2>6, <3>2, <3>3
  <2> QED
    BY <2>5, <2>6
<1>6. ASSUME NEW c \in Clients, WalkTimedOut(c) PROVE MineInv'
  BY <1>6 DEF WalkTimedOut, CalledBack, Walked, session, client, TypeOK, Names, Fresh
<1>7. ASSUME NEW c \in Clients, CloseTimedOut(c) PROVE MineInv'
  BY <1>7 DEF CloseTimedOut, Expiring, session, client, TypeOK, Names, Fresh
<1>8. ASSUME NEW c \in Clients, Closed(c) PROVE MineInv'
  BY <1>8 DEF Closed, session, client, TypeOK, Names, Fresh
<1>9. ASSUME NEW c \in Clients, ClosedAppend(c) PROVE MineInv'
  BY <1>9 DEF ClosedAppend, session, client, TypeOK, Names, Fresh
<1>10. ASSUME NEW c \in Clients, ClosedCleanup(c) PROVE MineInv'
  BY <1>10 DEF ClosedCleanup, Expiring, session, client, TypeOK, Names, Fresh
<1>11. ASSUME NEW w \in Workers, TaskDropped(w) PROVE MineInv'
  BY <1>11 DEF TaskDropped, Return, session, client, TypeOK, Names, Fresh
<1>12. ASSUME NEW w \in Workers, NEW c \in Clients, TaskCreate(w, c) PROVE MineInv'
  BY <1>12 DEF TaskCreate, Goto, session, client, TypeOK, Names, Fresh
<1>13. ASSUME NEW w \in Workers, NEW c \in Clients, CreateInsert(w, c) PROVE MineInv'
  BY <1>13 DEF CreateInsert, At, Goto, session, client, TypeOK, Names, Fresh
<1>14. ASSUME NEW w \in Workers, NEW c \in Clients, CreateSource(w, c) PROVE MineInv'
  BY <1>14 DEF CreateSource, At, Goto, session, client, TypeOK, Names, Fresh
<1>15. ASSUME NEW w \in Workers, NEW c \in Clients, CreateAdopt(w, c) PROVE MineInv'
  BY <1>15 DEF CreateAdopt, At, Goto, session, client, TypeOK, Names, Fresh
<1>16. ASSUME NEW w \in Workers, NEW c \in Clients, TaskOther(w, c) PROVE MineInv'
  BY <1>16 DEF TaskOther, Goto, session, client, TypeOK, Names, Fresh
<1>17. ASSUME NEW w \in Workers, NEW c \in Clients, TaskRequest(w, c) PROVE MineInv'
  BY <1>17 DEF TaskRequest, Goto, session, client, TypeOK, Names, Fresh
<1>18. ASSUME NEW w \in Workers, NEW c \in Clients, DestroyForget(w, c) PROVE MineInv'
  <2>1. PICK s \in Sessions : At(w, "forget", c, s)
          /\ Goto(w, IF c \in old_wss THEN "flag" ELSE "forgetting", c, worker[w].number, s)
    BY <1>18 DEF DestroyForget
  <2>2. \A r \in Sessions, v \in Workers : r # s =>
         (Names(v, r)' /\ worker'[v].at \in {"flag", "remove"} => Names(v, r) /\
                worker[v].at \in {"flag", "remove"})
    BY <2>1 DEF Goto, At, TypeOK, Names, Sessions
  <2>3. source[s] = {c} /\ destroy[s] = 0
    BY <2>1 DEF At, Names
  <2>4. c \notin old_wss => \A v \in Workers : ~(Names(v, s)' /\ worker'[v].at \in {"flag",
         "remove"})
    BY <2>1 DEF At, Goto, Names, TypeOK
  <2>5. UNCHANGED <<table, memory, source, destroy, timeout, missed, timer, mine, state, old_wss,
         service, writable, watchdog>>
    BY <1>18 DEF DestroyForget, session, client
  <2>6. s \notin missed =>
         \A d \in Clients : state[d] = "open" /\ s \in mine[d] /\ c \in old_wss => Cleaning(d)
    BY <2>3
  <2> QED
    BY <2>2, <2>4, <2>5, <2>6 DEF TypeOK
<1>19. ASSUME NEW w \in Workers, NEW c \in Clients, DestroyForgotten(w, c) PROVE MineInv'
  <2>1. PICK s \in Sessions :
          /\ At(w, "forgetting", c, s) /\ Goto(w, "flag", c, worker[w].number, s)
          /\ mine' = [mine EXCEPT ![c] = mine[c] \ {s}]
    BY <1>19 DEF DestroyForgotten
  <2>2. \A r \in Sessions, v \in Workers : r # s =>
         (Names(v, r)' /\ worker'[v].at \in {"flag", "remove"} => Names(v, r) /\
                worker[v].at \in {"flag", "remove"})
    BY <2>1 DEF Goto, At, TypeOK, Names, Sessions
  <2>3. source[s] = {c} /\ destroy[s] = 0
    BY <2>1 DEF At, Names
  <2>4. UNCHANGED <<table, memory, source, destroy, timeout, missed, timer, state, old_wss,
         service, writable, watchdog>>
    BY <1>19 DEF DestroyForgotten, session
  <2>5. \A d \in Clients : s \notin mine'[d] /\ mine'[d] \subseteq mine[d]
    BY <2>1, <2>3 DEF TypeOK
  <2> QED
    BY <2>2, <2>4, <2>5 DEF TypeOK
<1>20. ASSUME NEW w \in Workers, NEW c \in Clients, DestroyFlag(w, c) PROVE MineInv'
  BY <1>20 DEF DestroyFlag, At, Goto, session, client, TypeOK, Names, Fresh
<1>21. ASSUME NEW w \in Workers, NEW c \in Clients, DestroyRemove(w, c) PROVE MineInv'
  <2>1. PICK s \in Sessions : At(w, "remove", c, s) /\ Timed(s)
    BY <1>21 DEF DestroyRemove
  <2>2. \A r \in Sessions, v \in Workers :
         Names(v, r)' /\ worker'[v].at \in {"flag", "remove"} => Names(v, r) /\
                worker[v].at \in {"flag", "remove"}
    BY <1>21 DEF DestroyRemove, At, Goto, TypeOK, Names
  <2>3. Names(w, s) /\ worker[w].at = "remove" /\ destroy[s] = 1 /\ timer[s] \in {NoTimer, 0}
    BY <2>1 DEF At, Names
  <2>4. \A r \in Sessions : r # s => timer'[r] = timer[r]
    BY <2>1 DEF Timed, TypeOK
  <2>5. timer'[s] = 0
    BY <2>1, <2>3 DEF Timed, TypeOK
  <2>6. UNCHANGED <<memory, source, destroy, timeout, missed, mine, state, old_wss, service,
         writable, watchdog>>
    BY <1>21 DEF DestroyRemove, client
  <2>7. s \notin missed => \A d \in Clients : state[d] = "open" /\ s \in mine[d] => Cleaning(d)
    BY <2>3
  <2> QED
    BY <2>2, <2>3, <2>4, <2>5, <2>6, <2>7 DEF TypeOK
<1>22. ASSUME NEW w \in Workers, NEW c \in Clients, Respond(w, c) PROVE MineInv'
  <2>1. \A v \in Workers : v # w => worker'[v] = worker[v]
    BY <1>22 DEF Respond, At, Goto, Return, Idle, TypeOK
  <2>2. worker'[w].at \in {"idle", "wake"}
    BY <1>22 DEF Respond, At, Goto, Return, Idle, TypeOK
  <2>3. \A r \in Sessions, v \in Workers :
         Names(v, r)' /\ worker'[v].at \in {"flag", "remove"} => Names(v, r) /\
                worker[v].at \in {"flag", "remove"}
    BY <2>1, <2>2 DEF Names
  <2>4. UNCHANGED <<table, memory, source, destroy, timeout, missed, timer, mine, state, old_wss,
         service, writable, watchdog>>
    BY <1>22 DEF Respond, session, client
  <2> QED
    BY <2>3, <2>4 DEF TypeOK
<1>23. ASSUME NEW w \in Workers, NEW c \in Clients, Wake(w, c) PROVE MineInv'
  BY <1>23 DEF Wake, At, Return, session, client, TypeOK, Names, Fresh
<1>24. ASSUME NEW w \in Workers, PushEvent(w) PROVE MineInv'
  BY <1>24 DEF PushEvent, Goto, Creating, session, client, TypeOK, Names, Fresh
<1>25. ASSUME NEW w \in Workers, NEW c \in Clients, PushWake(w, c) PROVE MineInv'
  <2>1. \A v \in Workers : v # w => worker'[v] = worker[v]
    BY <1>25 DEF PushWake, At, Goto, Return, Idle, TypeOK
  <2>2. worker'[w].at \in {"idle", "wake"}
    BY <1>25 DEF PushWake, At, Goto, Return, Idle, TypeOK
  <2>3. \A r \in Sessions, v \in Workers :
         Names(v, r)' /\ worker'[v].at \in {"flag", "remove"} => Names(v, r) /\
                worker[v].at \in {"flag", "remove"}
    BY <2>1, <2>2 DEF Names
  <2>4. UNCHANGED <<table, memory, source, destroy, timeout, missed, timer, mine, state, old_wss,
         service, writable, watchdog>>
    BY <1>25 DEF PushWake, session, client
  <2> QED
    BY <2>3, <2>4 DEF TypeOK
<1>26. CASE Expire
  <2>1. PICK s \in table : /\ destroy[s] = 0
          /\ watchdog' = [at |-> IF source[s] = {} THEN "retire" ELSE "expired", session |-> s]
    BY <1>26 DEF Expire
  <2>2. UNCHANGED <<table, memory, source, destroy, timeout, missed, timer, mine, state, old_wss,
         service, writable>>
    BY <1>26 DEF Expire, client
  <2>3. watchdog'.at = "retire" => source[s] = {} /\ watchdog'.session = s
    BY <2>1
  <2>4. \A r \in Sessions, v \in Workers : (Names(v, r)' <=> Names(v, r)) /\ worker' = worker
    BY <1>26 DEF Expire, Names
  <2>5. watchdog'.at = "retire" => \A d \in Clients : s \notin mine[d]
    BY <2>1, <2>3
  <2> QED
    BY <2>2, <2>3, <2>4, <2>5 DEF TypeOK
<1>27. ASSUME NEW c \in Clients, ExpireLock(c) PROVE MineInv'
  <2>1. watchdog.at \in {"expired", "wake"} /\ source[watchdog.session] = {c} /\
         watchdog.session \in table
    BY <1>27 DEF ExpireLock
  <2>2. watchdog'.session = watchdog.session /\ watchdog.session \in Sessions
    BY <1>27, WatchdogFields DEF ExpireLock, TypeOK, WatchdogStates
  <2>3. UNCHANGED <<table, memory, source, destroy, timeout, missed, timer, mine, state, old_wss,
         service, writable>>
    BY <1>27 DEF ExpireLock, session, client
  <2>4. \A r \in Sessions, v \in Workers : (Names(v, r)' <=> Names(v, r)) /\ worker' = worker
    BY <1>27 DEF ExpireLock, Names
  <2>5. watchdog'.at = "retire" => c \in old_wss
    BY <1>27 DEF ExpireLock, TypeOK
  <2>6. \A d \in Clients : {d} = {c} => d = c
    OBVIOUS
  <2>7. watchdog.session \notin missed => \A d \in Clients :
          state[d] = "open" /\ watchdog.session \in mine[d] => d = c \/ Cleaning(d)
    <3> SUFFICES ASSUME watchdog.session \notin missed, NEW d \in Clients, state[d] = "open",
                        watchdog.session \in mine[d], ~Cleaning(d)
                 PROVE  d = c
      BY DEF Cleaning
    <3>1. destroy[watchdog.session] = 0
      BY <2>2 DEF TypeOK
    <3>2. source[watchdog.session] = {d}
      BY <3>1
    <3> QED
      BY <2>1, <2>6, <3>2
  <2> QED
    BY <2>2, <2>3, <2>4, <2>5, <2>7 DEF TypeOK
<1>28. ASSUME NEW c \in Clients, ExpireWake(c) PROVE MineInv'
  <2>1. watchdog.at \in {"expired", "wake"} /\ source[watchdog.session] = {c} /\
         watchdog.session \in table
    BY <1>28 DEF ExpireWake
  <2>2. watchdog'.session = watchdog.session /\ watchdog.session \in Sessions
    BY <1>28, WatchdogFields DEF ExpireWake, TypeOK, WatchdogStates
  <2>3. UNCHANGED <<table, memory, source, destroy, timeout, missed, timer, mine, state, old_wss,
         service>>
    BY <1>28 DEF ExpireWake, session, client
  <2>4. \A r \in Sessions, v \in Workers : (Names(v, r)' <=> Names(v, r)) /\ worker' = worker
    BY <1>28 DEF ExpireWake, Names
  <2>5. writable'[c] /\ \A d \in Clients : writable[d] => writable'[d]
    BY <1>28 DEF ExpireWake, TypeOK
  <2>6. \A d \in Clients : {d} = {c} => d = c
    OBVIOUS
  <2>7. watchdog.session \notin missed => \A d \in Clients :
          state[d] = "open" /\ watchdog.session \in mine[d] => d = c \/ Cleaning(d)
    <3> SUFFICES ASSUME watchdog.session \notin missed, NEW d \in Clients, state[d] = "open",
                        watchdog.session \in mine[d], ~Cleaning(d)
                 PROVE  d = c
      BY DEF Cleaning
    <3>1. destroy[watchdog.session] = 0
      BY <2>2 DEF TypeOK
    <3>2. source[watchdog.session] = {d}
      BY <3>1
    <3> QED
      BY <2>1, <2>6, <3>2
  <2> QED
    BY <2>2, <2>3, <2>4, <2>5, <2>7 DEF TypeOK
<1>29. CASE Retire
  BY <1>29 DEF Retire, Timed, session, client, TypeOK, Names, Fresh
<1>30. CASE Cleanup
  BY <1>30 DEF Cleanup, session, client, TypeOK, Names, Fresh
<1>31. CASE Tick
  <2>1. /\ service.at = "idle" /\ timer' = [s \in Sessions |-> Older(CleanupDelay, timer[s])]
        /\ missed' = missed \cup {s \in Sessions : timer'[s] = CleanupDelay /\ Stalled(s)}
    BY <1>31 DEF Tick
  <2>2. UNCHANGED <<memory, destroy, timeout, mine, state, writable, service, worker, watchdog>>
    BY <1>31 DEF Tick, client
  <2>3. \A r \in Sessions, v \in Workers : Names(v, r)' <=> Names(v, r)
    BY <2>2 DEF Names
  <2>4. \A s \in Sessions : timer'[s] # NoTimer <=> timer[s] # NoTimer
    BY <2>1 DEF Older, TypeOK
  <2>5. missed \subseteq missed' /\ \A d \in Clients : mine[d] \subseteq Sessions
    BY <2>1 DEF TypeOK
  <2>6. ASSUME NEW d \in Clients, state[d] = "open", NEW s \in mine[d], s \notin missed'
        PROVE  timer'[s] # CleanupDelay
    <3>1. s \in Sessions /\ s \notin missed
      BY <2>5, <2>6
    <3>2. SUFFICES ASSUME timer'[s] = CleanupDelay PROVE FALSE
      OBVIOUS
    <3>3. ~writable[d]
      BY <2>1, <2>6, <3>1, <3>2 DEF Stalled
    <3>4. timer[s] = NoTimer
      BY <2>1, <2>6, <3>1, <3>3
    <3> QED
      BY <2>1, <3>1, <3>2, <3>4 DEF Older
  <2> QED
    BY <2>2, <2>3, <2>4, <2>5, <2>6
<1>33. ASSUME NEW c \in Clients, Refuse(c) PROVE MineInv'
  BY <1>33 DEF Refuse, session, client, TypeOK, Names, Fresh
<1>34. ASSUME NEW c \in Clients, WalkFreed(c) PROVE MineInv'
  BY <1>34 DEF WalkFreed, CalledBack, session, client, TypeOK, Names, Fresh
<1>35. ASSUME NEW w \in Workers, NEW c \in Clients, RequestFind(w, c) PROVE MineInv'
  <2>1. \A v \in Workers : v # w => worker'[v] = worker[v]
    BY <1>35 DEF RequestFind, Found, Goto, TypeOK
  <2>2. worker'[w].at \in {"respond", "touch", "doom"}
    BY <1>35 DEF RequestFind, Found, Goto, TypeOK
  <2>3. \A r \in Sessions, v \in Workers :
         Names(v, r)' /\ worker'[v].at \in {"flag", "remove"} => Names(v, r) /\
                worker[v].at \in {"flag", "remove"}
    BY <2>1, <2>2 DEF Names
  <2>4. UNCHANGED <<table, memory, source, destroy, timeout, missed, timer, mine, state, old_wss,
         service, writable, watchdog>>
    BY <1>35 DEF RequestFind, session, client
  <2> QED
    BY <2>3, <2>4 DEF TypeOK
<1>36. ASSUME NEW w \in Workers, NEW c \in Clients, RequestTouch(w, c) PROVE MineInv'
  <2>1. \A v \in Workers : v # w => worker'[v] = worker[v]
    BY <1>36 DEF RequestTouch, At, Goto, TypeOK
  <2>2. worker'[w].at \in {"respond", "forget"}
    BY <1>36 DEF RequestTouch, At, Goto, TypeOK
  <2>3. \A r \in Sessions, v \in Workers :
         Names(v, r)' /\ worker'[v].at \in {"flag", "remove"} => Names(v, r) /\
                worker[v].at \in {"flag", "remove"}
    BY <2>1, <2>2 DEF Names
  <2>4. UNCHANGED <<table, memory, source, destroy, timeout, missed, timer, mine, state, old_wss,
         service, writable, watchdog>>
    BY <1>36 DEF RequestTouch, session, client
  <2> QED
    BY <2>3, <2>4 DEF TypeOK
<1>32. CASE UNCHANGED vars
  BY <1>32 DEF vars, session, client, TypeOK, Names, Fresh
<1> QED
  BY <1>1, <1>2, <1>3, <1>4, <1>5, <1>6, <1>7, <1>8, <1>9, <1>10, <1>11,
     <1>12, <1>13, <1>14, <1>15, <1>16, <1>17, <1>18, <1>19, <1>20, <1>21,
     <1>22, <1>23, <1>24, <1>25, <1>26, <1>27, <1>28, <1>29, <1>30, <1>31,
     <1>32, <1>33, <1>34, <1>35, <1>36
  DEF Next, Callback, Closing, Connection, Work, Watchdog

\* A wake-up pends while there is something to send: who queues it asks for a
\* callback afterwards, and the callback that finds nothing comes last.
LEMMA WakeNext ==
  TypeOK /\ ClosedInv /\ NamingInv /\ TableInv /\ OwnInv /\ WakePending /\ [Next]_vars
    => WakePending'
<1> SUFFICES ASSUME TypeOK, ClosedInv, NamingInv, TableInv, OwnInv, WakePending, [Next]_vars
             PROVE  WakePending'
  OBVIOUS
<1> USE ConstantsAssumption DEF WakePending, ClosedInv, OwnInv, Idle
<1>1. ASSUME NEW c \in Clients, Established(c) PROVE WakePending'
  BY <1>1 DEF Established, session, client, TypeOK, Waking, Walked
<1>2. ASSUME NEW c \in Clients, NEW w \in Workers, Receive(c, w) PROVE WakePending'
  BY <1>2 DEF Receive, Goto, session, client, TypeOK, Waking, Walked
<1>3. ASSUME NEW c \in Clients, WriteResponse(c) PROVE WakePending'
  BY <1>3 DEF WriteResponse, CalledBack, session, client, TypeOK, Waking, Walked
<1>4. ASSUME NEW c \in Clients, WriteEvent(c) PROVE WakePending'
  BY <1>4 DEF WriteEvent, CalledBack, Walked, session, client, TypeOK, Waking, Walked
<1>5. ASSUME NEW c \in Clients, WriteNothing(c) PROVE WakePending'
  BY <1>5 DEF WriteNothing, CalledBack, Walked, session, client, TypeOK, Waking, Walked
<1>6. ASSUME NEW c \in Clients, WalkTimedOut(c) PROVE WakePending'
  BY <1>6 DEF WalkTimedOut, CalledBack, Walked, session, client, TypeOK, Waking, Walked
<1>7. ASSUME NEW c \in Clients, CloseTimedOut(c) PROVE WakePending'
  BY <1>7 DEF CloseTimedOut, Expiring, session, client, TypeOK, Waking, Walked
<1>8. ASSUME NEW c \in Clients, Closed(c) PROVE WakePending'
  BY <1>8 DEF Closed, session, client, TypeOK, Waking, Walked
<1>9. ASSUME NEW c \in Clients, ClosedAppend(c) PROVE WakePending'
  BY <1>9 DEF ClosedAppend, session, client, TypeOK, Waking, Walked
<1>10. ASSUME NEW c \in Clients, ClosedCleanup(c) PROVE WakePending'
  BY <1>10 DEF ClosedCleanup, Expiring, session, client, TypeOK, Waking, Walked
<1>11. ASSUME NEW w \in Workers, TaskDropped(w) PROVE WakePending'
  BY <1>11 DEF TaskDropped, Return, session, client, TypeOK, Waking, Walked
<1>12. ASSUME NEW w \in Workers, NEW c \in Clients, TaskCreate(w, c) PROVE WakePending'
  BY <1>12 DEF TaskCreate, Goto, session, client, TypeOK, Waking, Walked
<1>13. ASSUME NEW w \in Workers, NEW c \in Clients, CreateInsert(w, c) PROVE WakePending'
  BY <1>13 DEF CreateInsert, At, Goto, session, client, TypeOK, Waking, Walked
<1>14. ASSUME NEW w \in Workers, NEW c \in Clients, CreateSource(w, c) PROVE WakePending'
  <2>1. PICK s \in Sessions : /\ At(w, "source", c, s) /\ source' = [source EXCEPT ![s] = {c}]
                             /\ Goto(w, "adopt", c, worker[w].number, s)
    BY <1>14 DEF CreateSource
  <2>2. UNCHANGED <<destroy, messages, state, mine, responses, writable, service, watchdog>>
    BY <1>14 DEF CreateSource, client
  <2>4. watchdog.at # "idle" => watchdog.session # s
    BY <2>1 DEF NamingInv, Names, At
  <2>5. \A v \in Workers : worker[v].at \in {"wake", "event"} => worker'[v] = worker[v]
    BY <2>1 DEF At, Goto, TypeOK
  <2>6. \A d \in Clients : Waking(d) => Waking(d)'
    BY <2>1, <2>2, <2>4, <2>5, WatchdogFields DEF Waking, TypeOK
  <2> QED
    BY <2>2, <2>6 DEF Walked
<1>15. ASSUME NEW w \in Workers, NEW c \in Clients, CreateAdopt(w, c) PROVE WakePending'
  <2>1. PICK s \in Sessions :
          /\ At(w, "adopt", c, s) /\ mine' = [mine EXCEPT ![c] = mine[c] \cup {s}]
          /\ Goto(w, "respond", c, worker[w].number, s)
    BY <1>15 DEF CreateAdopt
  <2>2. UNCHANGED <<session, state, responses, writable, service, watchdog>>
    BY <1>15 DEF CreateAdopt
  <2>3. messages[s] = 0
    BY <2>1 DEF NamingInv, Names, Fresh, At
  <2>4. \A v \in Workers : worker[v].at \in {"wake", "event"} => worker'[v] = worker[v]
    BY <2>1 DEF At, Goto, TypeOK
  <2>5. \A d \in Clients : Waking(d) => Waking(d)'
    BY <2>2, <2>4 DEF Waking, session
  <2>6. \A d \in Clients : \A r \in Walked(d)' : r = s \/ r \in Walked(d)
    BY <2>1, <2>2 DEF Walked, TypeOK, session
  <2> QED
    BY <2>2, <2>3, <2>5, <2>6 DEF session
<1>16. ASSUME NEW w \in Workers, NEW c \in Clients, TaskOther(w, c) PROVE WakePending'
  BY <1>16 DEF TaskOther, Goto, session, client, TypeOK, Waking, Walked
<1>17. ASSUME NEW w \in Workers, NEW c \in Clients, TaskRequest(w, c) PROVE WakePending'
  BY <1>17 DEF TaskRequest, Goto, session, client, TypeOK, Waking, Walked
<1>18. ASSUME NEW w \in Workers, NEW c \in Clients, DestroyForget(w, c) PROVE WakePending'
  BY <1>18 DEF DestroyForget, At, Goto, session, client, TypeOK, Waking, Walked
<1>19. ASSUME NEW w \in Workers, NEW c \in Clients, DestroyForgotten(w, c) PROVE WakePending'
  BY <1>19 DEF DestroyForgotten, At, Goto, session, client, TypeOK, Waking, Walked
<1>20. ASSUME NEW w \in Workers, NEW c \in Clients, DestroyFlag(w, c) PROVE WakePending'
  BY <1>20 DEF DestroyFlag, At, Goto, session, client, TypeOK, Waking, Walked
<1>21. ASSUME NEW w \in Workers, NEW c \in Clients, DestroyRemove(w, c) PROVE WakePending'
  BY <1>21 DEF DestroyRemove, At, Goto, Timed, session, client, TypeOK, Waking, Walked
<1>22. ASSUME NEW w \in Workers, NEW c \in Clients, Respond(w, c) PROVE WakePending'
  <2>1. worker[w].at = "respond" /\ \A v \in Workers : v # w => worker'[v] = worker[v]
    BY <1>22 DEF Respond, At, Goto, Return, TypeOK
  <2>2. UNCHANGED <<session, state, mine, writable, service, watchdog>>
    BY <1>22 DEF Respond
  <2>3. \A v \in Workers : worker[v].at \in {"wake", "event"} => worker'[v] = worker[v]
    BY <2>1
  <2>4. \A d \in Clients : Waking(d) => Waking(d)'
    BY <2>2, <2>3 DEF Waking, session
  <2>5. \A d \in Clients : Walked(d)' = Walked(d)
    BY <2>2 DEF Walked, session
  <2>6. \A d \in Clients : responses'[d] = responses[d] \/ (d = c /\ Goto(w, "wake", c,
         worker[w].number, 0))
    BY <1>22 DEF Respond, TypeOK
  <2>7. Goto(w, "wake", c, worker[w].number, 0) => Waking(c)'
    BY DEF Goto, Waking, TypeOK
  <2> QED
    BY <2>2, <2>4, <2>5, <2>6, <2>7 DEF session
<1>23. ASSUME NEW w \in Workers, NEW c \in Clients, Wake(w, c) PROVE WakePending'
  BY <1>23 DEF Wake, At, Return, session, client, TypeOK, Waking, Walked
<1>24. ASSUME NEW w \in Workers, PushEvent(w) PROVE WakePending'
  BY <1>24, SMTT(40) DEF PushEvent, Goto, Creating, session, client, TypeOK, Waking, Walked
<1>25. ASSUME NEW w \in Workers, NEW c \in Clients, PushWake(w, c) PROVE WakePending'
  BY <1>25, SMTT(40) DEF PushWake, At, Goto, Return, session, client, TypeOK, Waking, Walked
<1>26. CASE Expire
  <2>1. PICK s \in table : /\ messages' = [messages EXCEPT ![s] = messages[s] + 1]
          /\ watchdog' = [at |-> IF source[s] = {} THEN "retire" ELSE "expired", session |-> s]
    BY <1>26 DEF Expire
  <2>2. watchdog.at = "idle" /\ UNCHANGED <<source, destroy, client, service, worker>>
    BY <1>26 DEF Expire
  <2>3. \A d \in Clients : Waking(d) => Waking(d)'
    BY <2>2 DEF Waking, client
  <2>4. \A d \in Clients : Walked(d)' = Walked(d)
    BY <2>2 DEF Walked, client
  <2>5. \A d \in Clients : s \in Walked(d) => source[s] = {d}
    BY DEF Walked
  <2>6. \A d \in Clients : s \in Walked(d) => Waking(d)'
    BY <2>1, <2>2, <2>5 DEF Waking
  <2>7. \A r \in Sessions : r # s => messages'[r] = messages[r]
    BY <2>1 DEF TypeOK
  <2> QED
    BY <2>2, <2>3, <2>4, <2>6, <2>7 DEF client, Walked, TypeOK
<1>27. ASSUME NEW c \in Clients, ExpireLock(c) PROVE WakePending'
  <2>1. /\ watchdog.at = "expired" /\ source[watchdog.session] = {c}
       /\ watchdog'.session = watchdog.session /\
              watchdog'.at = IF c \in old_wss THEN "retire" ELSE "wake"
    BY <1>27, WatchdogFields DEF ExpireLock, TypeOK, WatchdogStates
  <2>2. UNCHANGED <<session, client, service, worker>>
    BY <1>27 DEF ExpireLock
  <2>3. c \in old_wss /\ state[c] = "open" => service.at # "idle" /\ service.client = c
    OBVIOUS
  <2>4. \A d \in Clients : {d} = {c} => d = c
    OBVIOUS
  <2>5. \A d \in Clients : state[d] = "open" /\ Waking(d) => Waking(d)'
    BY <2>1, <2>2, <2>3, <2>4 DEF Waking, session, client
  <2> QED
    BY <2>2, <2>5 DEF Walked, session, client
<1>28. ASSUME NEW c \in Clients, ExpireWake(c) PROVE WakePending'
  <2>1. /\ watchdog.at = "wake" /\ source[watchdog.session] = {c}
       /\ writable' = [writable EXCEPT ![c] = TRUE]
    BY <1>28 DEF ExpireWake
  <2>2. UNCHANGED <<session, state, mine, responses, service, worker>>
    BY <1>28 DEF ExpireWake
  <2>3. \A d \in Clients : {d} = {c} => d = c
    OBVIOUS
  <2>4. writable'[c] /\ \A d \in Clients : writable[d] => writable'[d]
    BY <2>1 DEF TypeOK
  <2>5. \A d \in Clients : Waking(d) => Waking(d)'
    BY <2>1, <2>2, <2>3, <2>4 DEF Waking, session
  <2> QED
    BY <2>2, <2>5 DEF Walked, session
<1>29. CASE Retire
  BY <1>29 DEF Retire, Timed, session, client, TypeOK, Waking, Walked
<1>30. CASE Cleanup
  BY <1>30 DEF Cleanup, session, client, TypeOK, Waking, Walked
<1>31. CASE Tick
  BY <1>31 DEF Tick, Older, session, client, TypeOK, Waking, Walked
<1>33. ASSUME NEW c \in Clients, Refuse(c) PROVE WakePending'
  BY <1>33 DEF Refuse, session, client, TypeOK, Waking, Walked
<1>34. ASSUME NEW c \in Clients, WalkFreed(c) PROVE WakePending'
  BY <1>34 DEF WalkFreed, CalledBack, session, client, TypeOK, Waking, Walked
<1>35. ASSUME NEW w \in Workers, NEW c \in Clients, RequestFind(w, c) PROVE WakePending'
  BY <1>35 DEF RequestFind, Found, Creating, Destroying, At, Goto, session, client, TypeOK,
         Waking, Walked
<1>36. ASSUME NEW w \in Workers, NEW c \in Clients, RequestTouch(w, c) PROVE WakePending'
  BY <1>36 DEF RequestTouch, At, Goto, session, client, TypeOK, Waking, Walked
<1>32. CASE UNCHANGED vars
  BY <1>32 DEF vars, session, client, TypeOK, Waking, Walked
<1> QED
  BY <1>1, <1>2, <1>3, <1>4, <1>5, <1>6, <1>7, <1>8, <1>9, <1>10, <1>11,
     <1>12, <1>13, <1>14, <1>15, <1>16, <1>17, <1>18, <1>19, <1>20, <1>21,
     <1>22, <1>23, <1>24, <1>25, <1>26, <1>27, <1>28, <1>29, <1>30, <1>31,
     <1>32, <1>33, <1>34, <1>35, <1>36
  DEF Next, Callback, Closing, Connection, Work, Watchdog

\* The invariant that the theorems below rest on.
IInv == TypeOK /\ ClosedInv /\ NamingInv /\ TableInv /\ OwnInv /\ WakePending

LEMMA Invariance == Spec => []IInv
<1>1. Init => TypeOK
  BY ConstantsAssumption DEF Init, TypeOK, NoTimer, ServiceStates, WorkerStates, WatchdogStates
<1>2. Init => ClosedInv
  BY DEF Init, ClosedInv, ClosedForgotten, Idle
<1>3. Init => NamingInv
  BY DEF Init, NamingInv, Names, Fresh, Idle
<1>4. Init => TableInv /\ OwnInv /\ WakePending
  BY DEF Init, TableInv, OwnInv, WakePending, Walked, Idle
<1> QED
  BY <1>1, <1>2, <1>3, <1>4, TypeNext, ClosedNext, NamingNext, TableNext, OwnNext, WakeNext, PTL
  DEF Spec, IInv

\* No wake-up is lost, however the service thread, pool threads, plugins and
\* watchdog meet: what is queued for a client is never left without a callback
\* that is due.
THEOREM NoWakeupIsLost == Spec => []WakePending
BY Invariance, PTL DEF IInv

\* A closed client has no responses: tasks that are late leave none.
THEOREM ClosedClientsForget == Spec => []ClosedForgotten
<1>1. IInv => ClosedForgotten
  BY DEF IInv, ClosedInv
<1> QED
  BY <1>1, Invariance, PTL

\* However requests, events, the watchdog, its timers and the service thread
\* meet, and however long a socket takes to be writable, a callback walks a
\* session that has been freed in two cases only: an earlier callback came
\* between the watchdog's wake-up and its flag, or none came until the free.
THEOREM WalkedSessionsLive == Spec => []ClientSessionsLive
<1>1. Init => MineInv
  BY DEF Init, MineInv
<1>2. MineInv => ClientSessionsLive
  BY DEF MineInv, ClientSessionsLive
<1>3. IInv /\ MineInv /\ [Next]_vars => MineInv'
  BY MineNext DEF IInv
<1> QED
  BY <1>1, <1>2, <1>3, Invariance, PTL DEF Spec
=============================================================================
