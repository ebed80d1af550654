---------------------------- MODULE WebSocketClient ----------------------------
(***************************************************************************)
(* janus-gateway/janus.c, built with HAVE_WEBSOCKETS: the gateway's        *)
(* clients over WebSockets.  Four kinds of thread meet in a client's       *)
(* structure:                                                              *)
(*   - the service thread runs libwebsockets' callbacks: a connection is   *)
(*     established, has something to read, may be written, is closed;      *)
(*   - pool threads serve a client's requests, those of a closed client    *)
(*     that still wait included; a plugin's thread pushes events (Workers);*)
(*   - the watchdog expires idle sessions and frees removed ones later.    *)
(*                                                                         *)
(* Three mutexes, S = sessions_mutex, O = old_wss_mutex and C =            *)
(* client->mutex, are not variables: who holds one across a step follows   *)
(* from what each thread is doing (SFree, OFree, CFree).  The structure of *)
(* a closed connection may become that of a new one.  Sessions are numbered*)
(* in the order of creation and named by nobody but their client; what two *)
(* requests on one session can do to each other is GatewaySessions'.       *)
(***************************************************************************)
EXTENDS Integers, FiniteSets

CONSTANTS
  Clients,        \* client structures (janus_websocket_client)
  Workers,        \* pool threads, and the plugins' threads
  MaxSessions,    \* bound on the sessions created
  MaxConnections, \* bound on the connections one structure serves
  MaxEvents,      \* plugins push no more while this many events of a session wait
  MaxWaiting,     \* a client asks no more while this many requests are not answered
  SessionTimeout, \* ticks without activity that expire a session (60 seconds)
  CleanupDelay    \* ticks between a session's removal and its free (3 seconds)

ASSUME ConstantsAssumption ==
  /\ MaxSessions \in Nat /\ MaxConnections \in Nat /\ MaxEvents \in Nat
  /\ MaxWaiting \in Nat
  /\ SessionTimeout \in Nat \ {0} /\ CleanupDelay \in Nat \ {0}

VARIABLES
  \* sessions
  table,      \* those in the hash table `sessions'
  memory,     \* "none", "live" or "freed"
  source,     \* session->source: {} or {the client}
  number,     \* which of that client's connections asked for the session
  destroy, timeout, \* the two flags
  idle,       \* ticks since last_activity; SessionTimeout when that is 0
  messages,   \* events in session->messages
  timer,      \* age of the watchdog's timer for it, or NoTimer
  \* clients
  state,      \* "none", "open" or "closed"
  opened,     \* connections so far
  old_wss,    \* the list of closed clients
  mine,       \* client->sessions, the client's raw pointers
  responses,  \* client->responses, a count
  writable,   \* libwebsocket_callback_on_writable has been asked for
  \* threads
  service, worker, watchdog,
  missed      \* history, read by no guard: the sessions whose end their client's
              \* callback had no chance to see before they could be freed

session == <<table, memory, source, number, destroy, timeout, idle, messages, timer>>
client == <<state, opened, old_wss, mine, responses, writable>>
vars == <<session, client, service, worker, watchdog, missed>>

Sessions == 1..MaxSessions
NoTimer == -1
Idle == [at |-> "idle"]

At(w, at, c, s) == worker[w].at = at /\ worker[w].client = c /\ worker[w].session = s
Goto(w, at, c, n, s) ==
  worker' = [worker EXCEPT ![w] = [at |-> at, client |-> c, number |-> n, session |-> s]]
Return(w) == worker' = [worker EXCEPT ![w] = Idle]

\* Who holds which mutex while it waits for another.
SFree == watchdog.at \notin {"expired", "wake", "retire"}
OFree == watchdog.at # "wake" /\ \A w \in Workers : worker[w].at \notin {"wake", "forgetting"}
CFree(c) == ~(service.at \in {"timeout", "cleanup"} /\ service.client = c)

-----------------------------------------------------------------------------
Init ==
  /\ table = {} /\ memory = [s \in Sessions |-> "none"]
  /\ source = [s \in Sessions |-> {}] /\ number = [s \in Sessions |-> 0]
  /\ destroy = [s \in Sessions |-> 0] /\ timeout = [s \in Sessions |-> 0]
  /\ idle = [s \in Sessions |-> 0] /\ messages = [s \in Sessions |-> 0]
  /\ timer = [s \in Sessions |-> NoTimer]
  /\ state = [c \in Clients |-> "none"] /\ opened = [c \in Clients |-> 0]
  /\ old_wss = {} /\ mine = [c \in Clients |-> {}]
  /\ responses = [c \in Clients |-> 0] /\ writable = [c \in Clients |-> FALSE]
  /\ service = Idle /\ worker = [w \in Workers |-> Idle] /\ watchdog = Idle
  /\ missed = {}

-----------------------------------------------------------------------------
(***************************************************************************)
(* The service thread: janus_wss_callback.                                 *)
(***************************************************************************)
Established(c) ==
  /\ service = Idle /\ state[c] # "open" /\ opened[c] < MaxConnections /\ OFree
  /\ old_wss' = old_wss \ {c}
  /\ state' = [state EXCEPT ![c] = "open"]
  /\ opened' = [opened EXCEPT ![c] = @ + 1]
  /\ mine' = [mine EXCEPT ![c] = {}]
  /\ responses' = [responses EXCEPT ![c] = 0]
  /\ writable' = [writable EXCEPT ![c] = TRUE]
  /\ UNCHANGED <<session, service, worker, watchdog, missed>>

Unanswered(c) == responses[c] + Cardinality(
  {w \in Workers : worker[w].at \notin {"idle", "event", "wake"} /\ worker[w].client = c})

\* A request goes to the pool, which has a thread for each.
Receive(c, w) ==
  /\ service = Idle /\ state[c] = "open" /\ worker[w] = Idle
  /\ Unanswered(c) < MaxWaiting
  /\ Goto(w, "task", c, opened[c], 0)
  /\ UNCHANGED <<session, client, service, watchdog, missed>>

\* What is no JSON object is answered at once, by the service thread.
Refuse(c) ==
  /\ service = Idle /\ state[c] = "open" /\ OFree
  /\ Unanswered(c) < MaxWaiting
  /\ responses' = [responses EXCEPT ![c] = @ + 1]
  /\ writable' = [writable EXCEPT ![c] = TRUE]
  /\ UNCHANGED <<session, state, opened, old_wss, mine, service, worker, watchdog, missed>>

CalledBack(c) == service = Idle /\ state[c] = "open" /\ writable[c]

\* Mutant: nothing is asked for after a response.
WriteResponseOnce(c) ==
  /\ CalledBack(c) /\ responses[c] > 0
  /\ responses' = [responses EXCEPT ![c] = @ - 1]
  /\ writable' = [writable EXCEPT ![c] = FALSE]
  /\ UNCHANGED <<session, state, opened, old_wss, mine, service, worker, watchdog, missed>>

\* Responses first, one a call; the next call is asked for at once.
WriteResponse(c) ==
  /\ CalledBack(c) /\ responses[c] > 0
  /\ responses' = [responses EXCEPT ![c] = @ - 1]
  /\ UNCHANGED <<session, state, opened, old_wss, mine, writable, service,
                 worker, watchdog, missed>>

\* Then the first event of any session, in the order of the hash table.
Walked(c) == {s \in mine[c] : destroy[s] = 0}

\* Mutant: a call is asked for only when the session has more events.
WriteEventOnce(c) ==
  /\ CalledBack(c) /\ responses[c] = 0
  /\ \E s \in Walked(c) :
       /\ messages[s] > 0 /\ messages' = [messages EXCEPT ![s] = @ - 1]
       /\ writable' = [writable EXCEPT ![c] = messages[s] > 1]
  /\ UNCHANGED <<table, memory, source, number, destroy, timeout, idle, timer, state,
                 opened, old_wss, mine, responses, service, worker, watchdog, missed>>

WriteEvent(c) ==
  /\ CalledBack(c) /\ responses[c] = 0
  /\ \E s \in Walked(c) :
       messages[s] > 0 /\ messages' = [messages EXCEPT ![s] = @ - 1]
  /\ UNCHANGED <<table, memory, source, number, destroy, timeout, idle, timer,
                 client, service, worker, watchdog, missed>>

\* The callback comes too early for a session that the watchdog has announced
\* and not yet marked: nothing asks for another.
WriteNothing(c) ==
  /\ CalledBack(c) /\ responses[c] = 0
  /\ \A s \in Walked(c) : messages[s] = 0 /\ timeout[s] = 0
  /\ writable' = [writable EXCEPT ![c] = FALSE]
  /\ missed' = missed \cup {s \in mine[c] : watchdog = [at |-> "retire", session |-> s]}
  /\ UNCHANGED <<session, state, opened, old_wss, mine, responses, service,
                 worker, watchdog>>

\* A session without events that has timed out takes the client with it; the
\* walk waits for S in the middle of holding C.
WalkTimedOut(c) ==
  /\ CalledBack(c) /\ responses[c] = 0
  /\ \E s \in Walked(c) :
       /\ messages[s] = 0 /\ timeout[s] = 1
       /\ service' = [at |-> "timeout", client |-> c, session |-> s]
  /\ writable' = [writable EXCEPT ![c] = FALSE]
  /\ UNCHANGED <<session, state, opened, old_wss, mine, responses, worker,
                 watchdog, missed>>

\* The memory of a session that has been freed may read as anything: destroyed,
\* as above, or timed out.  (That the process may end here is not modelled.)
WalkFreed(c) ==
  /\ CalledBack(c) /\ responses[c] = 0
  /\ \E s \in mine[c] :
       /\ memory[s] = "freed"
       /\ service' = [at |-> "timeout", client |-> c, session |-> s]
  /\ writable' = [writable EXCEPT ![c] = FALSE]
  /\ UNCHANGED <<session, state, opened, old_wss, mine, responses, worker,
                 watchdog, missed>>

\* "This will trigger a timeout".
Expiring(ss) == idle' = [s \in Sessions |-> IF s \in ss THEN SessionTimeout ELSE idle[s]]

CloseTimedOut(c) ==
  /\ service.at = "timeout" /\ service.client = c /\ SFree
  /\ Expiring(mine[c] \ {service.session})
  /\ mine' = [mine EXCEPT ![c] = {}]
  /\ service' = [at |-> "append", client |-> c]
  /\ UNCHANGED <<table, memory, source, number, destroy, timeout, messages,
                 timer, state, opened, old_wss, responses, writable, worker,
                 watchdog, missed>>

\* The peer has gone.
Closed(c) ==
  /\ service = Idle /\ state[c] = "open"
  /\ service' = [at |-> "append", client |-> c]
  /\ UNCHANGED <<session, client, worker, watchdog, missed>>

ClosedAppend(c) ==
  /\ service = [at |-> "append", client |-> c] /\ OFree
  /\ old_wss' = old_wss \cup {c}
  /\ service' = [at |-> "cleanup", client |-> c]
  /\ UNCHANGED <<session, state, opened, mine, responses, writable, worker,
                 watchdog, missed>>

ClosedCleanup(c) ==
  /\ service = [at |-> "cleanup", client |-> c] /\ (mine[c] = {} \/ SFree)
  /\ Expiring(mine[c])
  /\ state' = [state EXCEPT ![c] = "closed"]
  /\ mine' = [mine EXCEPT ![c] = {}]
  /\ responses' = [responses EXCEPT ![c] = 0]
  /\ writable' = [writable EXCEPT ![c] = FALSE]
  /\ service' = Idle
  /\ UNCHANGED <<table, memory, source, number, destroy, timeout, messages,
                 timer, opened, old_wss, worker, watchdog, missed>>

Callback(c) ==
  WriteResponse(c) \/ WriteEvent(c) \/ WriteNothing(c) \/ WalkTimedOut(c) \/ WalkFreed(c)
Closing(c) == CloseTimedOut(c) \/ ClosedAppend(c) \/ ClosedCleanup(c)
Connection(c) ==
  Established(c) \/ Closed(c) \/ Refuse(c) \/ \E w \in Workers : Receive(c, w)

-----------------------------------------------------------------------------
(***************************************************************************)
(* Pool threads: janus_wss_task and what of janus_process_incoming_request *)
(* concerns the client.                                                    *)
(***************************************************************************)
\* A request of a closed client is dropped; the mutex is then given back.
TaskDropped(w) ==
  /\ worker[w].at = "task" /\ OFree /\ worker[w].client \in old_wss
  /\ Return(w)
  /\ UNCHANGED <<session, client, service, watchdog, missed>>

\* "create": the session is in the table before it knows its source, and in
\* its client's table last, without another look at old_wss.
TaskCreate(w, c) ==
  /\ worker[w].at = "task" /\ worker[w].client = c /\ OFree /\ c \notin old_wss
  /\ \E s \in Sessions : memory[s] = "none"
  /\ Goto(w, "create", c, worker[w].number, 0)
  /\ UNCHANGED <<session, client, service, watchdog, missed>>

CreateInsert(w, c) == \E s \in Sessions :
  /\ At(w, "create", c, 0) /\ SFree
  /\ memory[s] = "none" /\ \A r \in 1..(s - 1) : memory[r] # "none"
  /\ memory' = [memory EXCEPT ![s] = "live"]
  /\ number' = [number EXCEPT ![s] = worker[w].number]
  /\ table' = table \cup {s}
  /\ Goto(w, "source", c, worker[w].number, s)
  /\ UNCHANGED <<source, destroy, timeout, idle, messages, timer, client,
                 service, watchdog, missed>>

CreateSource(w, c) == \E s \in Sessions :
  /\ At(w, "source", c, s)
  /\ source' = [source EXCEPT ![s] = {c}]
  /\ Goto(w, "adopt", c, worker[w].number, s)
  /\ UNCHANGED <<table, memory, number, destroy, timeout, idle, messages, timer,
                 client, service, watchdog, missed>>

CreateAdopt(w, c) == \E s \in Sessions :
  /\ At(w, "adopt", c, s) /\ CFree(c)
  /\ mine' = [mine EXCEPT ![c] = @ \cup {s}]
  /\ Goto(w, "respond", c, worker[w].number, s)
  /\ UNCHANGED <<session, state, opened, old_wss, responses, writable, service,
                 watchdog, missed>>

\* A session is its client's to name once the answer to "create" is on its way;
\* the client asks once to destroy it.
Creating(s) == \E w \in Workers :
  worker[w].at \in {"source", "adopt", "respond"} /\ worker[w].session = s
Destroying(s) == \E w \in Workers :
  worker[w].at \in {"doom", "forget", "forgetting", "flag", "remove"} /\ worker[w].session = s

\* An error, or a request on nothing.
TaskOther(w, c) ==
  /\ worker[w].at = "task" /\ worker[w].client = c /\ OFree /\ c \notin old_wss
  /\ Goto(w, "respond", c, worker[w].number, 0)
  /\ UNCHANGED <<session, client, service, watchdog, missed>>

\* A request on a session: it is looked up under S, if it is still there ...
TaskRequest(w, c) ==
  /\ worker[w].at = "task" /\ worker[w].client = c /\ OFree /\ c \notin old_wss
  /\ Goto(w, "find", c, worker[w].number, 0)
  /\ UNCHANGED <<session, client, service, watchdog, missed>>

Found(w, c, s) == /\ At(w, "find", c, 0) /\ SFree
                  /\ s \in table /\ source[s] = {c} /\ number[s] = worker[w].number
                  /\ ~Creating(s)

RequestFind(w, c) ==
  /\ \/ At(w, "find", c, 0) /\ SFree /\ Goto(w, "respond", c, worker[w].number, 0)
     \/ \E s \in Sessions : /\ Found(w, c, s)
                            /\ Goto(w, "touch", c, worker[w].number, s)
     \/ \E s \in Sessions : /\ Found(w, c, s) /\ ~Destroying(s)
                            /\ Goto(w, "doom", c, worker[w].number, s)
  /\ UNCHANGED <<session, client, service, watchdog, missed>>

\* ... and its activity is noted outside every mutex, whatever the watchdog and
\* the service thread have made of the session and its client in the meantime.
RequestTouch(w, c) == \E s \in Sessions :
  /\ \/ At(w, "touch", c, s) /\ Goto(w, "respond", c, worker[w].number, 0)
     \/ At(w, "doom", c, s) /\ Goto(w, "forget", c, worker[w].number, s)
  /\ idle' = [idle EXCEPT ![s] = 0]
  /\ UNCHANGED <<table, memory, source, number, destroy, timeout, messages, timer,
                 client, service, watchdog, missed>>

\* "destroy": first the client's table, under O and C ...
DestroyForget(w, c) == \E s \in Sessions :
  /\ At(w, "forget", c, s) /\ OFree
  /\ Goto(w, IF c \in old_wss THEN "flag" ELSE "forgetting", c, worker[w].number, s)
  /\ UNCHANGED <<session, client, service, watchdog, missed>>

\* Mutant: the client keeps the session it has destroyed.
DestroyRemembered(w, c) == \E s \in Sessions :
  /\ At(w, "forgetting", c, s) /\ CFree(c)
  /\ Goto(w, "flag", c, worker[w].number, s)
  /\ UNCHANGED <<session, client, service, watchdog, missed>>

DestroyForgotten(w, c) == \E s \in Sessions :
  /\ At(w, "forgetting", c, s) /\ CFree(c)
  /\ mine' = [mine EXCEPT ![c] = @ \ {s}]
  /\ Goto(w, "flag", c, worker[w].number, s)
  /\ UNCHANGED <<session, state, opened, old_wss, responses, writable, service,
                 watchdog, missed>>

\* ... then the flag, then the table of all sessions under S.
DestroyFlag(w, c) == \E s \in Sessions :
  /\ At(w, "flag", c, s)
  /\ destroy' = [destroy EXCEPT ![s] = 1]
  /\ Goto(w, "remove", c, worker[w].number, s)
  /\ UNCHANGED <<table, memory, source, number, timeout, idle, messages, timer,
                 client, service, watchdog, missed>>

\* The first timer of a session is the one that frees it.
Timed(s) == timer' = [timer EXCEPT ![s] = IF @ = NoTimer THEN 0 ELSE @]

DestroyRemove(w, c) == \E s \in Sessions :
  /\ At(w, "remove", c, s) /\ SFree
  /\ table' = table \ {s} /\ Timed(s)
  /\ Goto(w, "respond", c, worker[w].number, 0)
  /\ UNCHANGED <<memory, source, number, destroy, timeout, idle, messages, client,
                 service, watchdog, missed>>

\* Mutant: the response is queued whether the client is closed or not.
RespondBlind(w, c) == \E s \in 0..MaxSessions :
  /\ At(w, "respond", c, s) /\ OFree
  /\ responses' = [responses EXCEPT ![c] = @ + 1]
  /\ \/ c \in old_wss /\ Return(w)
     \/ c \notin old_wss /\ Goto(w, "wake", c, worker[w].number, 0)
  /\ UNCHANGED <<session, state, opened, old_wss, mine, writable, service,
                 watchdog, missed>>

\* janus_process_success and _error.
Respond(w, c) == \E s \in 0..MaxSessions :
  /\ At(w, "respond", c, s) /\ OFree
  /\ \/ c \in old_wss /\ Return(w) /\ UNCHANGED responses
     \/ /\ c \notin old_wss
        /\ responses' = [responses EXCEPT ![c] = @ + 1]
        /\ Goto(w, "wake", c, worker[w].number, 0)
  /\ UNCHANGED <<session, state, opened, old_wss, mine, writable, service,
                 watchdog, missed>>

Wake(w, c) ==
  /\ At(w, "wake", c, 0) /\ CFree(c)
  /\ writable' = [writable EXCEPT ![c] = TRUE]
  /\ Return(w)
  /\ UNCHANGED <<session, state, opened, old_wss, mine, responses, service,
                 watchdog, missed>>

(***************************************************************************)
(* A plugin's thread: janus_push_event.  Its handle was attached by the    *)
(* client, which knew the session.                                         *)
(***************************************************************************)
PushEvent(w) == \E s \in Sessions, c \in Clients :
  /\ worker[w] = Idle /\ messages[s] < MaxEvents
  /\ memory[s] = "live" /\ destroy[s] = 0 /\ source[s] = {c} /\ ~Creating(s)
  /\ messages' = [messages EXCEPT ![s] = @ + 1]
  /\ Goto(w, "event", c, number[s], s)
  /\ UNCHANGED <<table, memory, source, number, destroy, timeout, idle, timer,
                 client, service, watchdog, missed>>

PushWake(w, c) == \E s \in Sessions :
  /\ At(w, "event", c, s) /\ OFree
  /\ \/ c \in old_wss /\ Return(w)
     \/ c \notin old_wss /\ Goto(w, "wake", c, worker[w].number, 0)
  /\ UNCHANGED <<session, client, service, watchdog, missed>>

Work(w) ==
  \/ TaskDropped(w)
  \/ \E c \in Clients :
       \/ TaskCreate(w, c) \/ CreateInsert(w, c) \/ CreateSource(w, c) \/ CreateAdopt(w, c)
       \/ TaskOther(w, c) \/ TaskRequest(w, c) \/ RequestFind(w, c) \/ RequestTouch(w, c)
       \/ DestroyForget(w, c) \/ DestroyForgotten(w, c) \/ DestroyFlag(w, c) \/ DestroyRemove(w, c)
       \/ Respond(w, c) \/ Wake(w, c) \/ PushWake(w, c)

-----------------------------------------------------------------------------
(***************************************************************************)
(* The watchdog: janus_check_sessions, one session at a time, under S ...  *)
(***************************************************************************)
\* Mutant: sessions of a closed client do not expire.
ExpireOpen == \E s \in table :
  /\ watchdog = Idle /\ source[s] \cap old_wss = {}
  /\ destroy[s] = 0 /\ timeout[s] = 0 /\ idle[s] = SessionTimeout
  /\ messages' = [messages EXCEPT ![s] = @ + 1]
  /\ watchdog' = [at |-> IF source[s] = {} THEN "retire" ELSE "expired", session |-> s]
  /\ UNCHANGED <<table, memory, source, number, destroy, timeout, idle, timer,
                 client, service, worker, missed>>

Expire == \E s \in table :
  /\ watchdog = Idle
  /\ destroy[s] = 0 /\ timeout[s] = 0 /\ idle[s] = SessionTimeout
  /\ messages' = [messages EXCEPT ![s] = @ + 1]
  /\ watchdog' = [at |-> IF source[s] = {} THEN "retire" ELSE "expired", session |-> s]
  /\ UNCHANGED <<table, memory, source, number, destroy, timeout, idle, timer,
                 client, service, worker, missed>>

ExpireLock(c) ==
  /\ watchdog.at = "expired" /\ source[watchdog.session] = {c} /\ OFree
  /\ watchdog' = [watchdog EXCEPT !.at = IF c \in old_wss THEN "retire" ELSE "wake"]
  /\ UNCHANGED <<session, client, service, worker, missed>>

ExpireWake(c) ==
  /\ watchdog.at = "wake" /\ source[watchdog.session] = {c} /\ CFree(c)
  /\ writable' = [writable EXCEPT ![c] = TRUE]
  /\ watchdog' = [watchdog EXCEPT !.at = "retire"]
  /\ UNCHANGED <<session, state, opened, old_wss, mine, responses, service,
                 worker, missed>>

Retire == LET s == watchdog.session IN
  /\ watchdog.at = "retire"
  /\ timeout' = [timeout EXCEPT ![s] = 1]
  /\ table' = table \ {s} /\ Timed(s)
  /\ watchdog' = Idle
  /\ UNCHANGED <<memory, source, number, destroy, idle, messages, client, service,
                 worker, missed>>

\* ... and janus_cleanup_session.
Cleanup == \E s \in Sessions :
  /\ watchdog = Idle /\ timer[s] = CleanupDelay /\ memory[s] = "live"
  /\ memory' = [memory EXCEPT ![s] = "freed"]
  /\ destroy' = [destroy EXCEPT ![s] = 1]
  /\ messages' = [messages EXCEPT ![s] = 0]
  /\ source' = [source EXCEPT ![s] = {}]
  /\ UNCHANGED <<table, number, timeout, idle, timer, client, service, worker,
                 watchdog, missed>>

Watchdog == Expire \/ (\E c \in Clients : ExpireLock(c) \/ ExpireWake(c)) \/ Retire \/ Cleanup

(***************************************************************************)
(* Time passes between the steps of threads, a tick being longer than any  *)
(* of them; a socket may take any number of ticks to be writable.          *)
(***************************************************************************)
\* Mutant: one tick too many.
OlderLoose(bound, n) == IF n \in 0..bound THEN n + 1 ELSE n

Older(bound, n) == IF n \in 0..(bound - 1) THEN n + 1 ELSE n

Stalled(s) == \E c \in Clients : state[c] = "open" /\ writable[c] /\ s \in mine[c]

Tick ==
  /\ service = Idle /\ watchdog = Idle /\ \A w \in Workers : worker[w] = Idle
  /\ idle' = [s \in Sessions |-> IF memory[s] = "live" THEN Older(SessionTimeout, idle[s])
                                                       ELSE idle[s]]
  /\ timer' = [s \in Sessions |-> Older(CleanupDelay, timer[s])]
  /\ missed' = missed \cup {s \in Sessions : timer'[s] = CleanupDelay /\ Stalled(s)}
  /\ UNCHANGED <<table, memory, source, number, destroy, timeout, messages, client,
                 service, worker, watchdog>>

Next == \/ \E c \in Clients : Callback(c) \/ Closing(c) \/ Connection(c)
        \/ \E w \in Workers : Work(w) \/ PushEvent(w)
        \/ Watchdog \/ Tick

Spec == Init /\ [][Next]_vars

\* Threads run, one that waits for a mutex gets it if it is given back again
\* and again, and time passes if there are moments between the threads' steps.
\* A socket that a callback waits for becomes writable or its connection ends;
\* nobody owes a connection, its end or a request.
FairSpec == /\ Spec /\ SF_vars(Watchdog) /\ SF_vars(Tick)
            /\ \A w \in Workers : SF_vars(Work(w))
            /\ \A c \in Clients : /\ SF_vars(Closing(c))
                                  /\ SF_vars(Callback(c) \/ (writable[c] /\ Closed(c)))

-----------------------------------------------------------------------------
Steps == {"task", "create", "source", "adopt", "find", "touch", "doom", "forget",
          "forgetting", "flag", "remove", "respond", "wake", "event"}

ServiceStates ==
  {Idle} \cup [at : {"append", "cleanup"}, client : Clients]
         \cup [at : {"timeout"}, client : Clients, session : Sessions]
WorkerStates ==
  {Idle} \cup [at : Steps, client : Clients, number : Nat, session : 0..MaxSessions]
WatchdogStates == {Idle} \cup [at : {"expired", "wake", "retire"}, session : Sessions]

TypeOK ==
  /\ table \subseteq Sessions /\ memory \in [Sessions -> {"none", "live", "freed"}]
  /\ source \in [Sessions -> SUBSET Clients] /\ number \in [Sessions -> Nat]
  /\ destroy \in [Sessions -> 0..1] /\ timeout \in [Sessions -> 0..1]
  /\ idle \in [Sessions -> 0..SessionTimeout] /\ messages \in [Sessions -> Nat]
  /\ timer \in [Sessions -> {NoTimer} \cup 0..CleanupDelay]
  /\ state \in [Clients -> {"none", "open", "closed"}] /\ opened \in [Clients -> Nat]
  /\ old_wss \subseteq Clients /\ mine \in [Clients -> SUBSET Sessions]
  /\ responses \in [Clients -> Nat] /\ writable \in [Clients -> BOOLEAN]
  /\ service \in ServiceStates /\ worker \in [Workers -> WorkerStates]
  /\ watchdog \in WatchdogStates /\ missed \subseteq Sessions

\* What an open client's table holds is still allocated when a callback walks
\* it, whatever requests, watchdog and callbacks do, but for a session in
\* `missed': its callback came between the watchdog's wake-up and the flag, or
\* the socket was not writable for all of the time until the free.
ClientSessionsLive == \A c \in Clients :
  state[c] = "open" => \A s \in mine[c] : memory[s] = "live" \/ s \in missed

\* No wake-up is lost: while something waits to be sent to a client, a callback
\* has been asked for or somebody is about to ask.
Waking(c) ==
  \/ writable[c] \/ (service.at # "idle" /\ service.client = c)
  \/ \E w \in Workers : worker[w].at \in {"wake", "event"} /\ worker[w].client = c
  \/ watchdog.at \in {"expired", "wake"} /\ source[watchdog.session] = {c}
WakePending == \A c \in Clients :
  state[c] = "open" /\ (responses[c] > 0 \/ \E s \in Walked(c) : messages[s] > 0)
    => Waking(c)

\* A closed client keeps no responses, and its late tasks leave none.
ClosedForgotten == \A c \in Clients : state[c] # "open" => responses[c] = 0

\* The service thread, in the middle of a walk, holds C and waits for S; the
\* watchdog holds S and waits for C, or for O while a pool thread or a plugin's
\* holds O and waits for C.  Nothing ends that.
Deadlocked ==
  /\ service.at = "timeout"
  /\ \/ watchdog.at = "wake" /\ source[watchdog.session] = {service.client}
     \/ /\ watchdog.at = "expired"
        /\ \E w \in Workers : /\ worker[w].at \in {"wake", "forgetting"}
                              /\ worker[w].client = service.client

\* When a session times out its client is closed, but for the two ways above in
\* which its callback misses it and for a deadlock ...
TimedOut(c) == {s \in mine[c] : timeout[s] = 1 /\ s \notin missed}
TimedOutClosed == \A c \in Clients :
  state[c] = "open" /\ TimedOut(c) # {} ~>
    state[c] # "open" \/ TimedOut(c) = {} \/ Deadlocked

\* What the code says of it: "Close the WebSocket: the watchdog will get rid of
\* resources".
ClientClosed == \A s \in Sessions, c \in Clients :
  timeout[s] = 1 /\ s \in mine[c] /\ state[c] = "open" ~> state[c] # "open" \/ s \in missed

\* ... and the sessions of a connection that has closed are freed, even those
\* whose activity a late request has noted after the close.
Gone(s) == \E c \in Clients : source[s] = {c} /\ (number[s] < opened[c] \/ state[c] = "closed")
ClosedReclaimed == \A s \in Sessions : Gone(s) ~> memory[s] = "freed" \/ Deadlocked
=============================================================================
