----------------------------- MODULE SerialPlugin -----------------------------
(***************************************************************************)
(* plugin/libjanus_serial.c: the plugin that carries the JSON commands of  *)
(* a browser to a board on a serial port.  Four kinds of thread share its  *)
(* globals:                                                                *)
(*   - the gateway's main thread: janus_serial_init, then, at shutdown,    *)
(*     janus_serial_destroy;                                               *)
(*   - the gateway's request and media threads (Callers): create_session,  *)
(*     destroy_session, query_session, handle_message, setup_media,        *)
(*     hangup_media;                                                       *)
(*   - the handler thread, which serves the message queue one command at   *)
(*     a time and busy-waits for the board's answer;                       *)
(*   - the watchdog thread, which frees destroyed sessions after a grace   *)
(*     period.                                                             *)
(*                                                                         *)
(* A critical section of sessions_mutex is one action: nothing blocks      *)
(* inside one.  What is read or written outside the mutex is a step of its *)
(* own.  A handle gets at most one session in its life, so a session is    *)
(* named by its handle; `heap' tells whether its memory is valid.          *)
(***************************************************************************)
EXTENDS Integers, Sequences, FiniteSets

CONSTANTS
  Handles,      \* janus_plugin_session mappings the gateway hands out
  Callers,      \* gateway threads that call the plugin
  Bodies,       \* kinds of request: "command" the board answers, "ignored"
                \* it does not, "garbage" is not a JSON object
  Ports,        \* results of open(): "tty" > 0, "stdin" = 0, "error" = -1
  MaxMessages,  \* bound on handle_message calls that queue a message
  MaxSetups,    \* bound on setup_media calls, per handle
  Grace,        \* ticks between destroy_session and the free (5 seconds)
  AnswerTime    \* ticks the board may take for one answer

ASSUME ConstantsAssumption ==
  /\ Bodies \subseteq {"command", "ignored", "garbage"}
  /\ Ports \subseteq {"tty", "stdin", "error"}
  /\ MaxMessages \in Nat /\ MaxSetups \in Nat
  /\ Grace \in Nat \ {0} /\ AnswerTime \in Nat

\* The gateway runs finitely many threads.
ASSUME ThreadsAssumption == IsFiniteSet(Callers)

VARIABLES
  \* globals of the plugin
  initialized, stopping, \* the two atomic flags
  fd,                    \* the serial port's descriptor
  queue,                 \* the `messages' pointer: "null" or "live"
  messages,              \* the contents of the GAsyncQueue
  sessions,              \* keys of the hash table
  old_sessions,          \* how many nodes of the list hold the session
  \* sessions, by handle
  heap,                  \* memory of the session: "none", "live", "freed"
  destroyed,             \* NotDestroyed, or ticks since destroy_session
  hangingup,             \* the hangingup counter: 0, or 1 for any other value
  \* threads
  main,                  \* program counter of the gateway's main thread
  handler, current,      \* program counter of the handler, message in hand
  waited,                \* ticks spent in the handler's read loop
  watchdog,              \* program counter of the watchdog
  caller,                \* what each gateway thread is doing, on what handle
  \* environment
  gateway,               \* the gateway's view of each handle
  line,                  \* the serial line and the board behind it
  \* history
  initResult,            \* what janus_serial_init returned
  sent,                  \* messages queued so far
  served,                \* fate of each message taken from the queue
  setups, dones          \* per handle: setup_media calls, "done" events

globals == <<initialized, stopping, fd, queue>>
tables  == <<sessions, old_sessions, heap, destroyed>>
media   == <<hangingup, setups, dones>>
serving == <<handler, current, waited, line, served>>
vars == <<initialized, stopping, fd, queue, messages, sent, tables, media,
          main, initResult, serving, watchdog, caller, gateway>>

NotDestroyed == -1
NoMessage == [id |-> 0]
Idle == [op |-> "idle"]

\* A message is named by its rank in the queue's history.
Message == [id : Nat \ {0}, handle : Handles, body : Bodies]

Fates == {"answered", "stale", "error", "dropped", "rejected"}

\* The flag test with which every callback of the plugin begins.
Ready == initialized = 1 /\ stopping = 0

\* The caller c is inside the plugin, about to do step op for handle h.
At(c, op, h) == caller[c] = [op |-> op, handle |-> h]
Goto(c, op, h) == caller' = [caller EXCEPT ![c] = [op |-> op, handle |-> h]]
Return(c) == caller' = [caller EXCEPT ![c] = Idle]
InFlight(op, hs) == Cardinality({c \in Callers : \E h \in hs : At(c, op, h)})

-----------------------------------------------------------------------------
Init ==
  /\ initialized = 0 /\ stopping = 0
  /\ fd = "unset" /\ queue = "null" /\ messages = <<>>
  /\ sessions = {} /\ old_sessions = [h \in Handles |-> 0]
  /\ heap = [h \in Handles |-> "none"]
  /\ destroyed = [h \in Handles |-> NotDestroyed]
  /\ hangingup = [h \in Handles |-> 0]
  /\ main = "init" /\ initResult = "none"
  /\ handler = "none" /\ current = NoMessage /\ waited = 0
  /\ watchdog = "none"
  /\ caller = [c \in Callers |-> Idle]
  /\ gateway = [h \in Handles |-> "new"]
  /\ line = "quiet"
  /\ sent = 0 /\ served = <<>>
  /\ setups = [h \in Handles |-> 0] /\ dones = [h \in Handles |-> 0]

-----------------------------------------------------------------------------
(***************************************************************************)
(* The main thread: janus_serial_init.  The gateway starts its transports  *)
(* after it, whatever it returned, so no caller runs until main = "up".    *)
(***************************************************************************)

\* The tables, the queue, and `initialized', which is set before the port is
\* open and before any thread exists.
InitTables ==
  /\ main = "init" /\ stopping = 0
  /\ queue' = "live" /\ initialized' = 1
  /\ main' = "open"
  /\ UNCHANGED <<stopping, fd, messages, sent, tables, media, initResult,
                 serving, watchdog, caller, gateway>>

\* `if(fd = open(...))': descriptor 0 takes the error branch, which returns 0
\* and starts no thread; -1 is non-zero and is taken for a success.
InitOpen ==
  /\ main = "open"
  /\ fd' \in Ports
  /\ \/ fd' = "stdin" /\ main' = "up" /\ initResult' = "ok"
     \/ fd' # "stdin" /\ main' = "start_watchdog" /\ UNCHANGED initResult
  /\ UNCHANGED <<initialized, stopping, queue, messages, sent, tables, media,
                 serving, watchdog, caller, gateway>>

InitFails ==
  /\ initialized' = 0 /\ initResult' = "error" /\ main' = "up"

InitWatchdog ==
  /\ main = "start_watchdog"
  /\ \/ /\ watchdog' = "check" /\ main' = "start_handler"
        /\ UNCHANGED <<initialized, initResult>>
     \/ InitFails /\ UNCHANGED watchdog
  /\ UNCHANGED <<stopping, fd, queue, messages, sent, tables, media, serving,
                 caller, gateway>>

InitHandler ==
  /\ main = "start_handler"
  /\ \/ /\ handler' = "loop" /\ main' = "up" /\ initResult' = "ok"
        /\ UNCHANGED initialized
     \/ InitFails /\ UNCHANGED handler
  /\ UNCHANGED <<stopping, fd, queue, messages, sent, tables, media, current,
                 waited, line, served, watchdog, caller, gateway>>

(***************************************************************************)
(* The main thread: janus_serial_destroy.  The gateway has stopped its     *)
(* transports by then: only calls of media threads may still be running.   *)
(***************************************************************************)
TransportOps == {"insert", "push", "detach", "remove", "inspect"}
MediaOps == {"reset", "hangup", "done"}
Ops == TransportOps \cup MediaOps
TransportsStopped == \A c \in Callers : caller[c].op \notin TransportOps

\* An uninitialised plugin has nothing to destroy.
DestroyEnter ==
  /\ main = "up" /\ TransportsStopped
  /\ \/ initialized = 1 /\ stopping' = 1 /\ main' = "join_handler"
     \/ initialized = 0 /\ main' = "down" /\ UNCHANGED stopping
  /\ UNCHANGED <<initialized, fd, queue, messages, sent, tables, media,
                 initResult, serving, watchdog, caller, gateway>>

\* Mutant: the handler thread is not waited for.
ForgetHandler ==
  /\ main = "join_handler" /\ main' = "join_watchdog"
  /\ UNCHANGED <<globals, messages, sent, tables, media, initResult, serving,
                 watchdog, caller, gateway>>

JoinHandler ==
  /\ main = "join_handler" /\ handler \in {"none", "exited"}
  /\ handler' = "none" /\ main' = "join_watchdog"
  /\ UNCHANGED <<globals, messages, sent, tables, media, initResult, current,
                 waited, line, served, watchdog, caller, gateway>>

JoinWatchdog ==
  /\ main = "join_watchdog" /\ watchdog \in {"none", "exited"}
  /\ watchdog' = "none" /\ main' = "free"
  /\ UNCHANGED <<globals, messages, sent, tables, media, initResult, serving,
                 caller, gateway>>

\* The table goes, its sessions and those of old_sessions are not freed; the
\* queue frees the messages it still holds.
DestroyTables ==
  /\ main = "free"
  /\ sessions' = {} /\ messages' = <<>> /\ queue' = "null" /\ fd' = "closed"
  /\ main' = "clear_initialized"
  /\ UNCHANGED <<initialized, stopping, sent, old_sessions, heap, destroyed,
                 media, initResult, serving, watchdog, caller, gateway>>

\* `initialized' is cleared first, so that no caller ever sees the flags of a
\* running plugin again.
DestroyInitialized ==
  /\ main = "clear_initialized"
  /\ initialized' = 0 /\ main' = "clear_stopping"
  /\ UNCHANGED <<stopping, fd, queue, messages, sent, tables, media,
                 initResult, serving, watchdog, caller, gateway>>

DestroyStopping ==
  /\ main = "clear_stopping"
  /\ stopping' = 0 /\ main' = "down"
  /\ UNCHANGED <<initialized, fd, queue, messages, sent, tables, media,
                 initResult, serving, watchdog, caller, gateway>>

Main == \/ InitTables \/ InitOpen \/ InitWatchdog \/ InitHandler
        \/ DestroyEnter \/ JoinHandler \/ JoinWatchdog
        \/ DestroyTables \/ DestroyInitialized \/ DestroyStopping

-----------------------------------------------------------------------------
(***************************************************************************)
(* The gateway's threads.  A handle is attached once, then used by any     *)
(* number of threads at a time; a call begins while the gateway holds the  *)
(* handle for attached.  A call that Ready refuses changes nothing.        *)
(***************************************************************************)
Begin(c, h) == caller[c] = Idle /\ main = "up" /\ gateway[h] = "attached"

\* janus_serial_create_session up to the lock: handle->plugin_handle is set
\* before the session is in the table.
CreateSession(c, h) ==
  /\ caller[c] = Idle /\ main = "up" /\ gateway[h] = "new"
  /\ \/ /\ Ready
        /\ heap' = [heap EXCEPT ![h] = "live"]
        /\ gateway' = [gateway EXCEPT ![h] = "attaching"]
        /\ Goto(c, "insert", h)
     \/ /\ ~Ready
        /\ gateway' = [gateway EXCEPT ![h] = "failed"]
        /\ UNCHANGED <<heap, caller>>
  /\ UNCHANGED <<globals, messages, sent, sessions, old_sessions, destroyed,
                 media, main, initResult, serving, watchdog>>

CreateInsert(c, h) ==
  /\ At(c, "insert", h)
  /\ sessions' = sessions \cup {h}
  /\ gateway' = [gateway EXCEPT ![h] = "attached"]
  /\ Return(c)
  /\ UNCHANGED <<globals, messages, sent, old_sessions, heap, destroyed,
                 media, main, initResult, serving, watchdog>>

\* janus_serial_handle_message: the flags are read, then the message pushed;
\* the session is not looked at.
HandleMessage(c, h) ==
  /\ Begin(c, h) /\ Ready /\ sent + InFlight("push", Handles) < MaxMessages
  /\ Goto(c, "push", h)
  /\ UNCHANGED <<globals, messages, sent, tables, media, main, initResult,
                 serving, watchdog, gateway>>

\* Mutant: the message is queued before its handle is filled in.
PushMessageBare(c, h) ==
  /\ At(c, "push", h)
  /\ \E b \in Bodies :
       messages' = Append(messages, [id |-> sent + 1, handle |-> 0, body |-> b])
  /\ sent' = sent + 1
  /\ Return(c)
  /\ UNCHANGED <<globals, tables, media, main, initResult, serving, watchdog,
                 gateway>>

\* Mutant: the message overtakes those that wait.
PushMessageFront(c, h) ==
  /\ At(c, "push", h)
  /\ \E b \in Bodies :
       messages' = <<[id |-> sent + 1, handle |-> h, body |-> b]>> \o messages
  /\ sent' = sent + 1
  /\ Return(c)
  /\ UNCHANGED <<globals, tables, media, main, initResult, serving, watchdog,
                 gateway>>

PushMessage(c, h) ==
  /\ At(c, "push", h)
  /\ \E b \in Bodies :
       messages' = Append(messages, [id |-> sent + 1, handle |-> h, body |-> b])
  /\ sent' = sent + 1
  /\ Return(c)
  /\ UNCHANGED <<globals, tables, media, main, initResult, serving, watchdog,
                 gateway>>

\* The gateway has found the handle alive and is about to withdraw it: two
\* threads may both get here.
Detach(c, h) ==
  /\ Begin(c, h)
  /\ Goto(c, "detach", h)
  /\ UNCHANGED <<globals, messages, sent, tables, media, main, initResult,
                 serving, watchdog, gateway>>

\* janus_serial_destroy_session up to the lock.
DestroySession(c, h) ==
  /\ At(c, "detach", h)
  /\ gateway' = [gateway EXCEPT ![h] = "detached"]
  /\ \/ Ready /\ Goto(c, "remove", h)
     \/ ~Ready /\ Return(c)
  /\ UNCHANGED <<globals, messages, sent, tables, media, main, initResult,
                 serving, watchdog>>

\* Mutant: the session is moved to the old ones without looking at destroyed.
DestroyRemoveUnchecked(c, h) ==
  /\ At(c, "remove", h)
  /\ destroyed' = [destroyed EXCEPT ![h] = 0]
  /\ sessions' = sessions \ {h}
  /\ old_sessions' = [old_sessions EXCEPT ![h] = @ + 1]
  /\ Return(c)
  /\ UNCHANGED <<globals, messages, sent, heap, media, main, initResult,
                 serving, watchdog, gateway>>

\* Its critical section: only the first of several callers moves the session.
DestroyRemove(c, h) ==
  /\ At(c, "remove", h)
  /\ \/ /\ destroyed[h] = NotDestroyed
        /\ destroyed' = [destroyed EXCEPT ![h] = 0]
        /\ sessions' = sessions \ {h}
        /\ old_sessions' = [old_sessions EXCEPT ![h] = @ + 1]
     \/ /\ destroyed[h] # NotDestroyed
        /\ UNCHANGED <<destroyed, sessions, old_sessions>>
  /\ Return(c)
  /\ UNCHANGED <<globals, messages, sent, heap, media, main, initResult,
                 serving, watchdog, gateway>>

\* janus_serial_query_session: the session is read without the mutex.
QuerySession(c, h) ==
  /\ Begin(c, h) /\ Ready
  /\ Goto(c, "inspect", h)
  /\ UNCHANGED <<globals, messages, sent, tables, media, main, initResult,
                 serving, watchdog, gateway>>

QueryRead(c, h) ==
  /\ At(c, "inspect", h)
  /\ Return(c)
  /\ UNCHANGED <<globals, messages, sent, tables, media, main, initResult,
                 serving, watchdog, gateway>>

\* Calls of the media threads go on while the plugin is destroyed.
BeginMedia(c, h) ==
  /\ caller[c] = Idle /\ gateway[h] = "attached"
  /\ Ready /\ destroyed[h] = NotDestroyed

\* janus_serial_setup_media: the flag is reset whatever hangup_media is doing.
SetupMedia(c, h) ==
  /\ BeginMedia(c, h) /\ setups[h] + InFlight("reset", {h}) < MaxSetups
  /\ Goto(c, "reset", h)
  /\ UNCHANGED <<globals, messages, sent, tables, media, main, initResult,
                 serving, watchdog, gateway>>

SetupReset(c, h) ==
  /\ At(c, "reset", h)
  /\ hangingup' = [hangingup EXCEPT ![h] = 0]
  /\ setups' = [setups EXCEPT ![h] = @ + 1]
  /\ Return(c)
  /\ UNCHANGED <<globals, messages, sent, tables, dones, main, initResult,
                 serving, watchdog, gateway>>

\* Mutant: the old value of the counter is not looked at.
HangupAddBlind(c, h) ==
  /\ At(c, "hangup", h)
  /\ hangingup' = [hangingup EXCEPT ![h] = 1]
  /\ Goto(c, "done", h)
  /\ UNCHANGED <<globals, messages, sent, tables, setups, dones, main,
                 initResult, serving, watchdog, gateway>>

\* janus_serial_hangup_media: an atomic add decides who sends the event.
HangupMedia(c, h) ==
  /\ BeginMedia(c, h)
  /\ Goto(c, "hangup", h)
  /\ UNCHANGED <<globals, messages, sent, tables, media, main, initResult,
                 serving, watchdog, gateway>>

HangupAdd(c, h) ==
  /\ At(c, "hangup", h)
  /\ hangingup' = [hangingup EXCEPT ![h] = 1]
  /\ \/ hangingup[h] = 0 /\ Goto(c, "done", h)
     \/ hangingup[h] # 0 /\ Return(c)
  /\ UNCHANGED <<globals, messages, sent, tables, setups, dones, main,
                 initResult, serving, watchdog, gateway>>

\* The "done" event; the gateway refuses it for a handle it has withdrawn.
HangupDone(c, h) ==
  /\ At(c, "done", h)
  /\ dones' = [dones EXCEPT ![h] = IF gateway[h] = "attached" THEN @ + 1 ELSE @]
  /\ Return(c)
  /\ UNCHANGED <<globals, messages, sent, tables, hangingup, setups, main,
                 initResult, serving, watchdog, gateway>>

Call(c) == \E h \in Handles :
  \/ CreateSession(c, h) \/ HandleMessage(c, h) \/ Detach(c, h)
  \/ QuerySession(c, h) \/ SetupMedia(c, h) \/ HangupMedia(c, h)

\* What a thread inside the plugin does next.
Continue(c) == \E h \in Handles :
  \/ CreateInsert(c, h) \/ PushMessage(c, h)
  \/ DestroySession(c, h) \/ DestroyRemove(c, h) \/ QueryRead(c, h)
  \/ SetupReset(c, h) \/ HangupAdd(c, h) \/ HangupDone(c, h)

-----------------------------------------------------------------------------
(***************************************************************************)
(* The handler thread: janus_serial_handler.                               *)
(***************************************************************************)
Serve(fate) ==
  /\ served' = Append(served, fate)
  /\ current' = NoMessage
  /\ handler' = "loop"

\* Mutant: the loop looks at initialized only.
HandlerExitLate ==
  /\ handler = "loop" /\ initialized = 0
  /\ handler' = "exited"
  /\ UNCHANGED <<globals, messages, sent, tables, media, main, initResult,
                 current, waited, line, served, watchdog, caller, gateway>>

HandlerExit ==
  /\ handler = "loop" /\ ~Ready
  /\ handler' = "exited"
  /\ UNCHANGED <<globals, messages, sent, tables, media, main, initResult,
                 current, waited, line, served, watchdog, caller, gateway>>

HandlerPop ==
  /\ handler = "loop" /\ Ready /\ queue = "live" /\ messages # <<>>
  /\ current' = Head(messages) /\ messages' = Tail(messages)
  /\ handler' = "session"
  /\ UNCHANGED <<globals, sent, tables, media, main, initResult, waited, line,
                 served, watchdog, caller, gateway>>

\* The session is reached through the handle, outside the mutex.
HandlerSession ==
  /\ handler = "session"
  /\ \/ destroyed[current.handle] # NotDestroyed /\ Serve("dropped")
     \/ /\ destroyed[current.handle] = NotDestroyed
        /\ handler' = "parse" /\ UNCHANGED <<current, served>>
  /\ UNCHANGED <<globals, messages, sent, tables, media, main, initResult,
                 waited, line, watchdog, caller, gateway>>

\* Mutant: the error path leaves the loop.
HandlerErrorLeaves ==
  /\ handler = "parse" /\ current.body = "garbage"
  /\ served' = Append(served, "error") /\ current' = NoMessage
  /\ handler' = "exited"
  /\ UNCHANGED <<globals, messages, sent, tables, media, main, initResult,
                 waited, line, watchdog, caller, gateway>>

\* A missing message, or one that is not a JSON object: an error event with
\* the request's transaction.
HandlerError ==
  /\ handler = "parse" /\ current.body = "garbage"
  /\ Serve(IF gateway[current.handle] = "attached" THEN "error" ELSE "rejected")
  /\ UNCHANGED <<globals, messages, sent, tables, media, main, initResult,
                 waited, line, watchdog, caller, gateway>>

\* The command goes to the line; a failed write is only logged.
HandlerWrite ==
  /\ handler = "parse" /\ current.body # "garbage"
  /\ \/ fd = "tty" /\ line # "hungup" /\ line' = "requested"
     \/ (fd # "tty" \/ line = "hungup") /\ UNCHANGED line
  /\ handler' = "read" /\ waited' = 0
  /\ UNCHANGED <<globals, messages, sent, tables, media, main, initResult,
                 current, served, watchdog, caller, gateway>>

\* `while(read(...) == -1){}' ends when there is input, or when the line has
\* hung up and read() returns 0 without writing the buffer.
HandlerRead ==
  /\ handler = "read"
  /\ \/ line = "answered" /\ line' = "quiet" /\ handler' = "push"
     \/ line = "hungup" /\ UNCHANGED line /\ handler' = "push_stale"
  /\ UNCHANGED <<globals, messages, sent, tables, media, main, initResult,
                 current, waited, served, watchdog, caller, gateway>>

\* The event goes to the handle of the message; destroyed is not read again.
HandlerPush ==
  /\ handler \in {"push", "push_stale"}
  /\ Serve(IF gateway[current.handle] # "attached" THEN "rejected"
           ELSE IF handler = "push" THEN "answered" ELSE "stale")
  /\ UNCHANGED <<globals, messages, sent, tables, media, main, initResult,
                 waited, line, watchdog, caller, gateway>>

Handler == \/ HandlerExit \/ HandlerPop \/ HandlerSession \/ HandlerError
           \/ HandlerWrite \/ HandlerRead \/ HandlerPush

-----------------------------------------------------------------------------
(***************************************************************************)
(* The watchdog thread.  Its half-second sleep has no effect of its own.   *)
(***************************************************************************)
\* Mutant: a session is freed as soon as it is destroyed.
ExpiredAtOnce == {h \in Handles : old_sessions[h] > 0}

Expired == {h \in Handles : old_sessions[h] > 0 /\ destroyed[h] >= Grace}

WatchdogSweep ==
  /\ watchdog = "check" /\ Ready /\ Expired # {}
  /\ heap' = [h \in Handles |-> IF h \in Expired THEN "freed" ELSE heap[h]]
  /\ old_sessions' = [h \in Handles |-> IF h \in Expired THEN 0
                                        ELSE old_sessions[h]]
  /\ UNCHANGED <<globals, messages, sent, sessions, destroyed, media, main,
                 initResult, serving, watchdog, caller, gateway>>

\* Mutant: the watchdog leaves when the table is empty.
WatchdogLeaves ==
  /\ watchdog = "check" /\ (~Ready \/ sessions = {})
  /\ watchdog' = "exited"
  /\ UNCHANGED <<globals, messages, sent, tables, media, main, initResult,
                 serving, caller, gateway>>

WatchdogExit ==
  /\ watchdog = "check" /\ ~Ready
  /\ watchdog' = "exited"
  /\ UNCHANGED <<globals, messages, sent, tables, media, main, initResult,
                 serving, caller, gateway>>

-----------------------------------------------------------------------------
(***************************************************************************)
(* The environment.  A tick is far longer than any step of a thread: time  *)
(* passes only when every thread sleeps, waits for the board, or is done.  *)
(***************************************************************************)
BoardWillAnswer == line = "requested" /\ current # NoMessage /\ current.body = "command"

BoardAnswers ==
  /\ BoardWillAnswer
  /\ line' = "answered"
  /\ UNCHANGED <<globals, messages, sent, tables, media, main, initResult,
                 handler, current, waited, served, watchdog, caller, gateway>>

Unplug ==
  /\ fd = "tty" /\ line # "hungup"
  /\ line' = "hungup"
  /\ UNCHANGED <<globals, messages, sent, tables, media, main, initResult,
                 handler, current, waited, served, watchdog, caller, gateway>>

HandlerSleeps ==
  \/ handler \in {"none", "exited"}
  \/ handler = "loop" /\ messages = <<>>
  \/ /\ handler = "read" /\ line \notin {"answered", "hungup"}
     /\ BoardWillAnswer => waited < AnswerTime

Older(d) == IF d # NotDestroyed /\ d < Grace THEN d + 1 ELSE d

Tick ==
  /\ \A c \in Callers : caller[c] = Idle
  /\ HandlerSleeps
  /\ destroyed' = [h \in Handles |-> Older(destroyed[h])]
  /\ waited' = IF handler = "read" /\ waited < AnswerTime THEN waited + 1
               ELSE waited
  /\ UNCHANGED <<globals, messages, sent, sessions, old_sessions, heap, media,
                 main, initResult, handler, current, line, served, watchdog,
                 caller, gateway>>

Next == \/ Main
        \/ \E c \in Callers : Call(c) \/ Continue(c)
        \/ Handler
        \/ WatchdogSweep \/ WatchdogExit
        \/ BoardAnswers \/ Unplug \/ Tick

Spec == Init /\ [][Next]_vars

\* What the scheduler and the clock give: every thread that can step does,
\* and time does not stand still.  A shutdown, a call and an unplugged board
\* are never owed; the board's answer is owed only in PromptSpec.
Scheduling ==
  /\ WF_vars(Main /\ main # "up")
  /\ WF_vars(Handler)
  /\ WF_vars(WatchdogSweep \/ WatchdogExit)
  /\ \A c \in Callers : WF_vars(Continue(c))
  /\ SF_vars(Tick)

FairSpec   == Spec /\ Scheduling
PromptSpec == FairSpec /\ WF_vars(BoardAnswers)

-----------------------------------------------------------------------------
(***************************************************************************)
(* Correctness.                                                            *)
(***************************************************************************)
MainPC == {"init", "open", "start_watchdog", "start_handler", "up",
           "join_handler", "join_watchdog", "free", "clear_initialized",
           "clear_stopping", "down"}
HandlerPC == {"none", "loop", "session", "parse", "read", "push",
              "push_stale", "exited"}

\* Every variable has its type.
TypeOK ==
  /\ initialized \in 0..1 /\ stopping \in 0..1
  /\ fd \in {"unset", "tty", "stdin", "error", "closed"}
  /\ queue \in {"null", "live"} /\ messages \in Seq(Message)
  /\ sessions \subseteq Handles /\ old_sessions \in [Handles -> Nat]
  /\ heap \in [Handles -> {"none", "live", "freed"}]
  /\ destroyed \in [Handles -> {NotDestroyed} \cup 0..Grace]
  /\ hangingup \in [Handles -> 0..1]
  /\ main \in MainPC /\ initResult \in {"none", "ok", "error"}
  /\ handler \in HandlerPC /\ current \in Message \cup {NoMessage}
  /\ waited \in 0..AnswerTime
  /\ watchdog \in {"none", "check", "exited"}
  /\ caller \in [Callers -> {Idle} \cup [op : Ops, handle : Handles]]
  /\ gateway \in [Handles -> {"new", "attaching", "attached", "failed", "detached"}]
  /\ line \in {"quiet", "requested", "answered", "hungup"}
  /\ sent \in Nat /\ served \in Seq(Fates)
  /\ setups \in [Handles -> Nat] /\ dones \in [Handles -> Nat]

\* Two threads may destroy one session at once and a third may free it: the
\* hash table holds valid, undestroyed sessions only, and the list of old
\* sessions holds each destroyed session once until it is freed, so that the
\* watchdog frees none twice (DestroyRemove, WatchdogSweep).
SessionTables == \A h \in Handles :
  /\ h \in sessions => heap[h] = "live" /\ destroyed[h] = NotDestroyed
  /\ old_sessions[h] <= 1
  /\ old_sessions[h] = 1 <=> heap[h] = "live" /\ destroyed[h] # NotDestroyed

\* A gateway thread that entered the plugin before the session was destroyed
\* still finds its memory valid when it gets to use it, without the mutex:
\* the grace period outlives every call.
CallerMemory == \A c \in Callers, h \in Handles :
  caller[c] \in [op : {"remove", "reset", "hangup", "inspect"}, handle : {h}]
    => heap[h] = "live"

\* The handler reaches the session of a queued message only while it is valid.
HandlerMemory ==
  handler = "session" => heap[current.handle] = "live"

\* Why: a session is destroyed only after the gateway has withdrawn its
\* handle, and it cannot age while a call is inside the plugin.
HandleInv(h) ==
  /\ gateway[h] \in {"new", "failed"} => heap[h] = "none"
  /\ heap[h] = "none" =>
       destroyed[h] = NotDestroyed /\ old_sessions[h] = 0 /\ h \notin sessions
  /\ gateway[h] \in {"attaching", "attached"} =>
       heap[h] = "live" /\ destroyed[h] = NotDestroyed

CallInv(op, h) ==
  /\ heap[h] = "live" /\ destroyed[h] \in {NotDestroyed, 0}
  /\ op = "insert" => gateway[h] = "attaching"
  /\ op # "insert" => gateway[h] \in {"attached", "detached"}
  /\ op = "remove" => gateway[h] = "detached"

MemoryInv ==
  /\ SessionTables
  /\ \A h \in Handles : HandleInv(h)
  /\ \A c \in Callers, op \in Ops, h \in Handles : At(c, op, h) => CallInv(op, h)
  /\ \A c, d \in Callers, h \in Handles :
       At(c, "insert", h) /\ At(d, "insert", h) => c = d

InHand == IF current = NoMessage THEN 0 ELSE 1

\* Messages are served one at a time in the order they were queued, none lost
\* and none twice, whatever becomes of their sessions; what is left over when
\* the plugin is destroyed is the only exception.  The handler holds a message
\* exactly from its pop to its free.
ServedInOrder ==
  /\ current = NoMessage <=> handler \in {"none", "loop", "exited"}
  /\ queue = "live" => sent = Len(served) + InHand + Len(messages)
  /\ current # NoMessage => current.id = Len(served) + 1
  /\ \A i \in 1..Len(messages) : messages[i].id = Len(served) + InHand + i

\* When the tables, the queue and the port are torn down, both threads are
\* gone and no caller is on its way to a table or to the queue.
QuietTeardown ==
  main \in {"free", "clear_initialized", "clear_stopping", "down"} /\ stopping = 1 =>
    /\ handler = "none" /\ watchdog = "none"
    /\ \A c \in Callers : caller[c].op \notin TransportOps

\* Why the queue and the teardown are safe: each thread is alive only between
\* the phases of main that start and join it, and a transport's call keeps the
\* gateway from shutting down.
PhaseInv ==
  /\ stopping = 1 <=> main \in {"join_handler", "join_watchdog", "free",
                               "clear_initialized", "clear_stopping"}
  /\ main \in {"init", "open", "start_watchdog", "start_handler", "join_watchdog",
              "free", "clear_initialized", "clear_stopping"} => handler = "none"
  /\ main \in {"free", "clear_initialized", "clear_stopping"} => watchdog = "none"
  /\ main # "up" => TransportsStopped

QueueInv ==
  /\ ServedInOrder
  /\ queue = "null" => main \in {"init", "clear_initialized", "clear_stopping", "down"}
  /\ main = "init" => sent = 0 /\ served = <<>> /\ messages = <<>>

\* What has been accepted and not yet met its fate; the ticks that n messages
\* may take, and those the one in hand may still take; and the handler that
\* waits for ever, for an answer to a command that no port took.
Backlog == InHand + Len(messages)
Load(n) == n * AnswerTime
Left == IF handler \in {"session", "parse"} THEN AnswerTime
        ELSE IF handler \in {"read", "push", "push_stale"} THEN AnswerTime - waited
        ELSE 0
Stuck == handler = "read" /\ line = "quiet"

\* Why the handler finds the memory of its messages: only a session that has
\* been destroyed for the grace period is freed, and one with a message in the
\* queue is younger than that by what the messages ahead may take, if a board
\* that answers is never more than K messages behind.
AgeInv(K) ==
  /\ \A h \in Handles : /\ heap[h] = "freed" => destroyed[h] >= Grace
                        /\ gateway[h] = "detached" => heap[h] # "none"
  /\ main \in {"init", "open", "start_watchdog", "start_handler"} => messages = <<>>
  /\ Stuck => fd # "tty"
  /\ handler \notin {"none", "exited"} /\ ~Stuck =>
       /\ \A i \in 1..Len(messages) :
            destroyed[messages[i].handle] + Load(i - 1) + Left <= Load(K - 1)
       /\ handler = "session" => destroyed[current.handle] <= Load(K - 1)

\* Concurrent hang-ups send one "done" event; only a new setup_media allows
\* another one.
OneDonePerHangup == \A h \in Handles : dones[h] <= setups[h] + 1

\* Every message queued is served, unless the plugin is shut down.
EveryMessageServed == \A n \in 1..MaxMessages :
  sent >= n ~> Len(served) >= n \/ main # "up"

\* A shutdown that has begun ends.
ShutdownEnds == stopping = 1 ~> main = "down"

\* The memory of a destroyed session is given back while the plugin runs.
SessionReclaimed == \A h \in Handles :
  old_sessions[h] > 0 ~> old_sessions[h] = 0 \/ ~Ready
=============================================================================
