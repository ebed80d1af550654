# A formal model of the janusb serial gateway

janusb carries JSON commands from a web page to a small board and brings the
answers back. The page talks to a Janus WebRTC gateway over HTTP; the gateway
hands each message to a plugin; the plugin writes it to a serial port; an STM32
board reads it from its USB virtual COM port, executes it and answers.

    page --HTTP--> gateway core --callbacks--> serial plugin --tty--> board
      <--long poll--   (janus.c)  <--push_event--  (libjanus_serial.c)  (stm32f4)

This directory holds TLA+ modules translated from that code, configurations
that check them with TLC on small instances, and theorems proved with TLAPS
for instances of every size.

## Contents

| file | what it is |
| --- | --- |
| `SerialPlugin.tla` | the serial plugin: main thread, gateway threads, handler, watchdog |
| `CommandService.tla` | what the plugin promises to the gateway, abstractly |
| `SerialPluginService.tla` | the refinement mapping from the plugin to the service |
| `SerialPluginProofs.tla`, `SerialPluginServiceProofs.tla` | theorems about the plugin, and the proof that it implements the service |
| `SerialPluginMemoryProofs.tla` | theorems about the memory the plugin's handler reaches through a message |
| `MCSerialPlugin.tla`, `plugin_*.cfg` | instances of the plugin for TLC |
| `GatewaySessions.tla` | the gateway core's HTTP sessions: requests, polls, expiry, cleanup |
| `GatewaySessionsProofs.tla` | theorems about `GatewaySessions` |
| `MCGatewaySessions.tla`, `gateway_*.cfg` | instances of the gateway for TLC |
| `WebSocketClient.tla`, `ws_*.cfg` | the gateway's WebSocket clients: callbacks, pool, watchdog, three mutexes |
| `WebSocketClientProofs.tla` | theorems about `WebSocketClient` |
| `VcpLink.tla` | the board's virtual COM port, between interrupt and main loop |
| `VcpLinkProofs.tla` | theorems about `VcpLink` |
| `SerialBridge.tla`, `serial_bridge.cfg`, `bridge_stale.cfg` | the plugin's handler and `VcpLink` joined by the tty |
| `SerialBridgeProofs.tla` | theorems about the dialogue: answers come in time, nothing is executed twice |
| `Rtcp.tla`, `rtcp.cfg` | the RTCP helpers on compound packets, and the echo plugin's use of them |
| `RtcpProofs.tla` | theorems about `Rtcp` |
| `PROJECT.json` | components, runs, mutants, source map, findings, hazards, theorems |

Run a check with `tlc -workers 2 -config plugin_safety.cfg MCSerialPlugin.tla`
and a proof with `tlapm SerialPluginProofs.tla`.

## 1. Inventory of the system

### Serial plugin (`src/plugin/libjanus_serial.c`) - modelled

*State.* The flags `initialized` and `stopping`, the port `fd`, the message
queue, the hash table `sessions`, the list `old_sessions`, and per session
`destroyed` and `hangingup`.
*Operations.* `janus_serial_init`, `_destroy`, `_create_session`,
`_destroy_session`, `_query_session`, `_handle_message`, `_setup_media`,
`_hangup_media`; two threads, `_handler` and `_watchdog`.
*Interaction.* The gateway calls from its main, request and media threads; the
handler calls back `push_event`; `sessions_mutex` covers the two tables only.
*Hard.* Flags and sessions are read outside the mutex. Destroyed sessions are
freed after five seconds by the clock alone, while messages that lead to them
wait in the queue. The handler busy-waits for the board. Shutdown joins both
threads.
*Correct when* the tables agree with memory and no session is freed twice, no
thread uses a freed session, messages are served in order and once, teardown
finds nobody inside, shutdown ends, memory is given back.
*Premise.* The gateway has stopped its transports before it calls `destroy`
(`TransportsStopped`). `janus.c:5656-5666` stops them, but does not join the pool
threads of WebSocket clients; a request that one of these still serves when
`plugin->destroy` is called (5704) is outside the model.

### Gateway sessions and handles (`src/janus-gateway/janus.c`) - partly

*State.* The tables `sessions` and `old_sessions`, per session `destroy`,
`timeout`, `last_activity`, the `messages` queue and the plugin handles; timers
on the watchdog's main loop.
*Operations.* `create`, `attach`, `destroy`, `keepalive`, other requests, the
30-second long poll (`janus_ws_notifier`), `janus_push_event`, the periodic
`janus_check_sessions`, the delayed `janus_cleanup_session`.
*Interaction.* HTTP threads, the plugins' threads and the watchdog thread share
the tables under `sessions_mutex`, and hold bare pointers outside it.
*Hard.* A pointer found under the mutex is used after it; sessions are freed
three seconds after they leave the table, with no reference counts; a poll
lasts thirty.
*Correct when* the table gives out sessions that exist, no request or poll finds
its session freed, no session expires under a poll, destroyed and abandoned
sessions are freed.
*Left out.* RabbitMQ and the admin interface, ICE state of handles, command
line, shutdown.

### WebSocket transport (`src/janus-gateway/janus.c`, `HAVE_WEBSOCKETS`) - modelled

*State.* Per client `responses`, `sessions` (raw pointers), `destroy`, a thread
pool; the list `old_wss`; per session `source`.
*Operations.* `janus_wss_callback` (established, receive, writable, closed),
`janus_wss_task` and the requests it serves, `janus_push_event`,
`janus_check_sessions` and `janus_cleanup_session` as far as they touch a client.
*Interaction.* The service thread, a pool thread per request, plugins' threads
and the watchdog; `sessions_mutex`, `old_wss_mutex` and `client->mutex`, taken in
different orders.
*Hard.* The writable callback walks sessions the watchdog may free; wake-ups are
asked for by others than the one who sends, and for a timeout before it is marked;
a peer may stall; requests outlive the connection that made them, and
libwebsockets may use its structure again.
*Correct when* no wake-up is lost, a closed client keeps nothing and its sessions
are freed, a timed-out one is closed, and what is walked is allocated. The code
falls short of the last two in ways that the properties name: two deadlocks, and
two ways to miss the end of a session.

### Virtual COM port and CDC class (`usbd_cdc_if_template.c`, `usbd_cdc.c`) - partly

*State.* `s_RxBuffer` (buffer, position, size, `ReadDone`), the class handle
`pClassData`, `TxState`, the two data endpoints.
*Operations.* `USBD_CDC_Init`, `_DeInit`, `_DataOut`, `_DataIn` in the USB
interrupt; `VCP_read`, `VCP_write` in the main loop.
*Hard.* Interrupt and loop share the buffer with no lock; the host may reset
the bus at any moment.
*Correct when* no byte is lost, doubled or reordered, the buffer has one owner,
the port goes neither deaf nor mute.

### Board firmware command loop (`src/example/stm32f4/src/main.c`) - partly

Gathers the bytes `VCP_read` gives into a request, parses and executes it,
answers with `VCP_write`. Its control is in `VcpLink` and `SerialBridge`; what a
command does to the lamps and the 256-byte bounds are not.

### Plugin and board joined by the tty - modelled

`libjanus_serial.c:549-572` against `main.c`: flush, write, drain, read, flush on
one side, packets both ways, and a board that may drop an answer on the other.
*Hard.* The tty stays canonical and echoes, since the plugin clears `ICANON` and
`ECHO` in the wrong word; an answer takes four packets, of which `read` returns
those up to the line's end; several commands have no answer at all.
*Correct when* the board's guarantees hold behind the tty, echoes and resets
included, no request is executed twice, and answers are not exchanged.

### RTCP helpers and echo plugin (`rtcp.c`, `libjanus_serial2.c`) - partly

Pure functions on compound packets, which find the next message by the length of
the last, and the echo plugin's three uses of them.
*Hard.* In-place writes at offsets that depend on type and format; numbers with a
width; a buffer whose limit is counted in words.
*Correct when* packets stay what they were but for the words meant, rates are
honest, reports complete.
*Left out.* `has_fir`, `has_pli` and the two messages they look for (fixed
patterns); the echo plugin's threads and tables, which are those of the serial
plugin made from it; its recorder. The plugin is not in the build.

### Components not modelled

| component | state and operations | why not |
| --- | --- | --- |
| JSON tokenizer of the board (`jsmn.c`) | parser position, token array | third-party, a pure scanner; `SerialBridge` leaves its verdict on a request open |
| USB device core (`usbd_core.c`, `usbd_ctlreq.c`, `usbd_ioreq.c`) | device state, EP0 state | the vendor's; `VcpLink` sees what control transfers come to: configured or not |
| Recorder (`record.c`) | file, writable flag, mutex | used by the echo plugin alone, which is not in the build |
| Configuration parser (`config.c`) | list of categories and items | read once at start, before any thread runs |
| Browser page (`html/serial.js`) | buttons and labels | nothing in it is promised anywhere |
| Gateway utilities | none of their own | - |
| `janus.js` | third-party transport library | - |
| Older plugin copy, test program | - | not in the build; pure I/O |
| Board support, HAL, CMSIS, newlib | registers and tables | vendor code |

The behaviours that are hard to test are listed, each at its line, under
"hazards" in `PROJECT.json`.

## 2. How the modules correspond to the code

### SerialPlugin

A critical section of `sessions_mutex` is one action, because nothing blocks
inside one; what is read or written outside it is a step of its own. Atomic
flags and queue operations are atomic. Each thread has a program counter.

| thread | actions | code |
| --- | --- | --- |
| main | `InitTables`, `InitOpen`, `InitFails`, `InitWatchdog`, `InitHandler`, `DestroyEnter`, `JoinHandler`, `JoinWatchdog`, `DestroyTables`, `DestroyInitialized`, `DestroyStopping` | `janus_serial_init`, `janus_serial_destroy` |
| callers | `CreateSession`, `CreateInsert`, `DestroySession`, `DestroyRemove`, `QuerySession`, `QueryRead`, `HandleMessage`, `PushMessage`, `SetupMedia`, `SetupReset`, `HangupMedia`, `HangupAdd`, `HangupDone` | the callbacks of the same names |
| handler | `HandlerPop`, `HandlerSession`, `HandlerError`, `HandlerWrite`, `HandlerRead`, `HandlerPush`, `HandlerExit` | `janus_serial_handler` |
| watchdog | `WatchdogSweep`, `WatchdogExit` | `janus_serial_watchdog` |
| outside | `BoardAnswers`, `Unplug`, `Tick` | the board, the tty, the clock |

A message's text is one of three kinds: "command" (the board answers),
"ignored" (it does not), "garbage" (not a JSON object; the plugin interface
lets any JSON value through). A session is named by its handle and `heap` tells
whether its memory is valid. `Tick` stands for a time far longer than any step
of a thread: it waits until no gateway thread is inside the plugin and the
handler sleeps or waits for the board. This is what the source's own grace
period of seconds relies on, and the proofs rely on it as well. Bodies are
taken to fit the handler's 256-byte line.

### CommandService and SerialPluginService

`CommandService` forgets threads, tables, memory and flags: commands are
accepted while the service is open, taken one at a time in order, and each meets
one fate that its handle and the board explain. The mapping reads the queue as
what waits and the handler's message as the command in hand; the service is open
between the end of `init` and the first step of `destroy`.

### GatewaySessions

`Workers` are the HTTP threads and the plugins' threads. Every critical section
of `sessions_mutex` is one action (`CreateInsert`, `Find`, `DestroyRemove`,
`Expire`, ...); what a thread does with the session it has found is a later step.
`Expire`, `Cleanup` and `SessionFree` are the watchdog's main loop;
`PollFirst`, `PollDeliver`, `PollSleep` and `PollKeepalive` are the long poll.
Sessions are numbered in the order of creation; `memory` is "live", "freed" or,
once something has been done to freed memory, "misused". `Named` are the ids
applications choose (`"id"` in a create request) and may choose again; other ids
come once. A drawn id has 32 random bits (`janus.c:411`) and is compared with the
table of that moment only, so one may be drawn twice: it then belongs to `Named`,
for which the properties say less.

### VcpLink

`Configure`, `Deconfigure`, `DataOut` and `DataIn` are interrupt handlers, which
do not nest, and may come between any two steps of the loop. `VCP_read` is split
where the interrupt could matter: the load of position and byte, the
write-back, the clearing of `ReadDone`, the arming of the endpoint; `VCP_write`
is split between the claim of `TxState` and the hand-over to the controller. A
byte is its place in the host's stream. A packet has at least one byte.

### SerialBridge

EXTENDS `VcpLink` and adds the handler's half of the dialogue (`Pop`, `Write`,
`Drain`, `ReadAnswer`, `Flush`), the tty between (`SendPacket`, `TakePacket`) and
contents for answers: a packet is named by its request and by whether the answer's
line ends in it. A request is a stretch of the stream (`spans`); `Newlines` are all
its line ends, those that `json_dumps` puts inside included, and the board drops
them. What the board has gathered may be several requests, pieces of them, and
echoes: only where a request is whole (`Carries`) can `BoardExecutes` answer it,
and it need not, since several whole requests have no answer (`main.c:117-199`). The
rest parses as command 0 on id 0, which has none either.

`libjanus_serial.c:252-256` clears `ICANON` and `ECHO` in `c_iflag`, so the tty keeps
what the driver set in `c_lflag`: canonical and echoing. `ReadAnswer` therefore waits
for a line end and takes the packets up to it, and `TakePacket` sends back up to
`EchoMax` bytes of what it takes. A handler whose request has no answer waits for
ever, as the code does (finding 1).

### WebSocketClient

`Established`, `Receive`, `WriteResponse`, `WriteEvent`, `WriteNothing`,
`WalkTimedOut`, `CloseTimedOut`, `Closed`, `ClosedAppend`, `ClosedCleanup` are the
callbacks; `Task...`, `Create...`, `Destroy...`, `Respond`, `Wake` are a pool
thread; `PushEvent`, `PushWake` a plugin's; `Expire...`, `Retire`, `Cleanup` the
watchdog. A step ends where a thread takes a mutex or lets go of the last one. The
mutexes are not variables: who holds one while it waits for another follows from
the program counters (`SFree`, `OFree`, `CFree`). A client is a structure, and
`opened` counts the connections it has served; a task remembers the connection
that sent it. A request looks at `old_wss` (`TaskRequest`), finds its session under
`sessions_mutex` (`RequestFind`) and notes its activity outside (`RequestTouch`), in
three steps, between which the client may close and the session expire. `Refuse` is
the service thread's own answer to what is no JSON object.

A tick is longer than any step of a thread, and that is all that is said of it: a
callback may wait for its socket for any number of ticks, and it may come between
the watchdog's wake-up for a timeout and `session->timeout = 1`
(`janus.c:368-374`). In both cases the three seconds may run out while the client
still has the session. `missed` is a history of these sessions: those that a
callback passed by in that moment, and those whose client had a callback waiting
for its socket at the tick that makes them due (`Stalled`). The properties except
these sessions and no others. What a walk makes of freed memory is open
(`WalkFreed`).

### Rtcp

A packet is the sequence of its 32-bit words, and `Walk` is the loop all functions
share. `FixSsrc`, `RemoveNacks` and `CapRemb` change a packet in place; `Encode`
and `Nacks` build the gateway's own. Histories remember the messages a packet
should hold, the cap it was given and the numbers reported. Words, mantissas and
sequence numbers have a width, smaller than in the code; `Named` adds 16-bit
numbers as the code does, with no wrap. `Bit` is the shift `1 << n`. `Decode` shifts
a mantissa by the peer's exponent in `WordBits` bits and loses what does not fit, as
`rtcp.c:512` and 556 do in 32; what a shift by more than the width gives is
undefined in C, and `LongShift` names the two results that builds have.

## 3. The runs

All bounds are CONSTANTS of the modules. `CHECK_DEADLOCK FALSE` is set because
each system may really stop: the plugin's process ends after `destroy`, the
gateway's clients may fall silent with all sessions freed, and the bounded host
of the board runs out of bytes.

| run | instance | shows |
| --- | --- | --- |
| `plugin_safety` | 2 handles, 2 callers, 2 messages, command and garbage, every outcome of `open`, grace 2, answers within 1 tick | `TypeOK`, `SessionTables`, `CallerMemory`, `HandlerMemory`, `ServedInOrder`, `QuietTeardown` |
| `plugin_liveness` | 1 handle, 2 callers, 2 messages, a set-up, a board that answers | `OneDonePerHangup`, `EveryMessageServed`, `ShutdownEnds`, `SessionReclaimed`, `ImplementsService`, `ServiceIsLive` |
| `plugin_unanswered` | one command without an answer | finding: `ShutdownEnds` is violated |
| `plugin_slow_board` | answers as slow as the grace period | finding: `HandlerMemory` is violated |
| `gateway_safety` | 2 workers, 2 sessions, a drawn and a named id, 1 event, poll 2, timeout 3, cleanup 2 ticks | `TypeOK`, `TableLive`, `UserMemory`, `PollProtects`, `NothingLeaks` |
| `gateway_liveness` | 1 worker, 2 sessions, 2 drawn ids | `Reclaimed`, `AbandonedReclaimed` |
| `gateway_reuse` | 2 workers, 1 session | finding: `FoundDestroyedExists` is violated |
| `ws_client` | 1 client of 1 connection, 1 worker, 2 sessions, 1 event, timeout 1, cleanup 1 | `TypeOK`, `ClientSessionsLive`, `WakePending`, `ClosedForgotten`, `TimedOutClosed`, `ClosedReclaimed` |
| `ws_deadlock` | 1 client, 2 sessions | finding: `ClientClosed` is violated |
| `serial_bridge` | packets of up to 2 bytes, 8 bytes with line ends at 2, 5 and 8, up to 3 requests, answers of 2 packets whose line ends in either, 1 byte of echo a packet, 1 reconfiguration | `BridgeTypeOK`, `AnswersInTime`, `BufferOwned`, `TxHonest`, `StreamIntact`, `NothingTwice`, `PortAlive`, `RequestsExecuted` |
| `bridge_stale` | 2 requests of 2 bytes | finding: `AnswerOwn` is violated |
| `rtcp` | packets of up to 3 messages of 15 kinds, mantissas of 3 bits, exponents 3, 5 and 6 in integers of 6 bits, sequence numbers modulo 8, up to 4 lost | `PacketIsBlocks`, `SsrcFixed`, `CapHonest`, `ReportComplete` |

*Why the bounds suffice.* Two handles let a session be freed while another lives;
two callers race on one session, on the hang-up counter and on the queue; two
messages make one wait behind another; two ticks of grace separate "destroyed"
from "expired" by an instant in which the handler may still come. In the gateway,
a poll is shorter than the timeout and the cleanup longer than one sleep of a
poll, as in the code (30 < 60 seconds; 3 seconds > 100 ms):
`DurationsAssumption`. Two sessions let an id be used again. Over WebSockets, two
sessions of one client are what the deadlock needs, and one worker is at once the
thread that outlives a connection, the plugin's, and the third party of the longer
deadlock; one tick of timeout and one of cleanup let a stalled peer lose a session.
Structures that serve several connections, and several clients, are the theorems'.
In the dialogue, a request of two bytes fills a packet and one of three or more,
with a line end inside or not, takes several, so that pieces arrive while the loop
runs; answers of two packets leave one behind, with the line end before or in it;
an echo comes between requests and inside them; the reconfiguration hits the loop
and the interrupt at every step. Three messages let an event be two behind, which
`AnswersInTime` forbids. For RTCP, three messages put one before, at and after the
place that is written, fifteen kinds cover every branch of the walks, exponents of
3, 5 and 6 give rates that fit, that overflow, and whose shift is as long as the
integer, and four lost numbers modulo eight with masks of two bits make blocks
full, overfull and past the end of the sequence.

### Fairness

* *Plugin* (`Scheduling`): weak fairness of each thread (they run or sleep, and
  nothing but the board blocks them), of a call's continuation, strong fairness
  of `Tick` (the clock does not stop because calls keep coming). No call, no
  shutdown and no unplugging is owed. `PromptSpec` adds that the board answers
  what it can; only `plugin_liveness` and `plugin_unanswered` use it, and in the
  second the command is of a kind the board does not answer.
* *Gateway* (`FairSpec`): weak fairness of the watchdog thread and of each
  request under way, and time passes for ever unless nothing is left to age
  (`Still`): a run with infinitely many requests within one tick is no run of the
  program. No client owes a request.
* *WebSocket clients* (`FairSpec`): strong fairness of the watchdog, of each pool
  thread and of a client's closing, since a mutex a thread waits for may be taken
  by others again and again and is handed out in the end; of the clock, which goes
  on if there are moments between the threads' steps again and again; and of a
  callback that waits for its socket, whose peer reads or whose connection ends.
  There is nothing else: a deadlock stops the threads that are in it for good, and
  with them the clock, and is part of the runs. The liveness properties of the
  passing run name it (`Deadlocked`), with two threads and with three. No client
  owes a request, a connection or its end.
* *Dialogue* (`FairBridge`): the handler runs, the host's drivers send what has
  been written and take the packets of an answer, the board's interrupt and main
  loop run; the device is configured again after a reset. Weak fairness suffices,
  since none of these is disabled by anything but its own step or a reset, of
  which there are finitely many. No reset is owed.

### Findings

1. `janus_serial_destroy` waits for ever for a handler that waits for an answer
   (`plugin_unanswered`).
2. The handler reads `session->destroyed` of a session the watchdog has freed, if
   its message waited in the queue for longer than the grace period
   (`plugin_slow_board`).
3. `old_sessions` of the gateway is never cleared, so two destroy requests for
   one session free it twice (`gateway_reuse`).
4. The service thread walks a client's sessions under `client->mutex` and then
   takes `sessions_mutex`; the watchdog takes them in the other order to wake the
   client. A client with two sessions that time out together blocks both threads,
   against the comment that promises its closing (`ws_deadlock`). With three
   threads it happens too: the watchdog, with `sessions_mutex`, waits for
   `old_wss_mutex` (365), and the pool thread that holds that waits for
   `client->mutex` (3073, 1240).
5. An answer comes in several packets, `read` returns with its line, and the padding
   that comes after the flush is the beginning of what is pushed for the next
   message (`bridge_stale`). `AnswersInTime` says how far that reaches: to the next
   message and no further, and never to a line.

Three more disagreements with a comment or a document are modelled, reached by the
passing runs and excepted there by name, without a run of their own:

* `rtcp.h:246` promises "to cap the reported bitrate"; a REMB of 2^32 or more
  overflows at `rtcp.c:556`, reads as a small rate and is relayed as it is. Without
  its last disjunct TLC finds `CapHonest` violated.
* `rtcp.h:289-292` reports a "List of packets to NACK"; numbers after the sequence
  has started over are taken for named already (`rtcp.c:735`) and never reported.
  `ReportComplete` asks for all of an ordered list, which is what the FIXME of
  `rtcp.c:728` assumes.
* `janus.c:3455` walks sessions that may have been freed, if the callback came
  between lines 368 and 374, or not at all in three seconds (`missed`).

Known exposures that contradict no statement of the repository are hazards with a
note in `PROJECT.json`: `init` takes -1 for a descriptor and 0 for a failure; a
push or a find may come after a free (`memory = "misused"` in `GatewaySessions`);
two creates may choose one id at once.

`HandlerMemory` and `UserMemory` hold under a premise that excludes
these: answers that take less than the grace period for all messages that can wait
(`HandlerFindsMemory` states it exactly); ids that are drawn and no misuse so far.
The premises are in the configuration, the theorem or the property, never in the
actions.

## 4. What is proved

Proofs hold for any number of handles, callers, messages, clients, sessions, ids
and threads, for durations in the order the code gives them, and for packets,
streams and answers of any length. They assume only the named ASSUMEs of each
module: bounds are naturals, the grace period, the timeouts and the packet size
are not zero, message kinds and port results are among those the code can meet,
the gateway's threads are finitely many (`ThreadsAssumption`, for the count of
hang-ups), a poll is shorter than the timeout (`DurationsAssumption`), 0 is nobody's id
(`IdsAssumption`: `create` draws one instead), an answer takes a packet and its line
ends in one (`BridgeAssumption`), every bitrate in a request has an exponent
(`BitrateAssumption`: six bits of it reach all of an integer's), a shift longer than
the integer gives what one of the two kinds of build gives (`ShiftAssumption`), and
the name in an SDES needs no padding (`CnameAssumption`, as "janusvideo" needs none).

| theorem | says | rests on |
| --- | --- | --- |
| `SerialPluginProofs!TypeCorrect` | `Spec => []TypeOK` | one lemma per thread |
| `SerialPluginProofs!SessionTablesAgree` | `Spec => []SessionTables` | `MemoryInv` |
| `SerialPluginProofs!CallersFindMemory` | `Spec => []CallerMemory` | `MemoryInv` |
| `SerialPluginProofs!TeardownIsQuiet` | `Spec => []QuietTeardown` | `PhaseInv` |
| `SerialPluginProofs!MessagesServedInOrder` | `Spec => []ServedInOrder` | `PhaseInv`, `QueueInv` |
| `SerialPluginProofs!HangupsSendOneDone` | `Spec => []OneDonePerHangup` | `HangupInv` |
| `SerialPluginServiceProofs!PluginImplementsService` | `Spec => ImplementsService` | `MemoryInv`, `PhaseInv`, `QueueInv`, `FlowInv` |
| `SerialPluginMemoryProofs!HandlerFindsMemory` | `Spec /\ [](Backlog <= K) => []HandlerMemory` if the board leaves no command unanswered and K - 1 answers take less than the grace period | `AgeInv(K)`, all of the above |
| `SerialPluginMemoryProofs!HandlerFindsMemoryOfFew` | `Spec => []HandlerMemory` with `MaxMessages` for K | `HandlerFindsMemory`, `SentInv` |
| `GatewaySessionsProofs!TypeCorrect` | `Spec => []TypeOK` | `IInv` |
| `GatewaySessionsProofs!FoundSessionsLive` | `Spec => []TableLive` | `TableInv` |
| `GatewaySessionsProofs!PollsKeepSessions` | `Spec => []PollProtects` | `PollInv` |
| `GatewaySessionsProofs!RequestsFindMemory` | `Spec => []UserMemory` | `UserInv`, `TimerInv`, `DrawnInv` |
| `GatewaySessionsProofs!SessionsAreNotLost` | `Spec => []NothingLeaks` | `LeakInv` |
| `GatewaySessionsProofs!RemovedOnceFreedOnce` | `Spec /\ []RemovedOnce => []FoundDestroyedExists` if no id is chosen by an application | `UserInv`, `LeakInv`, `OnceInv` |
| `WebSocketClientProofs!TypeCorrect` | `Spec => []TypeOK` | one step per action |
| `WebSocketClientProofs!NoWakeupIsLost` | `Spec => []WakePending` | `IInv` |
| `WebSocketClientProofs!ClosedClientsForget` | `Spec => []ClosedForgotten` | `ClosedInv` |
| `WebSocketClientProofs!WalkedSessionsLive` | `Spec => []ClientSessionsLive` | `IInv`, `MineInv` |
| `VcpLinkProofs!TypeCorrect` | `Spec => [](TypeOK /\ HandInv)` | `HandInv` |
| `VcpLinkProofs!BufferIsOwned` | `Spec => []BufferOwned` | `OwnerInv` |
| `VcpLinkProofs!TxStateIsHonest` | `Spec => []TxHonest` | `TxInv` |
| `VcpLinkProofs!StreamIsIntact` | `Spec => []StreamIntact` | `StreamInv` |
| `VcpLinkProofs!NothingExecutedTwice` | `Spec => []NothingTwice` | `OrderInv` |
| `SerialBridgeProofs!BridgeBufferIsOwned`, `BridgeTxStateIsHonest`, `BridgeStreamIsIntact`, `BridgeNothingTwice` | the four above, behind the tty | a step of the dialogue is one of `VcpLink` (`BridgeStep`) |
| `SerialBridgeProofs!BridgeTypeCorrect` | `BridgeSpec => []BridgeTypeOK` | one lemma per side |
| `SerialBridgeProofs!AnswersComeInTime` | `BridgeSpec => []AnswersInTime` | `SpanInv`, `LineInv`, `PacketInv`, `OrderInv` |
| `RtcpProofs!WritesFallInPlace` | `Spec => []PacketIsBlocks` | `RtcpInv` |
| `RtcpProofs!PeersAreHidden` | `Spec => []SsrcFixed` | `RtcpInv` |
| `RtcpProofs!CapsAreHonest` | `Spec => []CapHonest` | `RtcpInv`, `DecodeBounds` |
| `RtcpProofs!ReportsAreComplete` | `Spec => []ReportComplete` | `NacksName`, `NothingBetter` |

* `SessionTables` is not inductive. A caller between the two halves of
  `destroy_session` must still find its session live and out of the list;
  `MemoryInv` adds what the gateway's view of a handle implies about its memory
  (`HandleInv`), what each call in progress implies (`CallInv`: its session is
  live and has not aged, since no tick passes while it is inside), and that a
  handle's session is inserted by one thread only.
* `QuietTeardown` needs to know at which phases of `main` each thread can be
  alive (`PhaseInv`), and that the gateway stops its transports before it calls
  `destroy`.
* `ServedInOrder` needs in addition that the queue exists outside the first and
  last phases, and is empty at the start (`QueueInv`); by `PhaseInv` nobody pops
  or pushes while `destroy` throws the rest away.
* `OneDonePerHangup` counts events. `HangupInv` counts the threads between their
  atomic add and their event as well, and the counter itself: a thread that finds
  it at zero raises it, and only a set-up lowers it again.
* The service is implemented step by step: the phases of `main` are its phases, a
  push is `Accept`, a pop is `Take`, whatever ends the handler's work on a message
  is `Finish` with a fate that `Explains` allows. For that `FlowInv` knows that a
  pushing thread found the plugin open, that messages belong to handles given out,
  that the line is busy only while the handler waits for it, and that an answer on
  it means the message in hand was a command.
* `HandlerMemory` is about time alone. `AgeInv(K)` gives every queued message a
  deadline: its session, if destroyed, has aged by no more than what K - 1 answers
  take less what the messages ahead of it may still take. A tick ages the session
  and shortens the answer in hand together (`Tick` waits for a handler that could
  move), a pop trades a whole answer for a place in the queue, and a push finds its
  session not destroyed or not aged. A handler `Stuck` on a descriptor that is no
  tty never comes to a session again. The bound is sharp: `plugin_slow_board` is the
  instance in which K - 1 answers take just the grace period, and TLC finds the
  freed session.
* In the gateway, `PollProtects` rests on one inequality carried through every
  step: what a poll has waited is at least what its session has been idle for, and
  at most `PollTime`, which is below `SessionTimeout` (`PollInv`). `UserMemory`
  rests on ages: a session is freed by a timer that is as old as `CleanupDelay`,
  more than one tick; a thread that works on a session lets no more than one tick
  pass (`Tick`'s guard; a sleeping poll looks at the session after each); so the
  timer that will free what a thread has in hand is at most one tick old
  (`UserInv`, with `TimerInv`: what has a timer is out of the table for good). Drawn ids name one session for ever (`DrawnInv`), which
  keeps a timer from finding a later session. `TableInv` (what is found is live
  and under its own id) holds for named ids and after misuse too.
* `NothingLeaks` is the safety half of `Reclaimed`: a session leaves the table in
  the step that sets its timer, and `LeakInv` knows that the timer finds it in
  `old_sessions` when it is due, since the id is the session's own and nothing ever
  clears that table. Finding 3 is the price of the latter: `RemovedOnceFreedOnce`
  says that a second removal is the only way to it. A removal comes from a thread
  with the session in hand, for which `UserInv` keeps it allocated, or from its
  expiry, so a session with one timer lives until the timer is due (`OnceInv`,
  checked with TLC on states that satisfy `RemovedOnce`).
* Over WebSockets, `WakePending` needs `NamingInv` (one thread at a time creates
  or destroys a session, and what nobody has heard of has no events), `OwnInv` (a
  client walks its own sessions), `TableInv` and `ClosedInv`. `ClientSessionsLive`
  needs `MineInv`: while an open client still has a session whose timer has been
  set, a callback that will close the client is due, or somebody is about to ask for
  one, or the session is in `missed`; so at the tick that makes the session due the
  callback has run, or waits for its socket. The theorem has no premise: it says
  that there is no third way to a freed session.
* `BufferOwned` needs `OwnerInv`: `ReadDone` and the armed endpoint exclude each
  other, the loop clears the one before it arms the other, and before the first
  configuration there is nothing to read.
* `StreamIntact` says what was gathered and executed as a set and an order instead
  of a filtered sequence, so that no induction over data is needed. `StreamInv`
  adds where the packet in `s_RxBuffer` lies in the stream, and that the byte
  `VCP_read` has loaded is the one its position still names.
* `TxHonest` needs `TxInv`: what is handed to the controller has been claimed by
  `TxState`, and a device never configured sends nothing. `TypeOK` needs
  `HandInv`: what `VCP_read` has in hand came from inside the packet.
* `NothingTwice` holds across resets, where `StreamIntact` does not: a packet that
  falls on the one `VCP_read` is in the middle of may hide bytes, never repeat them.
  `OrderInv` says that all that is yet to come, from the buffer, from what
  `VCP_read` has in hand and from the wire, lies beyond what has been kept.
* `AnswersInTime` goes in three layers. `SpanInv`: requests are written one after
  the other, and the byte before the line end of each is none itself. By
  `NothingTwice` that byte is executed once, so a request is answered once at most.
  `LineInv`: therefore there is at most one line under way, in the board, at the
  endpoint or in the tty, and it is of the message in hand, since the handler leaves
  `read` only with it. `PacketInv`: then what is without a line, padding, comes from
  the message in hand or the one before; the flush before the next request and the
  one packet after the other of the endpoint let nothing get older.
* For `Rtcp`, packets are of any number of messages, NACK words and rates of any
  width. Of the first three properties none is inductive: each function of `rtcp.c` walks
  by the lengths that the one before left in the packet. `RtcpInv` says that at some
  offsets the packet's words are those of its messages up to SSRCs and rates
  (`Matches`), every message's header counts its words and only the last may be
  empty (`Compound`), the places that were fixed hold the gateway's SSRCs
  (`FixedIn`), and until the cap every rate is the one asked for (`RatesAsked`).
  `DecodeBounds` relates what is decoded to what was asked for: equal when that
  fits, never more.
  `WalkOfCompound` is what all functions rest on: in such a packet the walk meets the
  headers and nothing else. `Bit`, `Walk` and `FlattenSeq` are recursive functions;
  since induction comes as a theorem with an operator parameter, the module proves
  it for sets, from the least element (`LeastNumber`, `Induction`), shows that each
  recursion has a solution, and describes a walk as the least closed set of places
  (`WalkIsReach`), which is enough for the rest.
* `ReportComplete` is established by the one step that makes a report. After each
  number the blocks name exactly those taken so far before the sequence starts over
  (`BeforeWrap`, all of an ordered list), and their first numbers lie more than a
  mask apart (`NackBlocks`); numbers after the start are below every block's and
  skipped. When the buffer is full there is
  one number more than blocks that fit, all too far apart to share one, so by
  counting (`FS_Injection`) no choice of blocks names them (`NothingBetter`).

## 5. What is only model-checked

* Liveness (`EveryMessageServed`, `ShutdownEnds`, `SessionReclaimed`,
  `ServiceIsLive`, `Reclaimed`, `AbandonedReclaimed`, `TimedOutClosed`,
  `ClosedReclaimed`, `PortAlive`, `RequestsExecuted`): fairness
  and ENABLED are beyond the prover. Where messages or bytes are bounded, "every
  request leads to an answer" is written `[]<>(all that came are answered)`, which
  is the same and quicker to check.
* The conjuncts of `RtcpInv`: they speak of offsets of any size, which TLC cannot
  enumerate. The four properties that rest on it or stand beside it are checked.

Every safety property of a passing run is also a theorem.

## 6. What is not modelled, and why

Besides the components above: logging and wording of messages; the JSON content
of requests beyond "object or not"; failed allocations; unreadable configuration
files; in the gateway the handles' ICE state, jsep and media, the RabbitMQ
transport and the admin interface, the main loop's shutdown, and the 32 bits that
the hash table keeps of a session id; over WebSockets, requests on another
client's session (the protocol tells nobody its id) and connections that get no
thread pool; on the board, line coding (nothing reads it), packets without bytes,
and the lengths of the request and response buffers; on the tty, echoes that would
make a command of their own, echoes apart from the packet they answer, and a
`write` that fails (`SerialPlugin`'s `Unplug`); over WebSockets, a process that ends
when it reads freed memory; in RTCP, names that need padding (excluded by a named
ASSUME) and packets that are not well formed.
Known exposures that no property covers are hazards with a note in
`PROJECT.json`.

## 7. What is left to do

1. Proofs: an abstract service for the gateway's sessions, with `GatewaySessions`
   as its refinement.
2. `WebSocketClient` with two clients that share sessions, as far as the protocol
   lets them, and with the gateway's shutdown.
3. `EchoPlugin` with `Recorder`, should the echo plugin enter the build.
