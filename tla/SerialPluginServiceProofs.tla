----------------------- MODULE SerialPluginServiceProofs -----------------------
(***************************************************************************)
(* The threads of the plugin implement CommandService, for any number of   *)
(* handles and threads and any traffic.                                    *)
(***************************************************************************)
EXTENDS SerialPluginService, SerialPluginProofs

\* Why a step of the threads is one of the service: a message in the plugin
\* belongs to a handle the gateway has given out, a call that pushes one found
\* the plugin open, the line is busy only while the handler waits for it, and
\* what the handler does with the answer depends on what it has read.
FlowInv ==
  /\ main \in {"clear_stopping", "down"} => initialized = 0
  /\ \A c \in Callers : caller[c].op = "push" => initialized = 1
  /\ current # NoMessage => gateway[current.handle] \in {"attached", "detached"}
  /\ \A i \in 1..Len(messages) : gateway[messages[i].handle] \in {"attached", "detached"}
  /\ handler \in {"read", "push", "push_stale"} => current.body # "garbage"
  /\ line \in {"requested", "answered"} => handler = "read"
  /\ handler = "push" \/ line = "answered" => current.body = "command"
  /\ handler = "push_stale" => line = "hungup"

FlowVars == <<initialized, main, caller, current, gateway, messages, handler, line>>

LEMMA FlowMain ==
  ASSUME TypeOK, PhaseInv, QueueInv, FlowInv, Main
  PROVE  FlowInv'
<1> USE DEF globals, tables, media, serving
<1>1. ASSUME initialized' # initialized, initialized' = 0
      PROVE  \A c \in Callers : caller[c].op # "push"
  BY <1>1 DEF Main, InitTables, InitOpen, InitWatchdog, InitHandler, InitFails,
       DestroyEnter, JoinHandler, JoinWatchdog, DestroyTables,
       DestroyInitialized, DestroyStopping, PhaseInv, TransportsStopped, TransportOps
<1>2. UNCHANGED <<caller, gateway, current, line>>
  BY DEF Main, InitTables, InitOpen, InitWatchdog, InitHandler, InitFails,
       DestroyEnter, JoinHandler, JoinWatchdog, DestroyTables,
       DestroyInitialized, DestroyStopping
<1>3. main' \in {"clear_stopping", "down"} => initialized' = 0
  BY DEF Main, InitTables, InitOpen, InitWatchdog, InitHandler, InitFails,
       DestroyEnter, JoinHandler, JoinWatchdog, DestroyTables,
       DestroyInitialized, DestroyStopping, FlowInv
<1>4. \A c \in Callers : caller'[c].op = "push" => initialized' = 1
  BY <1>1, <1>2 DEF FlowInv, TypeOK, Main, InitTables, InitOpen, InitWatchdog,
       InitHandler, InitFails, DestroyEnter, JoinHandler, JoinWatchdog,
       DestroyTables, DestroyInitialized, DestroyStopping
<1>5. messages' = messages \/ messages' = <<>>
  BY DEF Main, InitTables, InitOpen, InitWatchdog, InitHandler, InitFails,
       DestroyEnter, JoinHandler, JoinWatchdog, DestroyTables,
       DestroyInitialized, DestroyStopping
<1>6. \A i \in 1..Len(messages') :
        gateway'[messages'[i].handle] \in {"attached", "detached"}
  BY <1>2, <1>5 DEF FlowInv
<1>7. \/ handler' = handler
      \/ handler \in {"none", "exited"} /\ handler' \in {"none", "loop"}
  BY DEF Main, InitTables, InitOpen, InitWatchdog, InitHandler, InitFails,
       DestroyEnter, JoinHandler, JoinWatchdog, DestroyTables,
       DestroyInitialized, DestroyStopping, PhaseInv
<1> QED
  BY <1>2, <1>3, <1>4, <1>6, <1>7 DEF FlowInv

\* What a call may do to the gateway's view of the handles with messages.
LEMMA FlowCall ==
  ASSUME TypeOK, MemoryInv, PhaseInv, QueueInv, FlowInv,
         NEW c \in Callers, Call(c) \/ Continue(c)
  PROVE  FlowInv'
<1> USE DEF globals, tables, media, serving
<1>0. PICK h \in Handles :
        \/ CreateSession(c, h) \/ HandleMessage(c, h) \/ Detach(c, h)
        \/ QuerySession(c, h) \/ SetupMedia(c, h) \/ HangupMedia(c, h)
        \/ CreateInsert(c, h) \/ PushMessage(c, h)
        \/ DestroySession(c, h) \/ DestroyRemove(c, h) \/ QueryRead(c, h)
        \/ SetupReset(c, h) \/ HangupAdd(c, h) \/ HangupDone(c, h)
  BY DEF Call, Continue
<1>1. UNCHANGED <<initialized, main, current, handler, line>>
  BY <1>0 DEF CreateSession, HandleMessage, Detach, QuerySession, SetupMedia,
       HangupMedia, CreateInsert, PushMessage, DestroySession, DestroyRemove,
       QueryRead, SetupReset, HangupAdd, HangupDone
<1>2. \A k \in Handles : gateway[k] \in {"attached", "detached"}
                           => gateway'[k] \in {"attached", "detached"}
  BY <1>0 DEF CreateSession, HandleMessage, Detach, QuerySession, SetupMedia,
       HangupMedia, CreateInsert, PushMessage, DestroySession, DestroyRemove,
       QueryRead, SetupReset, HangupAdd, HangupDone, TypeOK
<1>3. \A d \in Callers : caller'[d].op = "push" => initialized' = 1
  <2>1. CASE HandleMessage(c, h)
    BY <1>1, <2>1 DEF HandleMessage, Ready, FlowInv, Goto, TypeOK
  <2>2. CASE ~HandleMessage(c, h)
    <3>1. \/ UNCHANGED caller
          \/ Return(c)
          \/ \E op \in Ops \ {"push"} : Goto(c, op, h)
      BY <1>0, <2>2 DEF CreateSession, Detach, QuerySession, SetupMedia,
           HangupMedia, CreateInsert, PushMessage, DestroySession,
           DestroyRemove, QueryRead, SetupReset, HangupAdd, HangupDone, Ops,
           TransportOps, MediaOps
    <3>2. \A d \in Callers : caller'[d].op = "push" => caller[d].op = "push"
      <4>1. CASE Return(c)
        BY <4>1 DEF Return, Idle, TypeOK
      <4>2. ASSUME NEW op \in Ops \ {"push"}, Goto(c, op, h)
            PROVE  \A d \in Callers : caller'[d].op = "push" => caller[d].op = "push"
        <5>1. caller'[c] = [op |-> op, handle |-> h]
          BY <4>2 DEF Goto, TypeOK
        <5>2. caller'[c].op # "push"
          BY <5>1
        <5>3. \A d \in Callers : d # c => caller'[d] = caller[d]
          BY <4>2 DEF Goto, TypeOK
        <5> QED
          BY <5>2, <5>3
      <4> QED
        BY <3>1, <4>1, <4>2
    <3> QED
      BY <1>1, <3>2 DEF FlowInv
  <2> QED
    BY <2>1, <2>2
<1>4. \A i \in 1..Len(messages') :
        gateway'[messages'[i].handle] \in {"attached", "detached"}
  <2>1. CASE PushMessage(c, h)
    <3>1. CallInv("push", h)
      BY <2>1 DEF PushMessage, MemoryInv, Ops, TransportOps
    <3>2. PICK b \in Bodies :
            messages' = Append(messages, [id |-> sent + 1, handle |-> h, body |-> b])
      BY <2>1 DEF PushMessage
    <3>3. ASSUME NEW i \in 1..Len(messages')
          PROVE  messages'[i].handle = h \/ (i \in 1..Len(messages) /\ messages'[i] = messages[i])
      BY <3>2 DEF TypeOK
    <3>4. gateway[h] \in {"attached", "detached"} /\ gateway' = gateway
      BY <2>1, <3>1 DEF CallInv, PushMessage
    <3> QED
      BY <3>3, <3>4 DEF FlowInv
  <2>2. CASE ~PushMessage(c, h)
    <3>1. messages' = messages
      BY <1>0, <2>2 DEF CreateSession, HandleMessage, Detach, QuerySession,
           SetupMedia, HangupMedia, CreateInsert, DestroySession,
           DestroyRemove, QueryRead, SetupReset, HangupAdd, HangupDone
    <3>2. \A i \in 1..Len(messages) : messages[i].handle \in Handles
      <4>1. \A i \in 1..Len(messages) : messages[i] \in Message
        BY DEF TypeOK
      <4> QED
        BY <4>1 DEF Message
    <3> QED
      BY <1>2, <3>1, <3>2 DEF FlowInv
  <2> QED
    BY <2>1, <2>2
<1>5. current # NoMessage => gateway'[current.handle] \in {"attached", "detached"}
  BY <1>2 DEF FlowInv, TypeOK, Message
<1> QED
  BY <1>1, <1>3, <1>4, <1>5 DEF FlowInv

LEMMA FlowHandler ==
  ASSUME TypeOK, QueueInv, FlowInv, Handler
  PROVE  FlowInv'
<1> USE DEF globals, tables, media
<1>1. UNCHANGED <<initialized, main, caller, gateway>>
  BY DEF Handler, HandlerExit, HandlerPop, HandlerSession, HandlerError,
       HandlerWrite, HandlerRead, HandlerPush
<1>2. CASE HandlerPop
  <2>1. /\ messages # <<>> /\ current' = messages[1]
        /\ messages' = Tail(messages) /\ handler' = "session"
        /\ handler = "loop" /\ line' = line
    BY <1>2 DEF HandlerPop, TypeOK
  <2>2. \A i \in 1..Len(messages') : i + 1 \in 1..Len(messages)
                                     /\ messages'[i] = messages[i + 1]
    BY <2>1 DEF TypeOK
  <2>3. 1 \in 1..Len(messages)
    BY <2>1 DEF TypeOK
  <2> QED
    BY <1>1, <2>1, <2>2, <2>3 DEF FlowInv
<1>3. CASE ~HandlerPop
  <2>1. UNCHANGED messages /\ current' \in {current, NoMessage}
    BY <1>3 DEF Handler, HandlerExit, HandlerSession, HandlerError,
         HandlerWrite, HandlerRead, HandlerPush, Serve
  <2>2. /\ handler' \in {"read", "push", "push_stale"} => current'.body # "garbage"
        /\ line' \in {"requested", "answered"} => handler' = "read"
        /\ handler' = "push" \/ line' = "answered" => current'.body = "command"
        /\ handler' = "push_stale" => line' = "hungup"
    BY <1>3 DEF Handler, HandlerExit, HandlerSession, HandlerError,
         HandlerWrite, HandlerRead, HandlerPush, Serve, FlowInv, TypeOK
  <2> QED
    BY <1>1, <2>1, <2>2 DEF FlowInv
<1> QED
  BY <1>2, <1>3

LEMMA FlowStep ==
  TypeOK /\ MemoryInv /\ PhaseInv /\ QueueInv /\ FlowInv /\ [Next]_vars => FlowInv'
<1> SUFFICES ASSUME TypeOK, MemoryInv, PhaseInv, QueueInv, FlowInv, [Next]_vars
             PROVE  FlowInv'
  OBVIOUS
<1>1. CASE WatchdogSweep \/ WatchdogExit \/ Tick \/ UNCHANGED vars
  <2>1. UNCHANGED FlowVars
    BY <1>1 DEF WatchdogSweep, WatchdogExit, Tick, vars, FlowVars, globals, serving
  <2> QED
    BY <2>1 DEF FlowVars, FlowInv
<1>2. CASE BoardAnswers \/ Unplug
  <2>1. UNCHANGED <<initialized, main, caller, current, gateway, messages, handler>>
    BY <1>2 DEF BoardAnswers, Unplug, globals
  <2>2. line' = "hungup" \/ (line' = "answered" /\ line = "requested"
                             /\ current.body = "command")
    BY <1>2 DEF BoardAnswers, BoardWillAnswer, Unplug
  <2> QED
    BY <2>1, <2>2 DEF FlowInv
<1> QED
  BY <1>1, <1>2, FlowMain, FlowCall, FlowHandler DEF Next

LEMMA QueueInvariant == Spec => []QueueInv
<1>1. Init => QueueInv
  BY DEF Init, QueueInv, ServedInOrder, InHand
<1> QED
  BY <1>1, QueueStep, TypeCorrect, PhaseInvariant, PTL DEF Spec

LEMMA FlowInvariant == Spec => []FlowInv
<1>1. Init => FlowInv
  BY DEF Init, FlowInv, Idle
<1> QED
  BY <1>1, FlowStep, TypeCorrect, MemoryInvariant, PhaseInvariant, QueueInvariant,
     PTL DEF Spec

(***************************************************************************)
(* The steps of the threads as steps of the service.                       *)
(***************************************************************************)
\* A step the service does not see.
LEMMA ServiceStutter ==
  ASSUME UNCHANGED <<Phase, messages, current, served, gateway, line>>
  PROVE  [Service!Next]_Service!vars
BY DEF Service!vars

LEMMA ServiceMain ==
  ASSUME TypeOK, PhaseInv, QueueInv, FlowInv, Main
  PROVE  [Service!Next]_Service!vars
<1> USE DEF globals, tables, media, serving
<1>1. UNCHANGED <<current, served, gateway, line>>
  BY DEF Main, InitTables, InitOpen, InitWatchdog, InitHandler, InitFails,
       DestroyEnter, JoinHandler, JoinWatchdog, DestroyTables,
       DestroyInitialized, DestroyStopping
<1>2. CASE InitTables \/ InitOpen \/ InitWatchdog \/ InitHandler
  <2>1. Phase = "starting" /\ Phase' \in {"starting", "open", "closed"} /\ UNCHANGED messages
    BY <1>2 DEF InitTables, InitOpen, InitWatchdog, InitHandler, InitFails, Phase
  <2> QED
    BY <1>1, <2>1 DEF Service!vars, Service!Next, Service!Start
<1>3. CASE DestroyEnter
  <2>1. UNCHANGED messages
    BY <1>3 DEF DestroyEnter
  <2>2. \/ Phase = "open" /\ Phase' = "closing"
        \/ Phase = "closed" /\ Phase' = "closed"
    BY <1>3 DEF DestroyEnter, Phase
  <2> QED
    BY <1>1, <2>1, <2>2 DEF Service!vars, Service!Next, Service!Close
<1>4. CASE DestroyTables
  <2>1. current = NoMessage
    BY <1>4 DEF DestroyTables, PhaseInv, QueueInv, ServedInOrder
  <2>2. Phase = "closing" /\ Phase' = "closed" /\ messages' = <<>>
    BY <1>4 DEF DestroyTables, Phase
  <2> QED
    BY <1>1, <2>1, <2>2
    DEF Service!Next, Service!Discard, Service!Nothing, NoMessage
<1>5. CASE JoinHandler \/ JoinWatchdog \/ DestroyInitialized \/ DestroyStopping
  <2>1. UNCHANGED <<Phase, messages>>
    BY <1>5 DEF JoinHandler, JoinWatchdog, DestroyInitialized, DestroyStopping, Phase
  <2> QED
    BY <1>1, <2>1, ServiceStutter
<1> QED
  BY <1>2, <1>3, <1>4, <1>5 DEF Main

LEMMA ServiceCall ==
  ASSUME TypeOK, MemoryInv, PhaseInv, QueueInv, FlowInv,
         NEW c \in Callers, Call(c) \/ Continue(c)
  PROVE  [Service!Next]_Service!vars
<1> USE DEF globals, tables, media, serving
<1>0. PICK h \in Handles :
        \/ CreateSession(c, h) \/ HandleMessage(c, h) \/ Detach(c, h)
        \/ QuerySession(c, h) \/ SetupMedia(c, h) \/ HangupMedia(c, h)
        \/ CreateInsert(c, h) \/ PushMessage(c, h)
        \/ DestroySession(c, h) \/ DestroyRemove(c, h) \/ QueryRead(c, h)
        \/ SetupReset(c, h) \/ HangupAdd(c, h) \/ HangupDone(c, h)
  BY DEF Call, Continue
<1>1. UNCHANGED <<initialized, main, current, served, line, Phase>>
  BY <1>0 DEF CreateSession, HandleMessage, Detach, QuerySession, SetupMedia,
       HangupMedia, CreateInsert, PushMessage, DestroySession, DestroyRemove,
       QueryRead, SetupReset, HangupAdd, HangupDone, Phase
<1>2. CASE PushMessage(c, h)
  <2>1. PICK b \in Bodies :
          messages' = Append(messages, [id |-> sent + 1, handle |-> h, body |-> b])
    BY <1>2 DEF PushMessage
  <2>2. main = "up" /\ queue = "live" /\ initialized = 1
    BY <1>2 DEF PushMessage, At, PhaseInv, TransportsStopped, TransportOps,
         QueueInv, TypeOK, FlowInv
  <2>3. Service!Accepted = sent
    <3>1. sent = Len(served) + InHand + Len(messages)
      BY <2>2 DEF QueueInv, ServedInOrder
    <3>2. Len(served) \in Nat /\ Len(messages) \in Nat /\ InHand \in Nat
      BY DEF TypeOK, InHand
    <3>3. Service!Accepted = Len(served) + Len(messages) + InHand
      BY DEF Service!Accepted, Service!Nothing, NoMessage, InHand
    <3> QED
      BY <3>1, <3>2, <3>3
  <2>4. Phase = "open" /\ UNCHANGED gateway
    BY <1>2, <2>2 DEF Phase, PushMessage
  <2>5. Service!Accept(h)
    BY <1>1, <2>1, <2>3, <2>4 DEF Service!Accept
  <2> QED
    BY <2>5 DEF Service!Next
<1>3. CASE DestroySession(c, h)
  <2>1. UNCHANGED messages /\ gateway' = [gateway EXCEPT ![h] = "detached"]
    BY <1>3 DEF DestroySession
  <2>2. {k \in Handles : gateway'[k] = "detached"}
          = {k \in Handles : gateway[k] = "detached"} \cup {h}
    BY <2>1 DEF TypeOK
  <2>3. Service!Withdraw(h)
    BY <1>1, <2>1, <2>2 DEF Service!Withdraw
  <2> QED
    BY <2>3 DEF Service!Next
<1>4. CASE CreateSession(c, h) \/ CreateInsert(c, h)
  <2>1. UNCHANGED messages
    BY <1>4 DEF CreateSession, CreateInsert
  <2>2. gateway[h] # "detached" /\ \E v : v # "detached" /\ gateway' = [gateway EXCEPT ![h] = v]
    <3>1. CASE CreateSession(c, h)
      BY <3>1 DEF CreateSession
    <3>2. CASE CreateInsert(c, h)
      <4>1. CallInv("insert", h)
        BY <3>2 DEF CreateInsert, MemoryInv, Ops, TransportOps
      <4> QED
        BY <3>2, <4>1 DEF CreateInsert, CallInv
    <3> QED
      BY <1>4, <3>1, <3>2
  <2>3. {k \in Handles : gateway'[k] = "detached"}
          = {k \in Handles : gateway[k] = "detached"}
    BY <2>2 DEF TypeOK
  <2> QED
    BY <1>1, <2>1, <2>3 DEF Service!vars
<1>5. CASE ~PushMessage(c, h) /\ ~DestroySession(c, h) /\ ~CreateSession(c, h)
           /\ ~CreateInsert(c, h)
  <2>1. UNCHANGED <<messages, gateway>>
    BY <1>0, <1>5 DEF HandleMessage, Detach, QuerySession, SetupMedia,
         HangupMedia, DestroyRemove, QueryRead, SetupReset, HangupAdd, HangupDone
  <2> QED
    BY <1>1, <2>1, ServiceStutter
<1> QED
  BY <1>2, <1>3, <1>4, <1>5

\* The fate the handler gives its message is one the service can explain.
LEMMA ServiceFinish ==
  ASSUME current # NoMessage, NEW fate \in Fates, Serve(fate),
         Service!Explains(fate),
         UNCHANGED <<Phase, messages, gateway, line>>
  PROVE  [Service!Next]_Service!vars
<1>1. Service!Finish
  BY DEF Service!Finish, Service!Nothing, NoMessage, Serve, Fates
<1> QED
  BY <1>1 DEF Service!Next

LEMMA ServiceHandler ==
  ASSUME TypeOK, MemoryInv, PhaseInv, QueueInv, FlowInv, Handler
  PROVE  [Service!Next]_Service!vars
<1> USE DEF globals, tables, media
<1>1. UNCHANGED <<initialized, main, gateway, Phase>>
  BY DEF Handler, HandlerExit, HandlerPop, HandlerSession, HandlerError,
       HandlerWrite, HandlerRead, HandlerPush, Phase
<1>2. handler \notin {"none", "loop", "exited"} =>
        /\ current # NoMessage /\ current.handle \in Handles
        /\ gateway[current.handle] \in {"attached", "detached"}
  BY DEF QueueInv, ServedInOrder, TypeOK, Message, FlowInv
<1>3. CASE HandlerPop
  <2>1. current = NoMessage /\ UNCHANGED <<served, line>>
    BY <1>3 DEF HandlerPop, QueueInv, ServedInOrder
  <2>2. Phase = "open"
    BY <1>3 DEF HandlerPop, Ready, PhaseInv, FlowInv, TypeOK, MainPC, Phase
  <2>3. Service!Take
    BY <1>1, <1>3, <2>1, <2>2 DEF HandlerPop, Service!Take, Service!Nothing, NoMessage
  <2> QED
    BY <2>3 DEF Service!Next
<1>4. CASE HandlerExit \/ HandlerWrite \/ HandlerRead
  <2>1. UNCHANGED <<messages, current, served>> /\ (line = "hungup") = (line' = "hungup")
    BY <1>4 DEF HandlerExit, HandlerWrite, HandlerRead
  <2> QED
    BY <1>1, <2>1 DEF Service!vars
<1>5. CASE HandlerSession
  <2>1. UNCHANGED <<messages, line>>
    BY <1>5 DEF HandlerSession
  <2>2. CASE destroyed[current.handle] # NotDestroyed /\ Serve("dropped")
    <3>1. current # NoMessage /\ current.handle \in Handles
      BY <1>2, <1>5 DEF HandlerSession
    <3>2. gateway[current.handle] = "detached"
      BY <2>2, <3>1 DEF MemoryInv, HandleInv, TypeOK
    <3>3. Service!Explains("dropped")
      BY <3>1, <3>2 DEF Service!Explains
    <3> QED
      BY <1>1, <2>1, <2>2, <3>1, <3>3, ServiceFinish DEF Fates
  <2>3. CASE UNCHANGED <<current, served>>
    BY <1>1, <2>1, <2>3, ServiceStutter
  <2> QED
    BY <1>5, <2>2, <2>3 DEF HandlerSession
<1>6. CASE HandlerError
  <2>1. /\ UNCHANGED <<messages, line>> /\ current # NoMessage
        /\ current.handle \in Handles /\ current.body = "garbage"
        /\ gateway[current.handle] \in {"attached", "detached"}
    BY <1>2, <1>6 DEF HandlerError
  <2>2. CASE gateway[current.handle] = "attached"
    <3>1. Serve("error")
      BY <1>6, <2>2 DEF HandlerError
    <3>2. Service!Explains("error")
      BY <2>1, <2>2 DEF Service!Explains
    <3> QED
      BY <1>1, <2>1, <3>1, <3>2, ServiceFinish DEF Fates
  <2>3. CASE gateway[current.handle] = "detached"
    <3>1. Serve("rejected")
      BY <1>6, <2>3 DEF HandlerError
    <3>2. Service!Explains("rejected")
      BY <2>1, <2>3 DEF Service!Explains
    <3> QED
      BY <1>1, <2>1, <3>1, <3>2, ServiceFinish DEF Fates
  <2> QED
    BY <2>1, <2>2, <2>3
<1>7. CASE HandlerPush
  <2>1. /\ UNCHANGED <<messages, line>> /\ current # NoMessage
        /\ current.handle \in Handles
        /\ gateway[current.handle] \in {"attached", "detached"}
        /\ handler \in {"push", "push_stale"}
    BY <1>2, <1>7 DEF HandlerPush
  <2>2. CASE gateway[current.handle] = "detached"
    <3>1. Serve("rejected")
      BY <1>7, <2>2 DEF HandlerPush
    <3>2. Service!Explains("rejected")
      BY <2>1, <2>2 DEF Service!Explains
    <3> QED
      BY <1>1, <2>1, <3>1, <3>2, ServiceFinish DEF Fates
  <2>3. CASE gateway[current.handle] = "attached" /\ handler = "push"
    <3>1. Serve("answered")
      BY <1>7, <2>3 DEF HandlerPush
    <3>2. Service!Explains("answered")
      BY <2>1, <2>3 DEF Service!Explains, FlowInv
    <3> QED
      BY <1>1, <2>1, <3>1, <3>2, ServiceFinish DEF Fates
  <2>4. CASE gateway[current.handle] = "attached" /\ handler = "push_stale"
    <3>1. Serve("stale")
      BY <1>7, <2>4 DEF HandlerPush
    <3>2. Service!Explains("stale")
      BY <2>1, <2>4 DEF Service!Explains, FlowInv
    <3> QED
      BY <1>1, <2>1, <3>1, <3>2, ServiceFinish DEF Fates
  <2> QED
    BY <2>1, <2>2, <2>3, <2>4
<1> QED
  BY <1>3, <1>4, <1>5, <1>6, <1>7 DEF Handler

LEMMA ServiceStep ==
  TypeOK /\ MemoryInv /\ PhaseInv /\ QueueInv /\ FlowInv /\ [Next]_vars
    => [Service!Next]_Service!vars
<1> SUFFICES ASSUME TypeOK, MemoryInv, PhaseInv, QueueInv, FlowInv, [Next]_vars
             PROVE  [Service!Next]_Service!vars
  OBVIOUS
<1>1. CASE WatchdogSweep \/ WatchdogExit \/ Tick \/ UNCHANGED vars
  <2>1. UNCHANGED <<Phase, messages, current, served, gateway, line>>
    BY <1>1 DEF WatchdogSweep, WatchdogExit, Tick, vars, globals, serving, Phase
  <2> QED
    BY <2>1, ServiceStutter
<1>2. CASE BoardAnswers \/ Unplug
  <2>1. UNCHANGED <<Phase, messages, current, served, gateway>>
    BY <1>2 DEF BoardAnswers, Unplug, globals, Phase
  <2>2. line' = "hungup" \/ (line' # "hungup" /\ line # "hungup")
    BY <1>2 DEF BoardAnswers, BoardWillAnswer, Unplug
  <2> QED
    BY <2>1, <2>2 DEF Service!vars, Service!Next, Service!Unplug
<1> QED
  BY <1>1, <1>2, ServiceMain, ServiceCall, ServiceHandler DEF Next

\* Every behaviour of the threads is one of the service: no step of any thread
\* accepts a message before init is over or after destroy has begun, takes one
\* out of turn or gives it a fate that its handle and the board do not explain.
THEOREM PluginImplementsService == Spec => ImplementsService
<1>1. Init => Service!Init
  BY DEF Init, Service!Init, Service!Nothing, NoMessage, Phase
<1> QED
  BY <1>1, ServiceStep, TypeCorrect, MemoryInvariant, PhaseInvariant,
     QueueInvariant, FlowInvariant, PTL DEF Spec, ImplementsService, Service!Spec
=============================================================================
