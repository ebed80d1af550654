-------------------------- MODULE SerialPluginProofs --------------------------
(***************************************************************************)
(* Safety of the serial plugin, for any number of handles and threads, any *)
(* grace period and any traffic.                                           *)
(***************************************************************************)
EXTENDS SerialPlugin, FiniteSetTheorems, TLAPS

(***************************************************************************)
(* Type correctness.  Each thread keeps TypeOK.                            *)
(***************************************************************************)
LEMMA MainType == TypeOK /\ Main => TypeOK'
<1> SUFFICES ASSUME TypeOK, Main PROVE TypeOK'
  OBVIOUS
<1> USE DEF TypeOK, globals, tables, media, serving, MainPC, HandlerPC
<1>1. CASE InitTables
  BY <1>1 DEF InitTables
<1>2. CASE InitOpen
  BY <1>2, ConstantsAssumption DEF InitOpen
<1>3. CASE InitWatchdog
  BY <1>3 DEF InitWatchdog, InitFails
<1>4. CASE InitHandler
  BY <1>4 DEF InitHandler, InitFails
<1>5. CASE DestroyEnter
  BY <1>5 DEF DestroyEnter
<1>6. CASE JoinHandler
  BY <1>6 DEF JoinHandler
<1>7. CASE JoinWatchdog
  BY <1>7 DEF JoinWatchdog
<1>8. CASE DestroyTables
  BY <1>8 DEF DestroyTables
<1>9. CASE DestroyInitialized
  BY <1>9 DEF DestroyInitialized
<1>10. CASE DestroyStopping
  BY <1>10 DEF DestroyStopping
<1> QED
  BY <1>1, <1>2, <1>3, <1>4, <1>5, <1>6, <1>7, <1>8, <1>9, <1>10 DEF Main

LEMMA CallerType ==
  ASSUME TypeOK, NEW c \in Callers, Call(c) \/ Continue(c)
  PROVE  TypeOK'
<1> USE DEF TypeOK, globals, tables, media, serving, Goto, Return, At, Idle,
            Ops, TransportOps, MediaOps
<1>0. PICK h \in Handles :
        \/ CreateSession(c, h) \/ HandleMessage(c, h) \/ Detach(c, h)
        \/ QuerySession(c, h) \/ SetupMedia(c, h) \/ HangupMedia(c, h)
        \/ CreateInsert(c, h) \/ PushMessage(c, h)
        \/ DestroySession(c, h) \/ DestroyRemove(c, h) \/ QueryRead(c, h)
        \/ SetupReset(c, h) \/ HangupAdd(c, h) \/ HangupDone(c, h)
  BY DEF Call, Continue
<1>1. CASE CreateSession(c, h)
  <2>1. CASE Ready
    <3>1. /\ heap' = [heap EXCEPT ![h] = "live"] /\ Goto(c, "insert", h)
          /\ gateway' = [gateway EXCEPT ![h] = "attaching"]
      BY <1>1, <2>1 DEF CreateSession
    <3> QED
      BY <1>1, <3>1 DEF CreateSession
  <2>2. CASE ~Ready
    <3>1. /\ gateway' = [gateway EXCEPT ![h] = "failed"]
          /\ UNCHANGED <<heap, caller>>
      BY <1>1, <2>2 DEF CreateSession
    <3> QED
      BY <1>1, <3>1 DEF CreateSession
  <2> QED
    BY <2>1, <2>2
<1>2. CASE HandleMessage(c, h)
  BY <1>2 DEF HandleMessage
<1>3. CASE Detach(c, h)
  BY <1>3 DEF Detach
<1>4. CASE QuerySession(c, h)
  BY <1>4 DEF QuerySession
<1>5. CASE SetupMedia(c, h)
  BY <1>5 DEF SetupMedia
<1>6. CASE HangupMedia(c, h)
  BY <1>6 DEF HangupMedia
<1>7. CASE CreateInsert(c, h)
  BY <1>7 DEF CreateInsert
<1>8. CASE PushMessage(c, h)
  BY <1>8 DEF PushMessage, Message
<1>9. CASE DestroySession(c, h)
  <2>1. CASE Goto(c, "remove", h)
    BY <1>9, <2>1 DEF DestroySession
  <2>2. CASE Return(c)
    BY <1>9, <2>2 DEF DestroySession
  <2> QED
    BY <1>9, <2>1, <2>2 DEF DestroySession
<1>10. CASE DestroyRemove(c, h)
  <2>0. 0 \in 0..Grace
    BY ConstantsAssumption
  <2>1. CASE destroyed' = [destroyed EXCEPT ![h] = 0]
    BY <1>10, <2>0, <2>1 DEF DestroyRemove
  <2>2. CASE UNCHANGED <<destroyed, sessions, old_sessions>>
    BY <1>10, <2>2 DEF DestroyRemove
  <2> QED
    BY <1>10, <2>1, <2>2 DEF DestroyRemove
<1>11. CASE QueryRead(c, h)
  BY <1>11 DEF QueryRead
<1>12. CASE SetupReset(c, h)
  BY <1>12 DEF SetupReset
<1>13. CASE HangupAdd(c, h)
  <2>1. CASE Goto(c, "done", h)
    BY <1>13, <2>1 DEF HangupAdd
  <2>2. CASE Return(c)
    BY <1>13, <2>2 DEF HangupAdd
  <2> QED
    BY <1>13, <2>1, <2>2 DEF HangupAdd
<1>14. CASE HangupDone(c, h)
  BY <1>14 DEF HangupDone
<1> QED
  BY <1>0, <1>1, <1>2, <1>3, <1>4, <1>5, <1>6, <1>7, <1>8, <1>9, <1>10, <1>11,
     <1>12, <1>13, <1>14

LEMMA HandlerType == TypeOK /\ Handler => TypeOK'
<1> SUFFICES ASSUME TypeOK, Handler PROVE TypeOK'
  OBVIOUS
<1> USE DEF TypeOK, globals, tables, media, HandlerPC, Fates
<1>1. CASE HandlerExit
  BY <1>1 DEF HandlerExit
<1>2. CASE HandlerPop
  <2>1. Head(messages) \in Message /\ Tail(messages) \in Seq(Message)
    BY <1>2 DEF HandlerPop
  <2> QED
    BY <1>2, <2>1 DEF HandlerPop
<1>3. CASE HandlerSession
  <2>1. CASE Serve("dropped")
    BY <1>3, <2>1 DEF HandlerSession, Serve
  <2>2. CASE handler' = "parse" /\ UNCHANGED <<current, served>>
    BY <1>3, <2>2 DEF HandlerSession
  <2> QED
    BY <1>3, <2>1, <2>2 DEF HandlerSession
<1>4. CASE HandlerError
  BY <1>4 DEF HandlerError, Serve
<1>5. CASE HandlerWrite
  BY <1>5, ConstantsAssumption DEF HandlerWrite
<1>6. CASE HandlerRead
  BY <1>6 DEF HandlerRead
<1>7. CASE HandlerPush
  BY <1>7 DEF HandlerPush, Serve
<1> QED
  BY <1>1, <1>2, <1>3, <1>4, <1>5, <1>6, <1>7 DEF Handler

LEMMA RestType ==
  ASSUME TypeOK,
         WatchdogSweep \/ WatchdogExit \/ BoardAnswers \/ Unplug \/ Tick
  PROVE  TypeOK'
<1> USE DEF TypeOK, globals, tables, media, serving
<1>1. CASE WatchdogSweep
  BY <1>1 DEF WatchdogSweep
<1>2. CASE WatchdogExit
  BY <1>2 DEF WatchdogExit
<1>3. CASE BoardAnswers
  BY <1>3 DEF BoardAnswers
<1>4. CASE Unplug
  BY <1>4 DEF Unplug
<1>5. CASE Tick
  BY <1>5, ConstantsAssumption DEF Tick, Older, NotDestroyed
<1> QED
  BY <1>1, <1>2, <1>3, <1>4, <1>5

LEMMA TypeStep == TypeOK /\ [Next]_vars => TypeOK'
<1> SUFFICES ASSUME TypeOK, [Next]_vars PROVE TypeOK'
  OBVIOUS
<1>1. CASE UNCHANGED vars
  BY <1>1 DEF vars, TypeOK, globals, tables, media, serving
<1> QED
  BY <1>1, MainType, CallerType, HandlerType, RestType DEF Next

\* No reachable state of any instance is ill-typed; every step of every
\* thread keeps each variable in its type.
THEOREM TypeCorrect == Spec => []TypeOK
<1>1. Init => TypeOK
  BY ConstantsAssumption
  DEF Init, TypeOK, MainPC, HandlerPC, NoMessage, Message, Idle
<1> QED
  BY <1>1, TypeStep, PTL DEF Spec

(***************************************************************************)
(* Memory of the sessions.  SessionTables and CallerMemory are not         *)
(* inductive: that no call finds a freed session rests on the gateway      *)
(* withdrawing a handle before its session is marked destroyed, and on the *)
(* clock standing still while a call is inside the plugin.  MemoryInv adds *)
(* both.                                                                   *)
(***************************************************************************)

\* A step that touches neither tables nor handles nor callers.
LEMMA MemoryFrame ==
  ASSUME MemoryInv, UNCHANGED <<tables, gateway, caller>>
  PROVE  MemoryInv'
BY DEF MemoryInv, SessionTables, HandleInv, CallInv, At, tables

\* What the other threads are doing when one goes on to its next step.
LEMMA GotoAt ==
  ASSUME TypeOK, NEW c \in Callers, NEW h \in Handles, NEW op \in Ops,
         Goto(c, op, h)
  PROVE  \A d \in Callers, o \in Ops, k \in Handles :
           At(d, o, k)' => At(d, o, k) \/ (d = c /\ o = op /\ k = h)
<1> SUFFICES ASSUME NEW d \in Callers, NEW o \in Ops, NEW k \in Handles,
                    At(d, o, k)'
             PROVE  At(d, o, k) \/ (d = c /\ o = op /\ k = h)
  OBVIOUS
<1>1. CASE d = c
  <2>1. caller'[c] = [op |-> op, handle |-> h]
    BY DEF Goto, TypeOK
  <2>2. [op |-> op, handle |-> h] = [op |-> o, handle |-> k]
    BY <1>1, <2>1 DEF At
  <2> QED
    BY <1>1, <2>2
<1>2. CASE d # c
  BY <1>2 DEF TypeOK, Goto, At
<1> QED
  BY <1>1, <1>2

\* A call that goes on to a step whose conditions hold.
LEMMA MemoryGoto ==
  ASSUME TypeOK, MemoryInv, UNCHANGED <<tables, gateway>>,
         NEW c \in Callers, NEW h \in Handles, NEW op \in Ops, op # "insert",
         Goto(c, op, h), CallInv(op, h)
  PROVE  MemoryInv'
<1>1. SessionTables' /\ \A k \in Handles : HandleInv(k)'
  BY DEF MemoryInv, SessionTables, HandleInv, tables
<1>2. \A d \in Callers, o \in Ops, k \in Handles :
        At(d, o, k)' => At(d, o, k) \/ (o = op /\ k = h)
  BY GotoAt
<1>3. \A d \in Callers, o \in Ops, k \in Handles : At(d, o, k)' => CallInv(o, k)'
  BY <1>2 DEF MemoryInv, CallInv, tables
<1>4. "insert" \in Ops
  BY DEF Ops, TransportOps
<1> QED
  BY <1>1, <1>2, <1>3, <1>4 DEF MemoryInv

\* What the other threads are doing when one returns.
LEMMA ReturnAt ==
  ASSUME TypeOK, NEW c \in Callers, Return(c)
  PROVE  \A d \in Callers, o \in Ops, k \in Handles :
           At(d, o, k)' => At(d, o, k) /\ d # c
BY DEF TypeOK, Return, At, Idle, Ops, TransportOps, MediaOps

LEMMA MemoryReturn ==
  ASSUME TypeOK, MemoryInv, UNCHANGED <<tables, gateway>>,
         NEW c \in Callers, Return(c)
  PROVE  MemoryInv'
<1>1. SessionTables' /\ \A k \in Handles : HandleInv(k)'
  BY DEF MemoryInv, SessionTables, HandleInv, tables
<1>2. \A d \in Callers, o \in Ops, k \in Handles : At(d, o, k)' => CallInv(o, k)'
  BY ReturnAt DEF MemoryInv, CallInv, tables
<1>3. "insert" \in Ops
  BY DEF Ops, TransportOps
<1> QED
  BY <1>1, <1>2, <1>3, ReturnAt DEF MemoryInv

LEMMA MemoryCreate ==
  ASSUME TypeOK, MemoryInv, NEW c \in Callers, NEW h \in Handles,
         CreateSession(c, h)
  PROVE  MemoryInv'
<1>0. /\ gateway[h] = "new" /\ UNCHANGED <<sessions, old_sessions, destroyed>>
      /\ "insert" \in Ops
  BY DEF CreateSession, Ops, TransportOps
<1>1. /\ heap[h] = "none" /\ destroyed[h] = NotDestroyed
      /\ old_sessions[h] = 0 /\ h \notin sessions
  BY <1>0 DEF MemoryInv, HandleInv
<1>2. \A d \in Callers, o \in Ops : ~At(d, o, h)
  BY <1>1 DEF MemoryInv, CallInv
<1>3. CASE Ready
  <2>1. /\ heap' = [heap EXCEPT ![h] = "live"]
        /\ gateway' = [gateway EXCEPT ![h] = "attaching"]
        /\ Goto(c, "insert", h)
    BY <1>3 DEF CreateSession
  <2>2. SessionTables' /\ \A k \in Handles : HandleInv(k)'
    BY <1>0, <1>1, <2>1 DEF MemoryInv, SessionTables, HandleInv, TypeOK
  <2>3. \A d \in Callers, o \in Ops, k \in Handles :
          At(d, o, k)' => At(d, o, k) \/ (d = c /\ o = "insert" /\ k = h)
    BY <1>0, <2>1, GotoAt
  <2>4. CallInv("insert", h)'
    BY <1>0, <1>1, <2>1 DEF CallInv, TypeOK
  <2>5. \A o \in Ops, k \in Handles \ {h} : CallInv(o, k) => CallInv(o, k)'
    BY <1>0, <2>1 DEF CallInv, TypeOK
  <2>6. \A d \in Callers, o \in Ops, k \in Handles :
          At(d, o, k)' => CallInv(o, k)'
    BY <1>2, <2>3, <2>4, <2>5 DEF MemoryInv
  <2> QED
    BY <1>0, <1>2, <2>2, <2>3, <2>6 DEF MemoryInv
<1>4. CASE ~Ready
  <2>1. /\ gateway' = [gateway EXCEPT ![h] = "failed"]
        /\ UNCHANGED <<heap, caller>>
    BY <1>4 DEF CreateSession
  <2> QED
    BY <1>0, <1>2, <2>1
    DEF MemoryInv, SessionTables, HandleInv, CallInv, TypeOK, At
<1> QED
  BY <1>3, <1>4

LEMMA MemoryInsert ==
  ASSUME TypeOK, MemoryInv, NEW c \in Callers, NEW h \in Handles,
         CreateInsert(c, h)
  PROVE  MemoryInv'
<1>0. "insert" \in Ops
  BY DEF Ops, TransportOps
<1>1. /\ sessions' = sessions \cup {h} /\ Return(c) /\ At(c, "insert", h)
      /\ gateway' = [gateway EXCEPT ![h] = "attached"]
      /\ UNCHANGED <<old_sessions, heap, destroyed>>
  BY DEF CreateInsert
<1>2. CallInv("insert", h) /\ gateway[h] = "attaching"
  BY <1>0, <1>1 DEF MemoryInv, CallInv
<1>3. heap[h] = "live" /\ destroyed[h] = NotDestroyed
  BY <1>2 DEF MemoryInv, HandleInv
<1>4. SessionTables' /\ \A k \in Handles : HandleInv(k)'
  BY <1>1, <1>3 DEF MemoryInv, SessionTables, HandleInv, TypeOK
<1>5. \A d \in Callers, o \in Ops, k \in Handles :
        At(d, o, k)' => At(d, o, k) /\ d # c
  BY <1>1, ReturnAt
<1>6. \A d \in Callers, o \in Ops : At(d, o, h)' => o # "insert"
  BY <1>0, <1>1, <1>5 DEF MemoryInv
<1>7. \A d \in Callers, o \in Ops, k \in Handles : At(d, o, k)' => CallInv(o, k)'
  BY <1>1, <1>2, <1>5, <1>6 DEF MemoryInv, CallInv, TypeOK
<1> QED
  BY <1>0, <1>4, <1>5, <1>7 DEF MemoryInv

LEMMA MemoryDestroySession ==
  ASSUME TypeOK, MemoryInv, NEW c \in Callers, NEW h \in Handles,
         DestroySession(c, h)
  PROVE  MemoryInv'
<1>0. {"insert", "detach", "remove"} \subseteq Ops
  BY DEF Ops, TransportOps
<1>1. /\ At(c, "detach", h) /\ gateway' = [gateway EXCEPT ![h] = "detached"]
      /\ UNCHANGED <<sessions, old_sessions, heap, destroyed>>
      /\ Goto(c, "remove", h) \/ Return(c)
  BY DEF DestroySession, tables
<1>2. CallInv("detach", h)
  BY <1>0, <1>1 DEF MemoryInv
<1>3. SessionTables' /\ \A k \in Handles : HandleInv(k)'
  BY <1>1, <1>2 DEF MemoryInv, SessionTables, HandleInv, CallInv, TypeOK
<1>4. \A d \in Callers, o \in Ops, k \in Handles :
        At(d, o, k)' => At(d, o, k) \/ (d = c /\ o = "remove" /\ k = h)
  <2>1. CASE Goto(c, "remove", h)
    BY <1>0, <2>1, GotoAt
  <2>2. CASE Return(c)
    BY <2>2, ReturnAt
  <2> QED
    BY <1>1, <2>1, <2>2
<1>5. \A d \in Callers, o \in Ops, k \in Handles : At(d, o, k)' => CallInv(o, k)'
  BY <1>0, <1>1, <1>2, <1>4 DEF MemoryInv, CallInv, TypeOK
<1> QED
  BY <1>0, <1>3, <1>4, <1>5 DEF MemoryInv

LEMMA MemoryDestroyRemove ==
  ASSUME TypeOK, MemoryInv, NEW c \in Callers, NEW h \in Handles,
         DestroyRemove(c, h)
  PROVE  MemoryInv'
<1>0. {"insert", "remove"} \subseteq Ops
  BY DEF Ops, TransportOps
<1>1. At(c, "remove", h) /\ Return(c) /\ UNCHANGED <<heap, gateway>>
  BY DEF DestroyRemove
<1>2. CallInv("remove", h)
  BY <1>0, <1>1 DEF MemoryInv
<1>3. CASE destroyed[h] = NotDestroyed
  <2>1. /\ destroyed' = [destroyed EXCEPT ![h] = 0] /\ sessions' = sessions \ {h}
        /\ old_sessions' = [old_sessions EXCEPT ![h] = @ + 1]
    BY <1>3 DEF DestroyRemove
  <2>2. old_sessions[h] = 0 /\ heap[h] = "live" /\ gateway[h] = "detached"
    BY <1>2, <1>3 DEF MemoryInv, SessionTables, CallInv, TypeOK
  <2>3. SessionTables' /\ \A k \in Handles : HandleInv(k)'
    BY <1>1, <2>1, <2>2 DEF MemoryInv, SessionTables, HandleInv, TypeOK, NotDestroyed
  <2>4. \A d \in Callers, o \in Ops, k \in Handles :
          At(d, o, k)' => CallInv(o, k)'
    BY <1>1, <2>1, ReturnAt DEF MemoryInv, CallInv, TypeOK
  <2> QED
    BY <1>0, <1>1, <2>3, <2>4, ReturnAt DEF MemoryInv
<1>4. CASE destroyed[h] # NotDestroyed
  BY <1>1, <1>4, MemoryReturn DEF DestroyRemove, tables
<1> QED
  BY <1>3, <1>4

\* Only sessions that no call is using can have expired.
LEMMA MemorySweep ==
  ASSUME TypeOK, MemoryInv, WatchdogSweep
  PROVE  MemoryInv'
<1>1. \A h \in Expired : h \in Handles /\ old_sessions[h] = 1
                         /\ destroyed[h] # NotDestroyed /\ destroyed[h] # 0
  BY ConstantsAssumption DEF Expired, MemoryInv, SessionTables, TypeOK, NotDestroyed
<1>2. /\ \A h \in Handles : heap'[h] = (IF h \in Expired THEN "freed" ELSE heap[h])
      /\ \A h \in Handles : old_sessions'[h] = (IF h \in Expired THEN 0
                                                ELSE old_sessions[h])
      /\ UNCHANGED <<sessions, destroyed, gateway, caller>>
  BY DEF WatchdogSweep
<1>3. SessionTables' /\ \A k \in Handles : HandleInv(k)'
  BY <1>1, <1>2 DEF MemoryInv, SessionTables, HandleInv
<1>4. \A d \in Callers, o \in Ops, k \in Handles : At(d, o, k)' => CallInv(o, k)'
  BY <1>1, <1>2 DEF MemoryInv, CallInv, At
<1> QED
  BY <1>2, <1>3, <1>4 DEF MemoryInv, At

LEMMA MemoryTick ==
  ASSUME TypeOK, MemoryInv, Tick
  PROVE  MemoryInv'
<1>1. \A h \in Handles : destroyed'[h] # NotDestroyed <=> destroyed[h] # NotDestroyed
  BY ConstantsAssumption DEF Tick, Older, NotDestroyed, TypeOK
<1>2. \A d \in Callers, o \in Ops, k \in Handles : ~At(d, o, k)'
  BY DEF Tick, At, Idle, Ops, TransportOps, MediaOps
<1>3. UNCHANGED <<sessions, old_sessions, heap, gateway>>
  BY DEF Tick
<1>4. "insert" \in Ops
  BY DEF Ops, TransportOps
<1> QED
  BY <1>1, <1>2, <1>3, <1>4 DEF MemoryInv, SessionTables, HandleInv

\* A call begins on an attached handle, whose session nobody has destroyed.
LEMMA MemoryBegin ==
  ASSUME TypeOK, MemoryInv, NEW c \in Callers, NEW h \in Handles,
         HandleMessage(c, h) \/ Detach(c, h) \/ QuerySession(c, h)
           \/ SetupMedia(c, h) \/ HangupMedia(c, h)
  PROVE  MemoryInv'
<1>1. PICK op \in {"push", "detach", "inspect", "reset", "hangup"} :
        /\ Goto(c, op, h) /\ gateway[h] = "attached"
        /\ UNCHANGED <<tables, gateway>>
  BY DEF HandleMessage, Detach, QuerySession, SetupMedia, HangupMedia, Begin,
         BeginMedia
<1>2. op \in Ops /\ op \notin {"insert", "remove"}
  BY <1>1 DEF Ops, TransportOps, MediaOps
<1>3. CallInv(op, h)
  BY <1>1, <1>2 DEF MemoryInv, HandleInv, CallInv
<1> QED
  BY <1>1, <1>2, <1>3, MemoryGoto

LEMMA MemoryHangup ==
  ASSUME TypeOK, MemoryInv, NEW c \in Callers, NEW h \in Handles,
         HangupAdd(c, h)
  PROVE  MemoryInv'
<1>1. {"hangup", "done"} \subseteq Ops
  BY DEF Ops, MediaOps
<1>2. CallInv("done", h)
  BY <1>1 DEF HangupAdd, MemoryInv, CallInv
<1>3. UNCHANGED <<tables, gateway>> /\ (Goto(c, "done", h) \/ Return(c))
  BY DEF HangupAdd
<1> QED
  BY <1>1, <1>2, <1>3, MemoryGoto, MemoryReturn

LEMMA MemoryMain ==
  ASSUME TypeOK, MemoryInv, Main
  PROVE  MemoryInv'
<1>1. CASE DestroyTables
  <2>1. sessions' = {} /\ UNCHANGED <<old_sessions, heap, destroyed, gateway, caller>>
    BY <1>1 DEF DestroyTables
  <2> QED
    BY <2>1 DEF MemoryInv, SessionTables, HandleInv, CallInv, At
<1>2. CASE ~DestroyTables
  <2>1. UNCHANGED <<tables, gateway, caller>>
    BY <1>2 DEF Main, InitTables, InitOpen, InitWatchdog, InitHandler,
                DestroyEnter, JoinHandler, JoinWatchdog, DestroyInitialized,
                DestroyStopping
  <2> QED
    BY <2>1, MemoryFrame
<1> QED
  BY <1>1, <1>2

LEMMA MemoryStep == TypeOK /\ MemoryInv /\ [Next]_vars => MemoryInv'
<1> SUFFICES ASSUME TypeOK, MemoryInv, [Next]_vars PROVE MemoryInv'
  OBVIOUS
<1>1. CASE Main
  BY <1>1, MemoryMain
<1>2. CASE \E c \in Callers : Call(c)
  BY <1>2, MemoryCreate, MemoryBegin DEF Call
<1>3. CASE \E c \in Callers : Continue(c)
  <2>1. PICK c \in Callers, h \in Handles :
          \/ CreateInsert(c, h) \/ PushMessage(c, h)
          \/ DestroySession(c, h) \/ DestroyRemove(c, h) \/ QueryRead(c, h)
          \/ SetupReset(c, h) \/ HangupAdd(c, h) \/ HangupDone(c, h)
    BY <1>3 DEF Continue
  <2>2. CASE PushMessage(c, h) \/ QueryRead(c, h) \/ SetupReset(c, h)
               \/ HangupDone(c, h)
    BY <2>2, MemoryReturn DEF PushMessage, QueryRead, SetupReset, HangupDone
  <2> QED
    BY <2>1, <2>2, MemoryInsert, MemoryDestroySession, MemoryDestroyRemove,
       MemoryHangup
<1>4. CASE Handler \/ WatchdogExit \/ BoardAnswers \/ Unplug
  <2>1. UNCHANGED <<tables, gateway, caller>>
    BY <1>4 DEF Handler, HandlerExit, HandlerPop, HandlerSession, HandlerError,
                HandlerWrite, HandlerRead, HandlerPush, WatchdogExit,
                BoardAnswers, Unplug
  <2> QED
    BY <2>1, MemoryFrame
<1>5. CASE UNCHANGED vars
  BY <1>5, MemoryFrame DEF vars
<1> QED
  BY <1>1, <1>2, <1>3, <1>4, <1>5, MemorySweep, MemoryTick DEF Next

LEMMA MemoryInvariant == Spec => []MemoryInv
<1>1. Init => MemoryInv
  BY DEF Init, MemoryInv, SessionTables, HandleInv, CallInv, At, Idle, Ops,
         TransportOps, MediaOps
<1> QED
  BY <1>1, MemoryStep, TypeCorrect, PTL DEF Spec

\* The hash table and the list of old sessions agree with the memory: no
\* session is in the list twice, so the watchdog frees none twice, and none
\* in the table is freed.
THEOREM SessionTablesAgree == Spec => []SessionTables
<1>1. MemoryInv => SessionTables
  BY DEF MemoryInv
<1> QED
  BY <1>1, MemoryInvariant, PTL

\* A gateway thread inside the plugin reaches its session's memory while it
\* is valid, whatever other threads destroy and however many of them there
\* are.
THEOREM CallersFindMemory == Spec => []CallerMemory
<1>1. MemoryInv => CallerMemory
  <2> SUFFICES ASSUME MemoryInv, NEW c \in Callers, NEW h \in Handles,
                      NEW op \in {"remove", "reset", "hangup", "inspect"},
                      At(c, op, h)
               PROVE  heap[h] = "live"
    BY DEF CallerMemory, At
  <2>1. op \in Ops
    BY DEF Ops, TransportOps, MediaOps
  <2> QED
    BY <2>1 DEF MemoryInv, CallInv
<1> QED
  BY <1>1, MemoryInvariant, PTL

(***************************************************************************)
(* Teardown.  PhaseInv ties each thread's life to the phases of main.      *)
(***************************************************************************)
LEMMA PhaseStep == TypeOK /\ PhaseInv /\ [Next]_vars => PhaseInv'
<1> SUFFICES ASSUME TypeOK, PhaseInv, [Next]_vars PROVE PhaseInv'
  OBVIOUS
<1> USE DEF PhaseInv, TransportsStopped, globals, serving
<1>1. CASE Main
  BY <1>1 DEF Main, InitTables, InitOpen, InitWatchdog, InitHandler, InitFails,
              DestroyEnter, JoinHandler, JoinWatchdog, DestroyTables,
              DestroyInitialized, DestroyStopping
<1>2. ASSUME NEW c \in Callers, Call(c) \/ Continue(c) PROVE PhaseInv'
  <2>1. UNCHANGED <<main, stopping, handler, watchdog>>
    BY <1>2 DEF Call, Continue, CreateSession, HandleMessage, Detach,
                QuerySession, SetupMedia, HangupMedia, CreateInsert,
                PushMessage, DestroySession, DestroyRemove, QueryRead,
                SetupReset, HangupAdd, HangupDone
  <2>2. ASSUME main # "up" PROVE TransportsStopped'
    <3>1. PICK h \in Handles :
            \/ SetupMedia(c, h) \/ HangupMedia(c, h) \/ CreateInsert(c, h)
            \/ PushMessage(c, h) \/ DestroySession(c, h) \/ DestroyRemove(c, h)
            \/ QueryRead(c, h) \/ SetupReset(c, h) \/ HangupAdd(c, h)
            \/ HangupDone(c, h)
      BY <1>2, <2>2 DEF Call, Continue, CreateSession, HandleMessage, Detach,
                        QuerySession, Begin
    <3>2. \A op \in TransportOps : ~At(c, op, h)
      BY <2>2 DEF At
    <3>3. (\E op \in MediaOps : Goto(c, op, h)) \/ Return(c)
      BY <3>1, <3>2 DEF SetupMedia, HangupMedia, CreateInsert, PushMessage,
           DestroySession, DestroyRemove, QueryRead, SetupReset, HangupAdd,
           HangupDone, TransportOps, MediaOps
    <3>4. caller'[c].op \notin TransportOps
      <4>1. CASE Return(c)
        BY <4>1 DEF Return, Idle, TransportOps, TypeOK
      <4>2. CASE \E op \in MediaOps : Goto(c, op, h)
        <5>1. PICK op \in MediaOps : caller'[c] = [op |-> op, handle |-> h]
          BY <4>2 DEF Goto, TypeOK
        <5> QED
          BY <5>1 DEF TransportOps, MediaOps
      <4> QED
        BY <3>3, <4>1, <4>2
    <3>5. \A d \in Callers : d # c => caller'[d] = caller[d]
      BY <3>3 DEF Goto, Return, TypeOK
    <3> QED
      BY <2>2, <3>4, <3>5
  <2> QED
    BY <2>1, <2>2
<1>3. CASE Handler \/ WatchdogSweep \/ WatchdogExit \/ BoardAnswers \/ Unplug
           \/ Tick \/ UNCHANGED vars
  BY <1>3 DEF Handler, HandlerExit, HandlerPop, HandlerSession, HandlerError,
              HandlerWrite, HandlerRead, HandlerPush, Serve, WatchdogSweep,
              WatchdogExit, BoardAnswers, Unplug, Tick, vars
<1> QED
  BY <1>1, <1>2, <1>3 DEF Next

LEMMA PhaseInvariant == Spec => []PhaseInv
<1>1. Init => PhaseInv
  BY DEF Init, PhaseInv, TransportsStopped, Idle, TransportOps
<1> QED
  BY <1>1, PhaseStep, TypeCorrect, PTL DEF Spec

\* janus_serial_destroy frees the tables, the queue and the port only when
\* the handler and the watchdog have ended and no transport's call is inside
\* the plugin.
THEOREM TeardownIsQuiet == Spec => []QuietTeardown
<1>1. PhaseInv => QuietTeardown
  BY DEF PhaseInv, QuietTeardown, TransportsStopped
<1> QED
  BY <1>1, PhaseInvariant, PTL

(***************************************************************************)
(* The message queue.                                                      *)
(***************************************************************************)

\* A step that neither queues nor serves a message.
LEMMA QueueFrame ==
  ASSUME QueueInv, UNCHANGED <<queue, messages, sent, served, current>>,
         handler' \in {"none", "loop", "exited"}
           <=> handler \in {"none", "loop", "exited"},
         queue = "null" => UNCHANGED main, main' # "init"
  PROVE  QueueInv'
BY DEF QueueInv, ServedInOrder, InHand

LEMMA QueueMain ==
  ASSUME TypeOK, PhaseInv, QueueInv, Main
  PROVE  QueueInv'
<1> USE DEF globals, serving, tables
<1>1. CASE InitTables
  BY <1>1 DEF InitTables, QueueInv, ServedInOrder, InHand, PhaseInv
<1>2. CASE DestroyTables
  <2>1. handler = "none" /\ current = NoMessage
    BY <1>2 DEF DestroyTables, PhaseInv, QueueInv, ServedInOrder
  <2> QED
    BY <1>2, <2>1 DEF DestroyTables, QueueInv, ServedInOrder, InHand
<1>3. CASE ~InitTables /\ ~DestroyTables
  <2>1. UNCHANGED <<queue, messages, sent, served, current>> /\ main' # "init"
    BY <1>3 DEF Main, InitOpen, InitWatchdog, InitHandler, InitFails,
         DestroyEnter, JoinHandler, JoinWatchdog, DestroyInitialized,
         DestroyStopping
  <2>2. handler' \in {"none", "loop", "exited"}
          <=> handler \in {"none", "loop", "exited"}
    BY <1>3 DEF Main, InitOpen, InitWatchdog, InitHandler, InitFails,
         DestroyEnter, JoinHandler, JoinWatchdog, DestroyInitialized,
         DestroyStopping, PhaseInv
  <2>3. queue = "null" => main' \in {"clear_stopping", "down"}
    BY <1>3 DEF Main, InitOpen, InitWatchdog, InitHandler, InitFails,
         DestroyEnter, JoinHandler, JoinWatchdog, DestroyInitialized,
         DestroyStopping, QueueInv
  <2> QED
    BY <2>1, <2>2, <2>3 DEF QueueInv, ServedInOrder, InHand
<1> QED
  BY <1>1, <1>2, <1>3

LEMMA QueuePush ==
  ASSUME TypeOK, PhaseInv, QueueInv, NEW c \in Callers, NEW h \in Handles,
         PushMessage(c, h)
  PROVE  QueueInv'
<1>1. main = "up" /\ queue = "live"
  BY DEF PushMessage, At, PhaseInv, TransportsStopped, TransportOps, QueueInv, TypeOK
<1>2. PICK b \in Bodies :
        messages' = Append(messages, [id |-> sent + 1, handle |-> h, body |-> b])
  BY DEF PushMessage
<1>3. sent' = sent + 1 /\ UNCHANGED <<queue, served, current, handler, main>>
  BY DEF PushMessage, globals, serving
<1>4. /\ Len(messages') = Len(messages) + 1
      /\ messages'[Len(messages) + 1].id = sent + 1
      /\ \A i \in 1..Len(messages) : messages'[i] = messages[i]
  BY <1>2 DEF TypeOK
<1>5. /\ sent = Len(served) + InHand + Len(messages)
      /\ \A i \in 1..Len(messages) : messages[i].id = Len(served) + InHand + i
  BY <1>1 DEF QueueInv, ServedInOrder
<1>6. InHand \in Nat /\ Len(messages) \in Nat /\ Len(served) \in Nat
  BY DEF InHand, TypeOK
<1>7. ASSUME NEW i \in 1..Len(messages')
      PROVE  messages'[i].id = Len(served) + InHand + i
  <2>1. CASE i = Len(messages) + 1
    BY <1>4, <1>5, <1>6, <2>1
  <2>2. CASE i \in 1..Len(messages)
    BY <1>4, <1>5, <2>2
  <2> QED
    BY <1>4, <1>6, <2>1, <2>2
<1>8. InHand' = InHand
  BY <1>3 DEF InHand
<1>9. sent' = Len(served) + InHand + Len(messages')
  BY <1>3, <1>4, <1>5, <1>6
<1> QED
  BY <1>1, <1>3, <1>7, <1>8, <1>9 DEF QueueInv, ServedInOrder

LEMMA QueuePop ==
  ASSUME TypeOK, PhaseInv, QueueInv, HandlerPop
  PROVE  QueueInv'
<1>1. /\ current' = Head(messages) /\ messages' = Tail(messages)
      /\ messages # <<>> /\ queue = "live" /\ handler = "loop"
      /\ handler' = "session" /\ UNCHANGED <<queue, served, sent, main>>
  BY DEF HandlerPop, globals
<1>2. /\ Len(messages') = Len(messages) - 1 /\ Len(messages) >= 1
      /\ current' = messages[1] /\ current' \in Message
      /\ \A i \in 1..Len(messages') : messages'[i] = messages[i + 1]
  BY <1>1 DEF TypeOK
<1>3. current = NoMessage /\ current' # NoMessage
  BY <1>1, <1>2 DEF QueueInv, ServedInOrder, NoMessage, Message
<1>4. InHand = 0 /\ InHand' = 1
  BY <1>3 DEF InHand
<1>5. current'.id = Len(served) + 1
  BY <1>2, <1>4 DEF QueueInv, ServedInOrder, TypeOK
<1>6. ASSUME NEW i \in 1..Len(messages')
      PROVE  messages'[i].id = Len(served) + InHand' + i
  <2>1. Len(served) \in Nat /\ Len(messages) \in Nat
    BY DEF TypeOK
  <2>2. i + 1 \in 1..Len(messages)
    BY <1>2, <2>1
  <2>3. messages[i + 1].id = Len(served) + 0 + (i + 1)
    BY <1>4, <2>2 DEF QueueInv, ServedInOrder
  <2> QED
    BY <1>2, <1>4, <2>1, <2>3
<1>7. sent = Len(served) + InHand' + Len(messages')
  BY <1>1, <1>2, <1>4 DEF QueueInv, ServedInOrder, TypeOK
<1> QED
  BY <1>1, <1>3, <1>5, <1>6, <1>7 DEF QueueInv, ServedInOrder, PhaseInv

LEMMA QueueServe ==
  ASSUME TypeOK, PhaseInv, QueueInv, NEW fate \in Fates, Serve(fate),
         handler \notin {"none", "loop", "exited"},
         UNCHANGED <<queue, messages, sent, main>>
  PROVE  QueueInv'
<1>1. /\ Len(served') = Len(served) + 1 /\ current' = NoMessage
      /\ handler' = "loop"
  BY DEF Serve, TypeOK
<1>2. InHand = 1 /\ InHand' = 0
  BY <1>1 DEF QueueInv, ServedInOrder, InHand
<1>3. main # "init"
  BY DEF PhaseInv
<1> QED
  BY <1>1, <1>2, <1>3 DEF QueueInv, ServedInOrder, TypeOK

LEMMA QueueHandler ==
  ASSUME TypeOK, PhaseInv, QueueInv, Handler
  PROVE  QueueInv'
<1> USE DEF globals
<1>1. CASE HandlerPop
  BY <1>1, QueuePop
<1>2. CASE HandlerExit \/ HandlerWrite \/ HandlerRead
  BY <1>2, QueueFrame
  DEF HandlerExit, HandlerWrite, HandlerRead, PhaseInv
<1>3. CASE HandlerSession
  <2>1. CASE Serve("dropped")
    BY <1>3, <2>1, QueueServe DEF HandlerSession, Fates
  <2>2. CASE handler' = "parse" /\ UNCHANGED <<current, served>>
    BY <1>3, <2>2, QueueFrame DEF HandlerSession, PhaseInv
  <2> QED
    BY <1>3, <2>1, <2>2 DEF HandlerSession
<1>4. CASE HandlerError \/ HandlerPush
  <2>1. PICK fate \in Fates : Serve(fate)
    BY <1>4 DEF HandlerError, HandlerPush, Fates
  <2> QED
    BY <1>4, <2>1, QueueServe DEF HandlerError, HandlerPush
<1> QED
  BY <1>1, <1>2, <1>3, <1>4 DEF Handler

LEMMA QueueStep == TypeOK /\ PhaseInv /\ QueueInv /\ [Next]_vars => QueueInv'
<1> SUFFICES ASSUME TypeOK, PhaseInv, QueueInv, [Next]_vars PROVE QueueInv'
  OBVIOUS
<1>1. ASSUME NEW c \in Callers, Call(c) \/ Continue(c) PROVE QueueInv'
  <2>1. CASE \E h \in Handles : PushMessage(c, h)
    BY <2>1, QueuePush
  <2>2. CASE ~\E h \in Handles : PushMessage(c, h)
    <3>1. UNCHANGED <<queue, messages, sent, served, current, handler, main>>
      BY <1>1, <2>2 DEF Call, Continue, CreateSession, HandleMessage, Detach,
           QuerySession, SetupMedia, HangupMedia, CreateInsert, DestroySession,
           DestroyRemove, QueryRead, SetupReset, HangupAdd, HangupDone,
           globals, serving
    <3> QED
      BY <3>1 DEF QueueInv, ServedInOrder, InHand
  <2> QED
    BY <2>1, <2>2
<1>2. CASE WatchdogSweep \/ WatchdogExit \/ BoardAnswers \/ Unplug \/ Tick
           \/ UNCHANGED vars
  <2>1. UNCHANGED <<queue, messages, sent, served, current, handler, main>>
    BY <1>2 DEF WatchdogSweep, WatchdogExit, BoardAnswers, Unplug, Tick, vars,
         globals, serving
  <2> QED
    BY <2>1 DEF QueueInv, ServedInOrder, InHand
<1> QED
  BY <1>1, <1>2, QueueMain, QueueHandler DEF Next

\* Every queued message is in the queue, in the handler's hand or served, and
\* served in the order it was queued: janus_serial_handle_message and the
\* handler thread lose, double and reorder none before the shutdown.
THEOREM MessagesServedInOrder == Spec => []ServedInOrder
<1>1. Init => QueueInv
  BY DEF Init, QueueInv, ServedInOrder, InHand
<1>2. QueueInv => ServedInOrder
  BY DEF QueueInv
<1> QED
  BY <1>1, <1>2, QueueStep, TypeCorrect, PhaseInvariant, PTL DEF Spec

(***************************************************************************)
(* Hang-ups.  OneDonePerHangup counts events; what is inductive counts the *)
(* threads about to send one as well, and the counter that lets them.      *)
(***************************************************************************)
AboutToSend(h) == {c \in Callers : At(c, "done", h)}

HangupInv == \A h \in Handles :
  dones[h] + Cardinality(AboutToSend(h)) <= setups[h] + hangingup[h]

LEMMA SendersFinite == \A h : /\ IsFiniteSet(AboutToSend(h))
                              /\ Cardinality(AboutToSend(h)) \in Nat
BY ThreadsAssumption, FS_Subset, FS_CardinalityType DEF AboutToSend

LEMMA CountersType ==
  ASSUME TypeOK, NEW h \in Handles
  PROVE  setups[h] \in Nat /\ dones[h] \in Nat /\ hangingup[h] \in 0..1
BY DEF TypeOK

\* A step that sends no event, starts none and leaves the counters alone.
LEMMA HangupFrame ==
  ASSUME HangupInv, UNCHANGED media, \A h \in Handles : AboutToSend(h)' = AboutToSend(h)
  PROVE  HangupInv'
BY DEF HangupInv, media

\* The thread that finds the counter at zero is one more about to send.
LEMMA HangupAddStep ==
  ASSUME TypeOK, HangupInv, NEW c \in Callers, NEW h \in Handles, HangupAdd(c, h)
  PROVE  HangupInv'
<1>1. /\ hangingup' = [hangingup EXCEPT ![h] = 1] /\ UNCHANGED <<setups, dones>>
      /\ At(c, "hangup", h) /\ ~At(c, "done", h)
  BY DEF HangupAdd, At
<1>2. CASE hangingup[h] = 0 /\ Goto(c, "done", h)
  <2>1. AboutToSend(h)' = AboutToSend(h) \cup {c} /\ c \notin AboutToSend(h)
    BY <1>1, <1>2 DEF AboutToSend, At, Goto, TypeOK
  <2>2. Cardinality(AboutToSend(h)') = Cardinality(AboutToSend(h)) + 1
    BY <2>1, SendersFinite, FS_AddElement
  <2>3. \A k \in Handles \ {h} : AboutToSend(k)' = AboutToSend(k)
    BY <1>1, <1>2 DEF AboutToSend, At, Goto, TypeOK
  <2>4. ASSUME NEW k \in Handles
        PROVE  dones'[k] + Cardinality(AboutToSend(k))' <= setups'[k] + hangingup'[k]
    <3>1. CASE k = h
      BY <1>1, <1>2, <2>2, <3>1, SendersFinite DEF HangupInv, TypeOK
    <3>2. CASE k # h
      BY <1>1, <2>3, <3>2 DEF HangupInv, TypeOK
    <3> QED
      BY <3>1, <3>2
  <2> QED
    BY <2>4 DEF HangupInv
<1>3. CASE hangingup[h] # 0 /\ Return(c)
  <2>1. hangingup' = hangingup
    BY <1>1, <1>3 DEF TypeOK
  <2>2. \A k \in Handles : AboutToSend(k)' = AboutToSend(k)
    BY <1>1, <1>3 DEF AboutToSend, At, Return, Idle, TypeOK
  <2> QED
    BY <1>1, <2>1, <2>2, HangupFrame DEF media
<1> QED
  BY <1>2, <1>3 DEF HangupAdd

\* The thread that sends is one fewer about to.
LEMMA HangupDoneStep ==
  ASSUME TypeOK, HangupInv, NEW c \in Callers, NEW h \in Handles, HangupDone(c, h)
  PROVE  HangupInv'
<1>1. /\ At(c, "done", h) /\ Return(c) /\ UNCHANGED <<setups, hangingup>>
      /\ dones' \in {dones, [dones EXCEPT ![h] = @ + 1]}
  BY DEF HangupDone, TypeOK
<1>2. AboutToSend(h)' = AboutToSend(h) \ {c} /\ c \in AboutToSend(h)
  BY <1>1 DEF AboutToSend, At, Return, Idle, TypeOK
<1>3. Cardinality(AboutToSend(h)') = Cardinality(AboutToSend(h)) - 1
  BY <1>2, SendersFinite, FS_RemoveElement
<1>4. \A k \in Handles \ {h} : AboutToSend(k)' = AboutToSend(k)
  BY <1>1 DEF AboutToSend, At, Return, Idle, TypeOK
<1>5. ASSUME NEW k \in Handles
      PROVE  dones'[k] + Cardinality(AboutToSend(k))' <= setups'[k] + hangingup'[k]
  <2>1. CASE k = h
    <3>1. dones'[h] \in {dones[h], dones[h] + 1}
      BY <1>1 DEF TypeOK
    <3>2. dones[h] + Cardinality(AboutToSend(h)) <= setups[h] + hangingup[h]
      BY DEF HangupInv
    <3>3. Cardinality(AboutToSend(k))' = Cardinality(AboutToSend(h)) - 1
      BY <1>3, <2>1
    <3> QED
      BY <1>1, <2>1, <3>1, <3>2, <3>3, SendersFinite, CountersType
  <2>2. CASE k # h
    BY <1>1, <1>4, <2>2 DEF HangupInv, TypeOK
  <2> QED
    BY <2>1, <2>2
<1> QED
  BY <1>5 DEF HangupInv

\* A set-up pays for the hang-up it allows.
LEMMA SetupResetStep ==
  ASSUME TypeOK, HangupInv, NEW c \in Callers, NEW h \in Handles, SetupReset(c, h)
  PROVE  HangupInv'
<1>1. /\ At(c, "reset", h) /\ Return(c) /\ UNCHANGED dones
      /\ hangingup' = [hangingup EXCEPT ![h] = 0]
      /\ setups' = [setups EXCEPT ![h] = @ + 1]
  BY DEF SetupReset
<1>2. \A k \in Handles : AboutToSend(k)' = AboutToSend(k)
  BY <1>1 DEF AboutToSend, At, Return, Idle, TypeOK
<1>3. ASSUME NEW k \in Handles
      PROVE  dones'[k] + Cardinality(AboutToSend(k))' <= setups'[k] + hangingup'[k]
  <2>1. dones[k] + Cardinality(AboutToSend(k)) <= setups[k] + hangingup[k]
    BY DEF HangupInv
  <2>2. Cardinality(AboutToSend(k))' = Cardinality(AboutToSend(k))
    BY <1>2
  <2>3. \/ setups'[k] = setups[k] /\ hangingup'[k] = hangingup[k]
        \/ setups'[k] = setups[k] + 1 /\ hangingup'[k] = 0
    BY <1>1 DEF TypeOK
  <2> QED
    BY <1>1, <2>1, <2>2, <2>3, SendersFinite, CountersType
<1> QED
  BY <1>3 DEF HangupInv

LEMMA HangupCall ==
  ASSUME TypeOK, HangupInv, NEW c \in Callers, Call(c) \/ Continue(c)
  PROVE  HangupInv'
<1>0. PICK h \in Handles :
        \/ CreateSession(c, h) \/ HandleMessage(c, h) \/ Detach(c, h)
        \/ QuerySession(c, h) \/ SetupMedia(c, h) \/ HangupMedia(c, h)
        \/ CreateInsert(c, h) \/ PushMessage(c, h)
        \/ DestroySession(c, h) \/ DestroyRemove(c, h) \/ QueryRead(c, h)
        \/ SetupReset(c, h) \/ HangupAdd(c, h) \/ HangupDone(c, h)
  BY DEF Call, Continue
<1>1. CASE HangupAdd(c, h) \/ HangupDone(c, h) \/ SetupReset(c, h)
  BY <1>1, HangupAddStep, HangupDoneStep, SetupResetStep
<1>2. CASE ~(HangupAdd(c, h) \/ HangupDone(c, h) \/ SetupReset(c, h))
  <2>1. /\ UNCHANGED media /\ caller[c].op # "done"
        /\ \/ UNCHANGED caller
           \/ Return(c)
           \/ \E op \in Ops \ {"done"} : Goto(c, op, h)
    BY <1>0, <1>2 DEF CreateSession, HandleMessage, Detach, QuerySession,
         SetupMedia, HangupMedia, CreateInsert, PushMessage, DestroySession,
         DestroyRemove, QueryRead, Begin, BeginMedia, At, Idle, media, Ops,
         TransportOps, MediaOps
  <2>2. \A d \in Callers : d # c => caller'[d] = caller[d]
    BY <2>1 DEF Return, Goto, TypeOK
  <2>3. caller'[c].op # "done"
    <3>1. CASE Return(c)
      BY <3>1 DEF Return, Idle, TypeOK
    <3>2. ASSUME NEW op \in Ops \ {"done"}, Goto(c, op, h) PROVE caller'[c].op # "done"
      <4>1. caller'[c] = [op |-> op, handle |-> h]
        BY <3>2 DEF Goto, TypeOK
      <4> QED
        BY <4>1
    <3> QED
      BY <2>1, <3>1, <3>2
  <2>4. \A k \in Handles : AboutToSend(k)' = AboutToSend(k)
    BY <2>1, <2>2, <2>3 DEF AboutToSend, At
  <2> QED
    BY <2>1, <2>4, HangupFrame
<1> QED
  BY <1>1, <1>2

LEMMA HangupStep == TypeOK /\ HangupInv /\ [Next]_vars => HangupInv'
<1> SUFFICES ASSUME TypeOK, HangupInv, [Next]_vars PROVE HangupInv'
  OBVIOUS
<1>1. CASE Main \/ Handler \/ WatchdogSweep \/ WatchdogExit \/ BoardAnswers
           \/ Unplug \/ Tick \/ UNCHANGED vars
  <2>1. UNCHANGED <<media, caller>>
    BY <1>1 DEF Main, InitTables, InitOpen, InitWatchdog, InitHandler,
         DestroyEnter, JoinHandler, JoinWatchdog, DestroyTables,
         DestroyInitialized, DestroyStopping, Handler, HandlerExit, HandlerPop,
         HandlerSession, HandlerError, HandlerWrite, HandlerRead, HandlerPush,
         WatchdogSweep, WatchdogExit, BoardAnswers, Unplug, Tick, vars
  <2>2. \A h \in Handles : AboutToSend(h)' = AboutToSend(h)
    BY <2>1 DEF AboutToSend, At
  <2> QED
    BY <2>1, <2>2, HangupFrame
<1> QED
  BY <1>1, HangupCall DEF Next

\* However many media threads hang a handle up at once, and whenever set-ups
\* come between their atomic add and their event, no more "done" events are
\* sent than there were set-ups, and one.
THEOREM HangupsSendOneDone == Spec => []OneDonePerHangup
<1>1. Init => HangupInv
  <2> SUFFICES ASSUME Init PROVE HangupInv
    OBVIOUS
  <2>1. \A h \in Handles : Cardinality(AboutToSend(h)) = 0
    <3>1. \A h \in Handles : AboutToSend(h) = {}
      BY DEF Init, AboutToSend, At, Idle
    <3> QED
      BY <3>1, FS_EmptySet
  <2>2. \A h \in Handles : dones[h] = 0 /\ setups[h] = 0 /\ hangingup[h] = 0
    BY DEF Init
  <2> QED
    BY <2>1, <2>2 DEF HangupInv
<1>2. TypeOK /\ HangupInv => OneDonePerHangup
  <2> SUFFICES ASSUME TypeOK, HangupInv, NEW h \in Handles
               PROVE  dones[h] <= setups[h] + 1
    BY DEF OneDonePerHangup
  <2>1. dones[h] + Cardinality(AboutToSend(h)) <= setups[h] + hangingup[h]
    BY DEF HangupInv
  <2> QED
    BY <2>1, SendersFinite, CountersType
<1> QED
  BY <1>1, <1>2, HangupStep, TypeCorrect, PTL DEF Spec
=============================================================================
