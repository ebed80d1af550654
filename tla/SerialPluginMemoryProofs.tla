----------------------- MODULE SerialPluginMemoryProofs -----------------------
(***************************************************************************)
(* The handler reaches a session through the handle of a message, outside  *)
(* the mutex.  Nothing but time protects it: what is proved here is how    *)
(* much time, for any traffic that is never more than K messages behind.   *)
(***************************************************************************)
EXTENDS SerialPluginServiceProofs

\* Loads add up.
LEMMA LoadFacts ==
  /\ \A n \in Int : Load(n) \in Int /\ Load(n + 1) = Load(n) + AnswerTime
  /\ \A m, n \in Int : m <= n => Load(m) <= Load(n)
  /\ Load(0) = 0 /\ Load(1) = AnswerTime
<1> USE ConstantsAssumption
<1>1. \A n \in Int : Load(n) \in Int /\ Load(n + 1) = Load(n) + AnswerTime
  BY DEF Load
<1>2. \A m, n \in Int : m <= n => Load(m) <= Load(n)
  <2> SUFFICES ASSUME NEW m \in Int, NEW n \in Int, m <= n
               PROVE  Load(m) <= Load(n)
    OBVIOUS
  <2>1. (n - m) * AnswerTime >= 0 /\ (n - m) * AnswerTime = n * AnswerTime - m * AnswerTime
    OBVIOUS
  <2>2. n * AnswerTime \in Int /\ m * AnswerTime \in Int
    OBVIOUS
  <2> QED
    BY <2>1, <2>2 DEF Load
<1>3. Load(0) = 0 /\ Load(1) = AnswerTime
  BY DEF Load
<1> QED
  BY <1>1, <1>2, <1>3

LEMMA LeftFacts ==
  ASSUME TypeOK, QueueInv
  PROVE  /\ Left \in Nat /\ InHand \in 0..1 /\ Left <= Load(InHand)
         /\ handler \in {"session", "parse", "read", "push", "push_stale"} <=> InHand = 1
<1> USE ConstantsAssumption
<1>1. InHand \in 0..1
  BY DEF InHand
<1>2. handler \in {"session", "parse", "read", "push", "push_stale"} <=> InHand = 1
  BY DEF TypeOK, HandlerPC, QueueInv, ServedInOrder, InHand
<1>3. waited \in 0..AnswerTime
  BY DEF TypeOK
<1>4. Left \in 0..AnswerTime /\ (InHand = 0 => Left = 0)
  BY <1>2, <1>3 DEF Left
<1>5. Left <= Load(InHand)
  <2>1. CASE InHand = 0
    BY <1>4, <2>1, LoadFacts
  <2>2. CASE InHand = 1
    BY <1>4, <2>2, LoadFacts
  <2> QED
    BY <1>1, <2>1, <2>2
<1> QED
  BY <1>1, <1>2, <1>4, <1>5

\* A session just destroyed has the time that the messages up to its own take.
LEMMA Room ==
  ASSUME TypeOK, QueueInv, NEW K \in Nat, Backlog <= K
  PROVE  /\ \A i \in 1..Len(messages) : Load(i - 1) + Left <= Load(K - 1)
         /\ handler = "session" => 0 <= Load(K - 1)
<1>1. Len(messages) \in Nat /\ InHand \in 0..1 /\ InHand + Len(messages) <= K
  BY LeftFacts DEF Backlog, TypeOK
<1>2. ASSUME NEW i \in 1..Len(messages) PROVE Load(i - 1) + Left <= Load(K - 1)
  <2>1. i - 1 \in Int /\ i \in Int /\ K - 1 \in Int /\ i - 1 + InHand <= K - 1
    BY <1>1
  <2>2. Load(i - 1) + Load(InHand) = Load(i - 1 + InHand)
    <3>1. Load(i - 1) \in Int /\ Load((i - 1) + 1) = Load(i - 1) + AnswerTime
      BY <2>1, LoadFacts
    <3>2. CASE InHand = 0
      BY <2>1, <3>1, <3>2, LoadFacts
    <3>3. CASE InHand = 1
      BY <2>1, <3>1, <3>3, LoadFacts
    <3> QED
      BY <1>1, <3>2, <3>3
  <2>3. Load(i - 1 + InHand) <= Load(K - 1)
    BY <1>1, <2>1, LoadFacts
  <2>4. /\ Left \in Nat /\ Left <= Load(InHand)
        /\ Load(i - 1) \in Int /\ Load(InHand) \in Int /\ Load(K - 1) \in Int
    <3>1. InHand \in Int
      BY <1>1
    <3> QED
      BY <2>1, <3>1, LeftFacts, LoadFacts
  <2> QED
    BY <2>2, <2>3, <2>4
<1>3. handler = "session" => 0 <= K - 1
  BY <1>1, LeftFacts
<1> QED
  BY <1>2, <1>3, LoadFacts

\* Types the steps need over and over.
LEMMA AgeTypes ==
  ASSUME TypeOK
  PROVE  /\ \A h \in Handles : destroyed[h] \in Int /\ destroyed[h] <= Grace
         /\ Len(messages) \in Nat /\ Grace \in Nat \ {0} /\ NotDestroyed \in Int
         /\ NotDestroyed < 0
         /\ \A i \in 1..Len(messages) : messages[i].handle \in Handles
         /\ current # NoMessage => current.handle \in Handles
<1> USE ConstantsAssumption
<1>1. \A i \in 1..Len(messages) : messages[i] \in Message
  BY DEF TypeOK
<1>2. \A h \in Handles : destroyed[h] \in {NotDestroyed} \cup 0..Grace
  BY DEF TypeOK
<1> QED
  BY <1>1, <1>2 DEF TypeOK, Message, NotDestroyed

LEMMA AgeMain ==
  ASSUME TypeOK, PhaseInv, QueueInv, NEW K \in Nat, AgeInv(K), Main
  PROVE  AgeInv(K)'
<1> USE DEF globals, tables, media, serving
<1>1. UNCHANGED <<heap, destroyed, gateway, line, waited, current>>
  BY DEF Main, InitTables, InitOpen, InitWatchdog, InitHandler, InitFails,
       DestroyEnter, JoinHandler, JoinWatchdog, DestroyTables,
       DestroyInitialized, DestroyStopping
<1>2. messages' = messages \/ messages' = <<>>
  BY DEF Main, InitTables, InitOpen, InitWatchdog, InitHandler, InitFails,
       DestroyEnter, JoinHandler, JoinWatchdog, DestroyTables,
       DestroyInitialized, DestroyStopping
<1>3. /\ main' \in {"init", "open", "start_watchdog", "start_handler"}
           => main \in {"init", "open", "start_watchdog", "start_handler"}
      /\ handler' = "loop" /\ handler' # handler
           => main \in {"init", "open", "start_watchdog", "start_handler"}
  BY DEF Main, InitTables, InitOpen, InitWatchdog, InitHandler, InitFails,
       DestroyEnter, JoinHandler, JoinWatchdog, DestroyTables,
       DestroyInitialized, DestroyStopping
<1>4. /\ handler' \in {handler, "none", "loop"}
      /\ handler # "none" => fd' = fd
  BY DEF Main, InitTables, InitOpen, InitWatchdog, InitHandler, InitFails,
       DestroyEnter, JoinHandler, JoinWatchdog, DestroyTables,
       DestroyInitialized, DestroyStopping, PhaseInv
<1>5. CASE handler' = handler
  BY <1>1, <1>2, <1>3, <1>4, <1>5 DEF AgeInv, Left, Stuck
<1>6. CASE handler' = "none"
  BY <1>1, <1>2, <1>3, <1>6 DEF AgeInv, Stuck
<1>7. CASE handler' = "loop" /\ handler' # handler
  <2>1. messages = <<>> /\ messages' = <<>>
    BY <1>2, <1>3, <1>7 DEF AgeInv
  <2> QED
    BY <1>1, <1>3, <1>7, <2>1 DEF AgeInv, Stuck
<1> QED
  BY <1>4, <1>5, <1>6, <1>7

LEMMA AgeCall ==
  ASSUME TypeOK, MemoryInv, PhaseInv, QueueInv, NEW K \in Nat, AgeInv(K),
         Backlog <= K, Backlog' <= K,
         NEW c \in Callers, Call(c) \/ Continue(c)
  PROVE  AgeInv(K)'
<1> USE DEF globals, tables, media, serving
<1>0. PICK h \in Handles :
        \/ CreateSession(c, h) \/ HandleMessage(c, h) \/ Detach(c, h)
        \/ QuerySession(c, h) \/ SetupMedia(c, h) \/ HangupMedia(c, h)
        \/ CreateInsert(c, h) \/ PushMessage(c, h)
        \/ DestroySession(c, h) \/ DestroyRemove(c, h) \/ QueryRead(c, h)
        \/ SetupReset(c, h) \/ HangupAdd(c, h) \/ HangupDone(c, h)
  BY DEF Call, Continue
<1>1. UNCHANGED <<main, current, handler, line, fd, waited>>
  BY <1>0 DEF CreateSession, HandleMessage, Detach, QuerySession, SetupMedia,
       HangupMedia, CreateInsert, PushMessage, DestroySession, DestroyRemove,
       QueryRead, SetupReset, HangupAdd, HangupDone
<1>2. Left' = Left /\ (Stuck' <=> Stuck)
  BY <1>1 DEF Left, Stuck
<1>3. CASE PushMessage(c, h)
  <2>1. UNCHANGED <<heap, destroyed, gateway>> /\ At(c, "push", h)
    BY <1>3 DEF PushMessage
  <2>2. PICK b \in Bodies :
          messages' = Append(messages, [id |-> sent + 1, handle |-> h, body |-> b])
    BY <1>3 DEF PushMessage
  <2>3. main = "up"
    BY <2>1 DEF At, PhaseInv, TransportsStopped, TransportOps
  <2>4. destroyed[h] <= 0 /\ destroyed[h] \in Int
    <3>1. CallInv("push", h)
      BY <2>1 DEF MemoryInv, Ops, TransportOps
    <3> QED
      BY <3>1 DEF CallInv, NotDestroyed
  <2> DEFINE n == Len(messages) + 1
  <2>5. ASSUME NEW i \in 1..Len(messages')
        PROVE  \/ i = n /\ messages'[i].handle = h
               \/ i \in 1..Len(messages) /\ messages'[i] = messages[i]
    BY <2>2 DEF TypeOK
  <2>6. n \in Nat /\ n - 1 \in Int /\ InHand' = InHand /\ Len(messages') = n
    BY <1>1, <2>2 DEF InHand, TypeOK
  <2> HIDE DEF n
  <2>7. Load(n - 1) + Left <= Load(K - 1)
    <3>1. n \in Nat /\ n - 1 \in Int /\ K - 1 \in Int /\ InHand' = InHand
          /\ Len(messages') = n
      BY <2>6
    <3>2. InHand + n <= K /\ InHand \in 0..1
      BY <3>1, LeftFacts DEF Backlog
    <3>3. Load(n - 1 + InHand) <= Load(K - 1)
      BY <3>1, <3>2, LoadFacts
    <3>4. Load(n - 1 + InHand) = Load(n - 1) + Load(InHand)
      <4>1. Load(n - 1) \in Int /\ Load((n - 1) + 1) = Load(n - 1) + AnswerTime
        BY <3>1, LoadFacts
      <4>2. CASE InHand = 0
        BY <3>1, <4>1, <4>2, LoadFacts
      <4>3. CASE InHand = 1
        BY <3>1, <4>1, <4>3, LoadFacts
      <4> QED
        BY <3>2, <4>2, <4>3
    <3>5. /\ Left \in Nat /\ Left <= Load(InHand) /\ Load(InHand) \in Int
          /\ Load(n - 1) \in Int /\ Load(K - 1) \in Int
      <4>1. InHand \in Int
        BY <3>2
      <4> QED
        BY <3>1, <4>1, LeftFacts, LoadFacts
    <3> QED
      BY <3>3, <3>4, <3>5
  <2>8. /\ Load(n - 1) \in Int /\ Left \in Nat /\ Load(K - 1) \in Int
    <3>1. K - 1 \in Int
      OBVIOUS
    <3> QED
      BY <2>6, <3>1, LeftFacts, LoadFacts
  <2>9. destroyed[h] + Load(n - 1) + Left <= Load(K - 1)
    BY <2>4, <2>7, <2>8
  <2>10. ASSUME handler \notin {"none", "exited"}, ~Stuck, NEW i \in 1..Len(messages')
        PROVE  destroyed[messages'[i].handle] + Load(i - 1) + Left <= Load(K - 1)
    <3>1. CASE i = n /\ messages'[i].handle = h
      BY <2>9, <3>1
    <3>2. CASE i \in 1..Len(messages) /\ messages'[i] = messages[i]
      BY <2>10, <3>2 DEF AgeInv
    <3> QED
      BY <2>5, <3>1, <3>2
  <2> QED
    BY <1>1, <1>2, <2>1, <2>3, <2>10 DEF AgeInv
<1>4. CASE DestroyRemove(c, h)
  <2>1. /\ UNCHANGED <<messages, heap, gateway>> /\ At(c, "remove", h)
        /\ \/ destroyed' = [destroyed EXCEPT ![h] = 0]
           \/ UNCHANGED destroyed
    BY <1>4 DEF DestroyRemove
  <2>2. heap[h] = "live"
    BY <2>1 DEF MemoryInv, CallInv, Ops, TransportOps
  <2>3. \A k \in Handles : destroyed'[k] = destroyed[k] \/ (k = h /\ destroyed'[k] = 0)
    BY <2>1 DEF TypeOK
  <2>4. ASSUME handler \notin {"none", "exited"}, ~Stuck, NEW i \in 1..Len(messages)
        PROVE  destroyed'[messages[i].handle] + Load(i - 1) + Left <= Load(K - 1)
    <3>1. Load(i - 1) \in Int /\ Left \in Nat
      BY LeftFacts, LoadFacts
    <3>2. CASE destroyed'[messages[i].handle] = destroyed[messages[i].handle]
      BY <2>4, <3>2 DEF AgeInv
    <3>3. CASE destroyed'[messages[i].handle] = 0
      BY <3>1, <3>3, Room
    <3> QED
      BY <2>3, <3>2, <3>3, AgeTypes
  <2>5. handler = "session" => destroyed'[current.handle] <= Load(K - 1)
    <3>1. handler = "session" => current.handle \in Handles
      BY AgeTypes DEF QueueInv, ServedInOrder
    <3>2. handler = "session" => ~Stuck
      BY DEF Stuck
    <3> QED
      BY <2>3, <3>1, <3>2, Room DEF AgeInv
  <2>6. \A k \in Handles : heap[k] = "freed" => destroyed'[k] >= Grace
    BY <2>2, <2>3 DEF AgeInv
  <2> QED
    BY <1>1, <1>2, <2>1, <2>4, <2>5, <2>6 DEF AgeInv
<1>5. CASE ~PushMessage(c, h) /\ ~DestroyRemove(c, h)
  <2>1. UNCHANGED <<messages, destroyed>>
    BY <1>0, <1>5 DEF CreateSession, HandleMessage, Detach, QuerySession,
         SetupMedia, HangupMedia, CreateInsert, DestroySession, QueryRead,
         SetupReset, HangupAdd, HangupDone
  <2>2. CASE CreateSession(c, h) \/ DestroySession(c, h) \/ CreateInsert(c, h)
    <3>1. CASE CreateSession(c, h)
      <4>1. /\ heap' = [heap EXCEPT ![h] = "live"] \/ heap' = heap
            /\ \E v \in {"attaching", "failed"} : gateway' = [gateway EXCEPT ![h] = v]
        BY <3>1 DEF CreateSession
      <4>2. \A k \in Handles : /\ heap'[k] = heap[k] \/ heap'[k] = "live"
                               /\ gateway'[k] = "detached" => gateway[k] = "detached"
        BY <4>1 DEF TypeOK
      <4> QED
        <5>1. \A k \in Handles :
                /\ heap'[k] = "freed" => destroyed'[k] >= Grace
                /\ gateway'[k] = "detached" => heap'[k] # "none"
          BY <2>1, <4>2 DEF AgeInv
        <5> QED
          BY <1>1, <1>2, <2>1, <5>1 DEF AgeInv
    <3>2. CASE CreateInsert(c, h)
      <4>1. UNCHANGED heap /\ gateway' = [gateway EXCEPT ![h] = "attached"]
        BY <3>2 DEF CreateInsert
      <4>2. \A k \in Handles : gateway'[k] = "detached" => gateway[k] = "detached"
        BY <4>1 DEF TypeOK
      <4> QED
        BY <1>1, <1>2, <2>1, <4>1, <4>2 DEF AgeInv
    <3>3. CASE DestroySession(c, h)
      <4>1. /\ UNCHANGED heap /\ gateway' = [gateway EXCEPT ![h] = "detached"]
            /\ At(c, "detach", h)
        BY <3>3 DEF DestroySession
      <4>2. heap[h] = "live"
        BY <4>1 DEF MemoryInv, CallInv, Ops, TransportOps
      <4>3. \A k \in Handles : gateway'[k] = "detached" => k = h \/ gateway[k] = "detached"
        BY <4>1 DEF TypeOK
      <4> QED
        BY <1>1, <1>2, <2>1, <4>1, <4>2, <4>3 DEF AgeInv
    <3> QED
      BY <2>2, <3>1, <3>2, <3>3
  <2>3. CASE UNCHANGED <<heap, gateway>>
    BY <1>1, <1>2, <2>1, <2>3 DEF AgeInv
  <2> QED
    BY <1>0, <1>5, <2>2, <2>3 DEF HandleMessage, Detach, QuerySession,
         SetupMedia, HangupMedia, QueryRead, SetupReset, HangupAdd, HangupDone
<1> QED
  BY <1>3, <1>4, <1>5

LEMMA AgeHandler ==
  ASSUME TypeOK, QueueInv, NEW K \in Nat, AgeInv(K), Handler
  PROVE  AgeInv(K)'
<1> USE DEF globals, tables, media
<1>1. UNCHANGED <<heap, destroyed, gateway, main, fd>>
  BY DEF Handler, HandlerExit, HandlerPop, HandlerSession, HandlerError,
       HandlerWrite, HandlerRead, HandlerPush
<1>2. /\ Load(K - 1) \in Int /\ Left \in Nat /\ AnswerTime \in Nat
      /\ \A i \in 1..Len(messages) : /\ Load(i - 1) \in Int
                                     /\ destroyed[messages[i].handle] \in Int
  <2>1. K - 1 \in Int /\ \A i \in 1..Len(messages) : i - 1 \in Int
    OBVIOUS
  <2> QED
    BY <2>1, LoadFacts, LeftFacts, AgeTypes, ConstantsAssumption
<1>3. CASE HandlerPop
  <2>1. /\ handler = "loop" /\ handler' = "session" /\ messages # <<>>
        /\ current' = messages[1] /\ messages' = Tail(messages)
    BY <1>3 DEF HandlerPop, TypeOK
  <2>2. /\ 1 \in 1..Len(messages)
        /\ \A i \in 1..Len(messages') : i + 1 \in 1..Len(messages)
                                       /\ messages'[i] = messages[i + 1]
    BY <2>1 DEF TypeOK
  <2>3. Left = 0 /\ Left' = AnswerTime /\ ~Stuck /\ ~Stuck'
    BY <2>1 DEF Left, Stuck
  <2>4. \A i \in 1..Len(messages) :
          destroyed[messages[i].handle] + Load(i - 1) + Left <= Load(K - 1)
    BY <2>1, <2>3 DEF AgeInv
  <2>5. ASSUME NEW i \in 1..Len(messages')
        PROVE  destroyed[messages'[i].handle] + Load(i - 1) + AnswerTime <= Load(K - 1)
    <3>1. /\ i \in Int /\ i - 1 \in Int /\ (i - 1) + 1 = i /\ (i + 1) - 1 = i
      OBVIOUS
    <3>2. Load(i) = Load(i - 1) + AnswerTime
      BY <3>1, LoadFacts
    <3>3. destroyed[messages[i + 1].handle] + Load(i) + Left <= Load(K - 1)
      BY <2>2, <2>4, <3>1
    <3>4. destroyed[messages'[i].handle] \in Int /\ Load(i - 1) \in Int
          /\ messages'[i] = messages[i + 1]
      BY <1>2, <2>2, <3>1, LoadFacts
    <3> QED
      BY <1>2, <2>3, <3>2, <3>3, <3>4
  <2>6. destroyed[current'.handle] <= Load(K - 1)
    <3>1. destroyed[messages[1].handle] + Load(1 - 1) + Left <= Load(K - 1)
      BY <2>2, <2>4
    <3>2. Load(1 - 1) = 0
      BY LoadFacts
    <3> QED
      BY <1>2, <2>1, <2>2, <2>3, <3>1, <3>2
  <2>7. main' \in {"init", "open", "start_watchdog", "start_handler"} => messages' = <<>>
    BY <1>1, <2>1 DEF AgeInv
  <2> QED
    BY <1>1, <2>1, <2>3, <2>5, <2>6, <2>7 DEF AgeInv
<1>4. CASE ~HandlerPop
  <2>1. /\ UNCHANGED messages /\ handler' # "session"
        /\ handler \notin {"none", "exited"}
    BY <1>4 DEF Handler, HandlerExit, HandlerSession, HandlerError,
         HandlerWrite, HandlerRead, HandlerPush, Serve
  <2>2. ~Stuck
    BY <1>4 DEF Handler, HandlerExit, HandlerSession, HandlerError,
         HandlerWrite, HandlerRead, HandlerPush, Stuck
  <2>3. Left' <= Left /\ Left' \in Int
    <3>1. waited \in 0..AnswerTime /\ AnswerTime \in Nat
      BY <1>2 DEF TypeOK
    <3>2. CASE HandlerExit
      BY <3>1, <3>2 DEF HandlerExit, Left
    <3>3. CASE HandlerSession
      BY <3>1, <3>3 DEF HandlerSession, Serve, Left
    <3>4. CASE HandlerError
      BY <3>1, <3>4 DEF HandlerError, Serve, Left
    <3>5. CASE HandlerWrite
      BY <3>1, <3>5 DEF HandlerWrite, Left
    <3>6. CASE HandlerRead
      BY <3>1, <3>6 DEF HandlerRead, Left
    <3>7. CASE HandlerPush
      BY <3>1, <3>7 DEF HandlerPush, Serve, Left
    <3> QED
      BY <1>4, <3>2, <3>3, <3>4, <3>5, <3>6, <3>7 DEF Handler
  <2>4. Stuck' => fd' # "tty"
    BY <1>4 DEF Handler, HandlerExit, HandlerSession, HandlerError,
         HandlerWrite, HandlerRead, HandlerPush, Serve, Stuck
  <2>5. \A i \in 1..Len(messages) :
          destroyed[messages[i].handle] + Load(i - 1) + Left <= Load(K - 1)
    BY <2>1, <2>2 DEF AgeInv
  <2>6. \A i \in 1..Len(messages) :
          destroyed[messages[i].handle] + Load(i - 1) + Left' <= Load(K - 1)
    BY <1>2, <2>3, <2>5
  <2> QED
    BY <1>1, <2>1, <2>4, <2>6 DEF AgeInv
<1> QED
  BY <1>3, <1>4

\* Time passes for the messages that wait only while the handler waits for a
\* board that owes an answer, and then the answer is that much nearer.
LEMMA AgeTick ==
  ASSUME TypeOK, QueueInv, FlowInv, "ignored" \notin Bodies,
         NEW K \in Nat, AgeInv(K), Tick
  PROVE  AgeInv(K)'
<1> USE DEF globals
<1>1. UNCHANGED <<heap, gateway, main, messages, fd, line, handler, current>>
  BY DEF Tick
<1>2. \A h \in Handles : destroyed'[h] \in Int /\ destroyed'[h] <= destroyed[h] + 1
                        /\ destroyed'[h] >= destroyed[h]
  BY AgeTypes DEF Tick, Older
<1>3. \A h \in Handles : heap[h] = "freed" => destroyed'[h] >= Grace
  BY <1>2, AgeTypes DEF AgeInv
<1>4. handler # "session"
  BY DEF Tick, HandlerSleeps
<1>5. ASSUME handler \notin {"none", "exited"}, ~Stuck, NEW i \in 1..Len(messages)
      PROVE  destroyed'[messages[i].handle] + Load(i - 1) + Left' <= Load(K - 1)
  <2>1. handler = "read" /\ line \notin {"answered", "hungup"}
    BY <1>5 DEF Tick, HandlerSleeps
  <2>2. line = "requested"
    BY <1>5, <2>1 DEF Stuck, TypeOK
  <2>3. current # NoMessage /\ current \in Message /\ current.body # "garbage"
    BY <2>1 DEF QueueInv, ServedInOrder, FlowInv, TypeOK
  <2>4. current.body = "command"
    BY <2>3, ConstantsAssumption DEF Message
  <2>5. waited \in 0..AnswerTime /\ waited < AnswerTime /\ waited' = waited + 1
    BY <2>1, <2>2, <2>3, <2>4 DEF Tick, HandlerSleeps, BoardWillAnswer, TypeOK
  <2>6. Left = AnswerTime - waited /\ Left' = AnswerTime - (waited + 1)
    BY <1>1, <2>1, <2>5 DEF Left
  <2>7. destroyed[messages[i].handle] + Load(i - 1) + Left <= Load(K - 1)
    BY <1>5 DEF AgeInv
  <2>8. /\ Load(i - 1) \in Int /\ Load(K - 1) \in Int /\ AnswerTime \in Int
        /\ messages[i].handle \in Handles /\ destroyed[messages[i].handle] \in Int
    <3>1. i - 1 \in Int /\ K - 1 \in Int
      OBVIOUS
    <3>2. Load(i - 1) \in Int /\ Load(K - 1) \in Int
      BY <3>1, LoadFacts
    <3> QED
      BY <3>2, AgeTypes, ConstantsAssumption
  <2>9. /\ destroyed'[messages[i].handle] \in Int
        /\ destroyed'[messages[i].handle] <= destroyed[messages[i].handle] + 1
    BY <1>2, <2>8
  <2> DEFINE d == destroyed[messages[i].handle]
             e == destroyed'[messages[i].handle]
             l == Load(i - 1)
             k == Load(K - 1)
  <2>10. d + l + (AnswerTime - waited) <= k
    BY <2>6, <2>7
  <2>11. /\ d \in Int /\ e \in Int /\ l \in Int /\ k \in Int
         /\ AnswerTime \in Int /\ waited \in Int /\ e <= d + 1
    BY <2>5, <2>8, <2>9
  <2> HIDE DEF d, e, l, k
  <2>12. e + l + (AnswerTime - (waited + 1)) <= k
    BY <2>10, <2>11
  <2> QED
    BY <2>6, <2>12 DEF e, l, k
<1> QED
  BY <1>1, <1>3, <1>4, <1>5 DEF AgeInv, Stuck

LEMMA AgeStep ==
  ASSUME "ignored" \notin Bodies, NEW K \in Nat
  PROVE  TypeOK /\ MemoryInv /\ PhaseInv /\ QueueInv /\ FlowInv /\ AgeInv(K)
           /\ Backlog <= K /\ Backlog' <= K /\ [Next]_vars => AgeInv(K)'
<1> SUFFICES ASSUME TypeOK, MemoryInv, PhaseInv, QueueInv, FlowInv, AgeInv(K),
                    Backlog <= K, Backlog' <= K, [Next]_vars
             PROVE  AgeInv(K)'
  OBVIOUS
<1>1. CASE WatchdogSweep
  <2>1. UNCHANGED <<destroyed, gateway, main, messages, fd, line, handler, current,
                    waited>>
    BY <1>1 DEF WatchdogSweep, globals, serving
  <2>2. heap' = [h \in Handles |-> IF h \in Expired THEN "freed" ELSE heap[h]]
    BY <1>1 DEF WatchdogSweep
  <2>3. \A h \in Handles : heap'[h] = "freed" => destroyed[h] >= Grace
    BY <2>2 DEF Expired, AgeInv
  <2>4. \A h \in Handles : gateway[h] = "detached" => heap'[h] # "none"
    BY <2>2 DEF AgeInv
  <2> QED
    BY <2>1, <2>3, <2>4 DEF AgeInv, Left, Stuck
<1>2. CASE BoardAnswers \/ Unplug
  <2>1. UNCHANGED <<heap, destroyed, gateway, main, messages, fd, handler, current,
                    waited>>
    BY <1>2 DEF BoardAnswers, Unplug, globals, tables
  <2>2. ~Stuck /\ ~Stuck'
    BY <1>2 DEF BoardAnswers, Unplug, BoardWillAnswer, Stuck, AgeInv
  <2> QED
    BY <2>1, <2>2 DEF AgeInv, Left
<1>3. CASE WatchdogExit \/ UNCHANGED vars
  <2>1. UNCHANGED <<heap, destroyed, gateway, main, messages, fd, line, handler,
                    current, waited>>
    BY <1>3 DEF WatchdogExit, vars, globals, tables, serving
  <2> QED
    BY <2>1 DEF AgeInv, Left, Stuck
<1> QED
  BY <1>1, <1>2, <1>3, AgeMain, AgeCall, AgeHandler, AgeTick DEF Next

\* What keeps the memory of the message in hand: it is younger than the grace
\* period.
LEMMA AgeGivesMemory ==
  ASSUME NEW K \in Nat, Load(K - 1) < Grace
  PROVE  TypeOK /\ MemoryInv /\ QueueInv /\ FlowInv /\ AgeInv(K) => HandlerMemory
<1> SUFFICES ASSUME TypeOK, MemoryInv, QueueInv, FlowInv, AgeInv(K),
                    handler = "session"
             PROVE  heap[current.handle] = "live"
  BY DEF HandlerMemory
<1> DEFINE h == current.handle
<1>1. h \in Handles /\ gateway[h] \in {"attached", "detached"}
  BY AgeTypes DEF QueueInv, ServedInOrder, FlowInv
<1>2. destroyed[h] <= Load(K - 1)
  BY DEF AgeInv, Stuck
<1>3. destroyed[h] < Grace
  <2>1. K - 1 \in Int
    OBVIOUS
  <2>2. Load(K - 1) \in Int
    BY <2>1, LoadFacts
  <2> QED
    BY <1>1, <1>2, <2>2, AgeTypes
<1>4. heap[h] # "freed"
  BY <1>1, <1>3, AgeTypes DEF AgeInv
<1>5. heap[h] # "none"
  BY <1>1 DEF AgeInv, MemoryInv, HandleInv
<1> QED
  BY <1>1, <1>4, <1>5 DEF TypeOK

\* If the board answers every command within AnswerTime, and no more than K
\* messages are ever accepted and not yet served, the handler finds the
\* session of every message it takes valid as long as K - 1 answers take less
\* than the grace period, however many sessions and messages there are: what
\* protects the handler from the watchdog is a short queue.
THEOREM HandlerFindsMemory ==
  ASSUME "ignored" \notin Bodies, NEW K \in Nat, Load(K - 1) < Grace
  PROVE  Spec /\ [](Backlog <= K) => []HandlerMemory
<1>1. Init => AgeInv(K)
  BY DEF Init, AgeInv, NotDestroyed, Stuck
<1>2. TypeOK /\ MemoryInv /\ PhaseInv /\ QueueInv /\ FlowInv /\ AgeInv(K)
        /\ Backlog <= K /\ (Backlog <= K)' /\ [Next]_vars => AgeInv(K)'
  BY AgeStep
<1>3. TypeOK /\ MemoryInv /\ QueueInv /\ FlowInv /\ AgeInv(K) => HandlerMemory
  BY AgeGivesMemory
<1> QED
  BY <1>1, <1>2, <1>3, TypeCorrect, MemoryInvariant, PhaseInvariant,
     QueueInvariant, FlowInvariant, PTL DEF Spec

(***************************************************************************)
(* The bound on traffic bounds the queue: what has been sent, and what the *)
(* callers that passed the flag test are about to push, counted together.  *)
(***************************************************************************)
AboutToPush == {c \in Callers : \E h \in Handles : At(c, "push", h)}

SentInv ==
  /\ sent + Cardinality(AboutToPush) <= MaxMessages
  /\ queue = "null" => handler = "none" /\ messages = <<>>

LEMMA PushersFinite == IsFiniteSet(AboutToPush) /\ Cardinality(AboutToPush) \in Nat
BY ThreadsAssumption, FS_Subset, FS_CardinalityType DEF AboutToPush

LEMMA SentCall ==
  ASSUME TypeOK, PhaseInv, QueueInv, SentInv, NEW c \in Callers, Call(c) \/ Continue(c)
  PROVE  SentInv'
<1> USE DEF globals, serving
<1>0. PICK h \in Handles :
        \/ CreateSession(c, h) \/ HandleMessage(c, h) \/ Detach(c, h)
        \/ QuerySession(c, h) \/ SetupMedia(c, h) \/ HangupMedia(c, h)
        \/ CreateInsert(c, h) \/ PushMessage(c, h)
        \/ DestroySession(c, h) \/ DestroyRemove(c, h) \/ QueryRead(c, h)
        \/ SetupReset(c, h) \/ HangupAdd(c, h) \/ HangupDone(c, h)
  BY DEF Call, Continue
<1>1. UNCHANGED <<queue, handler>>
  BY <1>0 DEF CreateSession, HandleMessage, Detach, QuerySession, SetupMedia,
       HangupMedia, CreateInsert, PushMessage, DestroySession, DestroyRemove,
       QueryRead, SetupReset, HangupAdd, HangupDone
<1>2. sent \in Nat /\ MaxMessages \in Nat
  BY ConstantsAssumption DEF TypeOK
<1>3. CASE HandleMessage(c, h)
  <2>1. /\ caller[c] = Idle /\ Goto(c, "push", h) /\ UNCHANGED <<sent, messages>>
        /\ sent + Cardinality(AboutToPush) < MaxMessages
    BY <1>3 DEF HandleMessage, Begin, InFlight, AboutToPush
  <2>2. AboutToPush' = AboutToPush \cup {c} /\ c \notin AboutToPush
    <3>1. /\ caller'[c] = [op |-> "push", handle |-> h]
          /\ \A d \in Callers : d # c => caller'[d] = caller[d]
      BY <2>1 DEF Goto, TypeOK
    <3>2. \A k \in Handles : ~At(c, "push", k)
      BY <2>1 DEF At, Idle
    <3>3. \A d \in Callers : d # c =>
            ((\E k \in Handles : At(d, "push", k)') <=> \E k \in Handles : At(d, "push", k))
      BY <3>1 DEF At
    <3>4. At(c, "push", h)'
      BY <3>1 DEF At
    <3> QED
      BY <3>2, <3>3, <3>4 DEF AboutToPush
  <2>3. Cardinality(AboutToPush') = Cardinality(AboutToPush) + 1
    BY <2>2, PushersFinite, FS_AddElement
  <2> QED
    BY <1>1, <1>2, <2>1, <2>3, PushersFinite DEF SentInv
<1>4. CASE PushMessage(c, h)
  <2>1. At(c, "push", h) /\ Return(c) /\ sent' = sent + 1
    BY <1>4 DEF PushMessage
  <2>2. AboutToPush' = AboutToPush \ {c} /\ c \in AboutToPush
    BY <2>1 DEF AboutToPush, At, Return, Idle, TypeOK
  <2>3. Cardinality(AboutToPush') = Cardinality(AboutToPush) - 1
    BY <2>2, PushersFinite, FS_RemoveElement
  <2>4. queue # "null"
    BY <2>1 DEF At, PhaseInv, TransportsStopped, TransportOps, QueueInv
  <2> QED
    BY <1>1, <1>2, <2>1, <2>3, <2>4, PushersFinite DEF SentInv
<1>5. CASE ~HandleMessage(c, h) /\ ~PushMessage(c, h)
  <2>1. /\ UNCHANGED <<sent, messages>> /\ caller[c].op # "push"
        /\ \/ UNCHANGED caller
           \/ Return(c)
           \/ \E op \in Ops \ {"push"} : Goto(c, op, h)
    BY <1>0, <1>5 DEF CreateSession, Detach, QuerySession, SetupMedia, HangupMedia,
         CreateInsert, DestroySession, DestroyRemove, QueryRead, SetupReset,
         HangupAdd, HangupDone, Begin, BeginMedia, At, Idle, Ops, TransportOps,
         MediaOps
  <2>2. \A d \in Callers : d # c => caller'[d] = caller[d]
    BY <2>1 DEF Return, Goto, TypeOK
  <2>3. caller'[c].op # "push"
    <3>1. CASE Return(c)
      BY <3>1 DEF Return, Idle, TypeOK
    <3>2. ASSUME NEW op \in Ops \ {"push"}, Goto(c, op, h) PROVE caller'[c].op # "push"
      <4>1. caller'[c] = [op |-> op, handle |-> h]
        BY <3>2 DEF Goto, TypeOK
      <4> QED
        BY <4>1
    <3> QED
      BY <2>1, <3>1, <3>2
  <2>4. AboutToPush' = AboutToPush
    <3>1. \A k \in Handles : ~At(c, "push", k) /\ ~At(c, "push", k)'
      BY <2>1, <2>3 DEF At
    <3>2. \A d \in Callers : d # c =>
            ((\E k \in Handles : At(d, "push", k)') <=> \E k \in Handles : At(d, "push", k))
      BY <2>2 DEF At
    <3> QED
      BY <3>1, <3>2 DEF AboutToPush
  <2> QED
    BY <1>1, <2>1, <2>4 DEF SentInv
<1> QED
  BY <1>3, <1>4, <1>5

LEMMA SentStep == TypeOK /\ PhaseInv /\ QueueInv /\ SentInv /\ [Next]_vars => SentInv'
<1> SUFFICES ASSUME TypeOK, PhaseInv, QueueInv, SentInv, [Next]_vars PROVE SentInv'
  OBVIOUS
<1> USE DEF globals, serving
<1>1. CASE Main
  <2>1. UNCHANGED <<caller, sent>>
    BY <1>1 DEF Main, InitTables, InitOpen, InitWatchdog, InitHandler, InitFails,
         DestroyEnter, JoinHandler, JoinWatchdog, DestroyTables,
         DestroyInitialized, DestroyStopping
  <2>2. queue' = "null" => handler' = "none" /\ messages' = <<>>
    BY <1>1 DEF Main, InitTables, InitOpen, InitWatchdog, InitHandler, InitFails,
         DestroyEnter, JoinHandler, JoinWatchdog, DestroyTables,
         DestroyInitialized, DestroyStopping, SentInv, PhaseInv, QueueInv
  <2> QED
    BY <2>1, <2>2 DEF SentInv, AboutToPush, At
<1>2. CASE Handler
  <2>1. UNCHANGED <<caller, sent, queue>> /\ handler # "none"
    BY <1>2 DEF Handler, HandlerExit, HandlerPop, HandlerSession, HandlerError,
         HandlerWrite, HandlerRead, HandlerPush
  <2> QED
    BY <2>1 DEF SentInv, AboutToPush, At
<1>3. CASE WatchdogSweep \/ WatchdogExit \/ BoardAnswers \/ Unplug \/ Tick \/ UNCHANGED vars
  <2>1. UNCHANGED <<caller, sent, queue, handler, messages>>
    BY <1>3 DEF WatchdogSweep, WatchdogExit, BoardAnswers, Unplug, Tick, vars
  <2> QED
    BY <2>1 DEF SentInv, AboutToPush, At
<1> QED
  BY <1>1, <1>2, <1>3, SentCall DEF Next

LEMMA SentInvariant == Spec => []SentInv
<1>1. Init => SentInv
  <2> SUFFICES ASSUME Init PROVE SentInv
    OBVIOUS
  <2>1. AboutToPush = {}
    BY DEF Init, AboutToPush, At, Idle
  <2> QED
    BY <2>1, FS_EmptySet, ConstantsAssumption DEF Init, SentInv
<1> QED
  BY <1>1, SentStep, TypeCorrect, PhaseInvariant, QueueInvariant, PTL DEF Spec

\* In particular when the gateway sends no more than MaxMessages messages, the
\* traffic of the instances that are model-checked: there one answer more than
\* the grace period has room for is enough to lose the memory.
THEOREM HandlerFindsMemoryOfFew ==
  ASSUME "ignored" \notin Bodies, Load(MaxMessages - 1) < Grace
  PROVE  Spec => []HandlerMemory
<1>1. TypeOK /\ QueueInv /\ SentInv => Backlog <= MaxMessages
  <2> SUFFICES ASSUME TypeOK, QueueInv, SentInv PROVE Backlog <= MaxMessages
    OBVIOUS
  <2>1. /\ sent <= MaxMessages /\ sent \in Nat /\ MaxMessages \in Nat
        /\ Len(served) \in Nat /\ Len(messages) \in Nat /\ InHand \in 0..1
    BY PushersFinite, ConstantsAssumption DEF SentInv, TypeOK, InHand
  <2>2. CASE queue = "live"
    BY <2>1, <2>2 DEF QueueInv, ServedInOrder, Backlog
  <2>3. CASE queue = "null"
    <3>1. messages = <<>> /\ current = NoMessage
      BY <2>3 DEF SentInv, QueueInv, ServedInOrder
    <3> QED
      BY <2>1, <3>1 DEF Backlog, InHand
  <2> QED
    BY <2>2, <2>3 DEF TypeOK
<1>2. Spec => [](Backlog <= MaxMessages)
  BY <1>1, SentInvariant, TypeCorrect, QueueInvariant, PTL
<1>3. Init => AgeInv(MaxMessages)
  BY DEF Init, AgeInv, NotDestroyed, Stuck
<1>4. TypeOK /\ MemoryInv /\ PhaseInv /\ QueueInv /\ FlowInv /\ AgeInv(MaxMessages)
        /\ Backlog <= MaxMessages /\ (Backlog <= MaxMessages)' /\ [Next]_vars
        => AgeInv(MaxMessages)'
  BY AgeStep, ConstantsAssumption
<1>5. TypeOK /\ MemoryInv /\ QueueInv /\ FlowInv /\ AgeInv(MaxMessages) => HandlerMemory
  BY AgeGivesMemory, ConstantsAssumption
<1> QED
  BY <1>2, <1>3, <1>4, <1>5, TypeCorrect, MemoryInvariant, PhaseInvariant,
     QueueInvariant, FlowInvariant, PTL DEF Spec
=============================================================================
