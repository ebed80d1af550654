------------------------- MODULE GatewaySessionsProofs -------------------------
(***************************************************************************)
(* Proofs about the gateway's sessions, for any number of threads, ids,    *)
(* sessions and events and any durations that satisfy DurationsAssumption: *)
(* types, the table, long polls, and the memory that requests use.         *)
(***************************************************************************)
EXTENDS GatewaySessions, SequenceTheorems, TLAPS

Timers == {cleanups[n] : n \in DOMAIN cleanups}

\* Thread w has found session s and works on it, with nothing but the pointer.
On(w, s) == worker[w].op \notin {"free", "create", "push"} /\ worker[w].session = s

\* Whatever leads to a session leads to one that has been created, and a
\* session that has not is untouched.
CreatedInv ==
  /\ \A s \in Sessions : memory[s] # "none" => idOf[s] \in Ids
  /\ \A s \in Sessions : memory[s] = "none" => idle[s] = 0 /\ timeout[s] = 0
  /\ \A i \in Ids : sessions[i] # 0 => memory[sessions[i]] # "none"
  /\ \A i \in Ids : old_sessions[i] # 0 => memory[old_sessions[i]] # "none"
  /\ \A s \in Sessions : attached[s] = 1 => memory[s] # "none"
  /\ \A t \in Timers : memory[t.session] # "none"
  /\ cleaning # 0 => memory[cleaning] # "none"

\* So does what a thread has found, and it keeps the id it was found under.
HandInv ==
  /\ \A w \in Workers : worker[w].op \notin {"free", "create"} =>
       /\ worker[w].session \in Sessions /\ memory[worker[w].session] # "none"
       /\ worker[w].id = idOf[worker[w].session]
  /\ \A w \in Workers : worker[w].op = "sleep" => worker[w].waited < PollTime
  /\ \A w \in Workers : worker[w].op = "create" => worker[w].session = 0

\* What is being cleaned up has left the table, and the table of the old ones
\* keeps every session under its own id.
TableInv ==
  /\ TableLive
  /\ \A i \in Ids : old_sessions[i] # 0 => idOf[old_sessions[i]] = i
  /\ cleaning # 0 => \A i \in Ids : sessions[i] # cleaning

\* A long poll has waited at least as long as its session has been idle, since
\* it began with a request on that session or on one its id stood for.
PollInv ==
  /\ \A i \in Ids : sessions[i] # 0 => timeout[sessions[i]] = 0
  /\ \A w \in Workers : worker[w].op \in Requests =>
       LET found == sessions[worker[w].id] IN
         found = 0 \/ found = worker[w].session \/ idle[found] = 0
  /\ \A w \in Workers : worker[w].op = "pop" =>
       LET found == sessions[worker[w].id] IN found = 0 \/ idle[found] = 0
  /\ \A w \in Workers : worker[w].op \in {"look", "sleep"} =>
       idle[worker[w].session] <= worker[w].waited /\ timeout[worker[w].session] = 0

\* A drawn id is one session's only.
DrawnInv ==
  /\ \A r, s \in Sessions :
       memory[r] # "none" /\ memory[s] # "none" /\ idOf[r] = idOf[s] /\ idOf[s] \notin Named => r = s
  /\ \A w \in Workers, s \in Sessions :
       worker[w].op = "create" /\ worker[w].id \notin Named /\ memory[s] # "none" =>
         idOf[s] # worker[w].id
  /\ \A v, w \in Workers :
       worker[v].op = "create" /\ worker[w].op = "create" /\ worker[v].id = worker[w].id
         /\ worker[w].id \notin Named => v = w

\* A session with a timer is out of the table for good, and says why.
TimerInv ==
  /\ \A t \in Timers : destroy[t.session] = 1 \/ timeout[t.session] = 1
  /\ \A w \in Workers : worker[w].op = "removing" => destroy[worker[w].session] = 1
  /\ \A i \in Ids, t \in Timers : sessions[i] # 0 => t.session # sessions[i]

\* A timer for a session that a thread works on has only just been set: time
\* passes for a sleeping poll alone, which then looks, sees the destruction and
\* sleeps no more.
UserInv ==
  ~Misused => \A w \in Workers, s \in Sessions : On(w, s) /\ idOf[s] \notin Named =>
    /\ memory[s] = "live" /\ cleaning # s
    /\ \A t \in Timers : t.session = s => t.age <= 1 /\ (worker[w].op # "look" => t.age = 0)


-----------------------------------------------------------------------------
(***************************************************************************)
(* What the threads are doing, and what the timers are.                    *)
(***************************************************************************)
LEMMA WorkerFields ==
  ASSUME TypeOK, NEW w \in Workers, worker[w].op # "free"
  PROVE  /\ worker[w].op \in WorkerOps /\ worker[w].id \in Ids
         /\ worker[w].session \in 0..MaxSessions /\ worker[w].waited \in 0..PollTime
BY DEF TypeOK, Free

LEMMA WorkerFree ==
  ASSUME TypeOK, NEW w \in Workers
  PROVE  worker[w] = Free <=> worker[w].op = "free"
<1>1. CASE worker[w] = Free
  BY <1>1 DEF Free
<1>2. CASE worker[w].op \in WorkerOps
  BY <1>2 DEF Free, WorkerOps, Requests
<1> QED
  BY <1>1, <1>2 DEF TypeOK

LEMMA WorkerTyped ==
  ASSUME TypeOK, NEW w \in Workers, NEW op \in WorkerOps, NEW i \in Ids, NEW s \in 0..MaxSessions,
         NEW n \in 0..PollTime,
         worker' = [worker EXCEPT ![w] = [op |-> op, id |-> i, session |-> s, waited |-> n]]
  PROVE  worker' \in [Workers -> {Free} \cup
           [op : WorkerOps, id : Ids, session : 0..MaxSessions, waited : 0..PollTime]]
BY DEF TypeOK

LEMMA GotoTyped ==
  ASSUME TypeOK, NEW w \in Workers, NEW op \in WorkerOps, NEW s \in Sessions, idOf[s] \in Ids,
         Goto(w, op, s)
  PROVE  worker' \in [Workers -> {Free} \cup
           [op : WorkerOps, id : Ids, session : 0..MaxSessions, waited : 0..PollTime]]
<1>1. s \in 0..MaxSessions /\ 0 \in 0..PollTime
  BY ConstantsAssumption DEF Sessions
<1> QED
  BY <1>1, WorkerTyped DEF Goto

LEMMA ReturnTyped ==
  ASSUME TypeOK, NEW w \in Workers, Return(w)
  PROVE  worker' \in [Workers -> {Free} \cup
           [op : WorkerOps, id : Ids, session : 0..MaxSessions, waited : 0..PollTime]]
BY DEF TypeOK, Return

LEMMA ExceptTyped ==
  ASSUME NEW D, NEW R, NEW f \in [D -> R], NEW d, NEW r \in R
  PROVE  [f EXCEPT ![d] = r] \in [D -> R]
OBVIOUS

LEMMA SequenceElement ==
  ASSUME NEW T, NEW q \in Seq(T)
  PROVE  Len(q) \in Nat /\ DOMAIN q = 1..Len(q) /\ \A n \in DOMAIN q : q[n] \in T
OBVIOUS

LEMMA TimersTyped == TypeOK => \A t \in Timers : t \in [session : Sessions, age : 0..CleanupDelay]
<1> SUFFICES ASSUME TypeOK PROVE \A t \in Timers : t \in [session : Sessions, age : 0..CleanupDelay]
  OBVIOUS
<1> DEFINE T == [session : Sessions, age : 0..CleanupDelay]
<1>1. cleanups \in Seq(T)
  BY DEF TypeOK
<1> HIDE DEF T
<1>2. \A n \in DOMAIN cleanups : cleanups[n] \in T
  BY <1>1, SequenceElement
<1> QED
  BY <1>2 DEF Timers, T

LEMMA TimersSame == cleanups' = cleanups => Timers' = Timers
BY DEF Timers

LEMMA TimersAppend ==
  ASSUME TypeOK, NEW s \in Sessions, cleanups' = Append(cleanups, [session |-> s, age |-> 0])
  PROVE  /\ cleanups' \in Seq([session : Sessions, age : 0..CleanupDelay])
         /\ \A t \in Timers' : t \in Timers \/ t = [session |-> s, age |-> 0]
<1> DEFINE T == [session : Sessions, age : 0..CleanupDelay]
<1>1. [session |-> s, age |-> 0] \in T
  BY ConstantsAssumption
<1>2. cleanups \in Seq(T)
  BY DEF TypeOK
<1>3. cleanups' \in Seq(T) /\ Len(cleanups') = Len(cleanups) + 1
  BY <1>1, <1>2
<1>4. \A n \in DOMAIN cleanups' :
        (n \in DOMAIN cleanups /\ cleanups'[n] = cleanups[n]) \/ cleanups'[n] = [session |-> s, age |-> 0]
  BY <1>1, <1>2
<1> QED
  BY <1>3, <1>4 DEF Timers

LEMMA TimersTail ==
  ASSUME TypeOK, cleanups # <<>>, cleanups' = Tail(cleanups)
  PROVE  /\ cleanups' \in Seq([session : Sessions, age : 0..CleanupDelay])
         /\ Timers' \subseteq Timers /\ Head(cleanups) \in Timers
<1> DEFINE T == [session : Sessions, age : 0..CleanupDelay]
<1>1. cleanups \in Seq(T)
  BY DEF TypeOK
<1>2. \A n \in DOMAIN cleanups' : n + 1 \in DOMAIN cleanups /\ cleanups'[n] = cleanups[n + 1]
  BY <1>1
<1>3. 1 \in DOMAIN cleanups /\ Head(cleanups) = cleanups[1]
  BY <1>1
<1> QED
  BY <1>1, <1>2, <1>3 DEF Timers

LEMMA TimersTick ==
  ASSUME TypeOK,
         cleanups' = [n \in DOMAIN cleanups |-> [cleanups[n] EXCEPT !.age = AtMost(CleanupDelay, @)]]
  PROVE  /\ cleanups' \in Seq([session : Sessions, age : 0..CleanupDelay])
         /\ \A t \in Timers' : \E u \in Timers : t.session = u.session /\ t.age <= u.age + 1
<1> DEFINE T == [session : Sessions, age : 0..CleanupDelay]
<1>1. cleanups \in Seq(T)
  BY DEF TypeOK
<1>2. \A n \in DOMAIN cleanups : /\ cleanups'[n] \in T
        /\ cleanups'[n].session = cleanups[n].session /\ cleanups'[n].age <= cleanups[n].age + 1
  <2>1. ASSUME NEW x \in T, NEW y, y = [x EXCEPT !.age = AtMost(CleanupDelay, x.age)]
        PROVE  y \in T /\ y.session = x.session /\ y.age <= x.age + 1
    BY <2>1, ConstantsAssumption DEF AtMost
  <2> HIDE DEF T
  <2>2. \A n \in DOMAIN cleanups : cleanups[n] \in T
    BY <1>1, SequenceElement
  <2> QED
    BY <2>1, <2>2
<1>3. cleanups' \in Seq(T)
  <2>1. Len(cleanups) \in Nat /\ DOMAIN cleanups = 1..Len(cleanups)
    BY <1>1
  <2>2. cleanups' \in [1..Len(cleanups) -> T]
    BY <1>2, <2>1
  <2> QED
    BY <2>1, <2>2, SeqDef
<1>4. DOMAIN cleanups' = DOMAIN cleanups
  OBVIOUS
<1>5. \A t \in Timers' : \E u \in Timers : t.session = u.session /\ t.age <= u.age + 1
  <2> TAKE t \in Timers'
  <2>1. PICK n \in DOMAIN cleanups' : t = cleanups'[n]
    BY DEF Timers
  <2>2. cleanups[n] \in Timers
    BY <1>4 DEF Timers
  <2> QED
    BY <1>2, <1>4, <2>1, <2>2
<1> QED
  BY <1>3, <1>5

-----------------------------------------------------------------------------

LEMMA DeliverTyped ==
  ASSUME TypeOK, NEW w \in Workers, NEW s \in Sessions, Deliver(w, s)
  PROVE  messages' \in [Sessions -> Seq({"event", "timeout"})]
<1>1. PICK n \in 1..Len(messages[s]) :
        messages' = [messages EXCEPT ![s] = SubSeq(messages[s], n + 1, Len(messages[s]))]
  BY DEF Deliver
<1>2. messages[s] \in Seq({"event", "timeout"})
  BY DEF TypeOK
<1>3. SubSeq(messages[s], n + 1, Len(messages[s])) \in Seq({"event", "timeout"})
  BY <1>2
<1> QED
  BY <1>1, <1>3 DEF TypeOK

\* Every step of every thread keeps each variable in its type.
LEMMA TypeNext == TypeOK /\ CreatedInv /\ HandInv /\ [Next]_vars => TypeOK'
<1> SUFFICES ASSUME TypeOK, CreatedInv, HandInv, [Next]_vars PROVE TypeOK'
  OBVIOUS
<1> USE DEF CreatedInv, HandInv
<1>1. ASSUME NEW w \in Workers, Create(w) PROVE TypeOK'
  <2>1. PICK i \in Ids :
          worker' = [worker EXCEPT ![w] = [op |-> "create", id |-> i, session |-> 0, waited |-> 0]]
    BY <1>1, ConstantsAssumption DEF Create, Unused
  <2>2. "create" \in WorkerOps /\ 0 \in 0..MaxSessions /\ 0 \in 0..PollTime
    BY ConstantsAssumption DEF WorkerOps
  <2>3. worker' \in [Workers -> {Free} \cup
          [op : WorkerOps, id : Ids, session : 0..MaxSessions, waited : 0..PollTime]]
    BY <2>1, <2>2, WorkerTyped
  <2> QED
    BY <1>1, <2>3 DEF Create, TypeOK, perSession
<1>2. ASSUME NEW w \in Workers, CreateInsert(w) PROVE TypeOK'
  <2>1. worker[w].id \in Ids
    BY <1>2, WorkerFields DEF CreateInsert
  <2> QED
    BY <1>2, <2>1, ReturnTyped DEF CreateInsert, TypeOK, Sessions
<1>3. ASSUME NEW w \in Workers, NEW i \in Ids, Find(w, i) PROVE TypeOK'
  <2>1. sessions[i] \in Sessions /\ idOf[sessions[i]] \in Ids
    BY <1>3 DEF Find, TypeOK, Sessions
  <2>2. worker' \in [Workers -> {Free} \cup
          [op : WorkerOps, id : Ids, session : 0..MaxSessions, waited : 0..PollTime]]
    BY <1>3, <2>1, GotoTyped DEF Find, WorkerOps
  <2> QED
    BY <1>3, <2>2 DEF Find, TypeOK, perSession
<1>4. ASSUME NEW w \in Workers, NEW s \in Sessions, Touch(w, s) PROVE TypeOK'
  <2>1. idOf[s] \in Ids
    BY <1>4 DEF Touch, At, Requests
  <2>2. worker' \in [Workers -> {Free} \cup
          [op : WorkerOps, id : Ids, session : 0..MaxSessions, waited : 0..PollTime]]
    BY <1>4, <2>1, GotoTyped, ReturnTyped
    DEF Touch, At, Served, WorkerOps, Requests
  <2> QED
    BY <1>4, <2>2, ConstantsAssumption DEF Touch, TypeOK
<1>5. ASSUME NEW w \in Workers, NEW s \in Sessions, Attach(w, s) PROVE TypeOK'
  <2>1. attached' \in [Sessions -> 0..1]
    <3>1. attached \in [Sessions -> 0..1] /\ 0 \in 0..1 /\ 1 \in 0..1
      BY DEF TypeOK
    <3>2. attached' = [attached EXCEPT ![s] = 1] \/ attached' = [attached EXCEPT ![s] = 0]
      BY <1>5 DEF Attach
    <3> QED
      BY <3>1, <3>2, ExceptTyped
  <2>2. worker' \in [Workers -> {Free} \cup
          [op : WorkerOps, id : Ids, session : 0..MaxSessions, waited : 0..PollTime]]
    BY <1>5, ReturnTyped DEF Attach
  <2> QED
    BY <1>5, <2>1, <2>2 DEF Attach, TypeOK
<1>6. ASSUME NEW w \in Workers, NEW s \in Sessions, DestroyFlag(w, s) PROVE TypeOK'
  <2>1. idOf[s] \in Ids
    BY <1>6 DEF DestroyFlag, At
  <2>2. worker' \in [Workers -> {Free} \cup
          [op : WorkerOps, id : Ids, session : 0..MaxSessions, waited : 0..PollTime]]
    BY <1>6, <2>1, GotoTyped DEF DestroyFlag, WorkerOps
  <2> QED
    BY <1>6, <2>2 DEF DestroyFlag, TypeOK
<1>7. ASSUME NEW w \in Workers, NEW s \in Sessions, DestroyRemove(w, s) PROVE TypeOK'
  <2>1. cleanups' \in Seq([session : Sessions, age : 0..CleanupDelay])
    BY <1>7, TimersAppend DEF DestroyRemove
  <2>2. worker' \in [Workers -> {Free} \cup
          [op : WorkerOps, id : Ids, session : 0..MaxSessions, waited : 0..PollTime]]
    BY <1>7, ReturnTyped DEF DestroyRemove
  <2>3. /\ s \in 0..MaxSessions /\ 0 \in 0..MaxSessions
        /\ sessions \in [Ids -> 0..MaxSessions] /\ old_sessions \in [Ids -> 0..MaxSessions]
    BY ConstantsAssumption DEF Sessions, TypeOK
  <2>4. /\ sessions' = [sessions EXCEPT ![idOf[s]] = 0]
        /\ old_sessions' = [old_sessions EXCEPT ![idOf[s]] = s]
    BY <1>7 DEF DestroyRemove
  <2>5. sessions' \in [Ids -> 0..MaxSessions] /\ old_sessions' \in [Ids -> 0..MaxSessions]
    BY <2>3, <2>4, ExceptTyped
  <2> QED
    BY <1>7, <2>1, <2>2, <2>5 DEF DestroyRemove, TypeOK, perSession
<1>8. ASSUME NEW w \in Workers, NEW s \in Sessions, PollFirst(w, s) PROVE TypeOK'
  <2>1. CASE Deliver(w, s)
    <3>1. messages' \in [Sessions -> Seq({"event", "timeout"})]
      BY <2>1, DeliverTyped
    <3> QED
      BY <1>8, <2>1, <3>1, ReturnTyped DEF PollFirst, Deliver, TypeOK
  <2>2. CASE ~Deliver(w, s)
    <3>1. worker[w].id \in Ids
      BY <1>8, WorkerFields DEF PollFirst, At
    <3>2. sessions[worker[w].id] # 0 =>
            sessions[worker[w].id] \in Sessions /\ idOf[sessions[worker[w].id]] \in Ids
      BY <3>1 DEF TypeOK, Sessions
    <3>3. worker' \in [Workers -> {Free} \cup
          [op : WorkerOps, id : Ids, session : 0..MaxSessions, waited : 0..PollTime]]
      BY <1>8, <2>2, <3>2, GotoTyped, ReturnTyped DEF PollFirst, WorkerOps
    <3> QED
      BY <1>8, <2>2, <3>3 DEF PollFirst, TypeOK
  <2> QED
    BY <2>1, <2>2
<1>9. ASSUME NEW w \in Workers, NEW s \in Sessions, PollDeliver(w, s) PROVE TypeOK'
  <2>1. messages' \in [Sessions -> Seq({"event", "timeout"})]
    BY <1>9, DeliverTyped DEF PollDeliver
  <2> QED
    BY <1>9, <2>1, ReturnTyped DEF PollDeliver, Deliver, TypeOK
<1>10. ASSUME NEW w \in Workers, NEW s \in Sessions, PollSleep(w, s) PROVE TypeOK'
  <2>1. worker[w].op # "free"
    BY <1>10 DEF PollSleep, At
  <2>2. worker[w] \in [op : WorkerOps, id : Ids, session : 0..MaxSessions, waited : 0..PollTime]
    BY <2>1 DEF TypeOK, Free
  <2>3. "sleep" \in WorkerOps
    BY DEF WorkerOps
  <2>4. [worker[w] EXCEPT !.op = "sleep"] \in
          [op : WorkerOps, id : Ids, session : 0..MaxSessions, waited : 0..PollTime]
    BY <2>2, <2>3
  <2>5. worker' \in [Workers -> {Free} \cup
          [op : WorkerOps, id : Ids, session : 0..MaxSessions, waited : 0..PollTime]]
    BY <1>10, <2>4 DEF PollSleep, TypeOK
  <2> QED
    BY <1>10, <2>5 DEF PollSleep, TypeOK, perSession
<1>11. ASSUME NEW w \in Workers, NEW s \in Sessions, PollKeepalive(w, s) PROVE TypeOK'
  BY <1>11, ReturnTyped DEF PollKeepalive, TypeOK, perSession
<1>12. ASSUME NEW w \in Workers, NEW s \in Sessions, PushEvent(w, s) PROVE TypeOK'
  <2>1. idOf[s] \in Ids
    BY <1>12 DEF PushEvent
  <2>2. worker' \in [Workers -> {Free} \cup
          [op : WorkerOps, id : Ids, session : 0..MaxSessions, waited : 0..PollTime]]
    BY <1>12, <2>1, GotoTyped DEF PushEvent, WorkerOps
  <2> QED
    BY <1>12, <2>2 DEF PushEvent, TypeOK, perSession
<1>13. ASSUME NEW w \in Workers, NEW s \in Sessions, PushQueue(w, s) PROVE TypeOK'
  BY <1>13, ReturnTyped DEF PushQueue, TypeOK
<1>14. ASSUME NEW i \in Ids, Expire(i) PROVE TypeOK'
  <2>1. sessions[i] \in Sessions
    BY <1>14 DEF Expire, TypeOK, Sessions
  <2>2. cleanups' \in Seq([session : Sessions, age : 0..CleanupDelay])
    BY <1>14, <2>1, TimersAppend DEF Expire
  <2>3. messages' \in [Sessions -> Seq({"event", "timeout"})]
    BY <1>14, <2>1 DEF Expire, TypeOK
  <2>4. /\ 0 \in 0..MaxSessions /\ sessions[i] \in 0..MaxSessions /\ 1 \in 0..1
        /\ sessions \in [Ids -> 0..MaxSessions] /\ old_sessions \in [Ids -> 0..MaxSessions]
        /\ timeout \in [Sessions -> 0..1]
    BY ConstantsAssumption DEF TypeOK
  <2>5. /\ sessions' = [sessions EXCEPT ![i] = 0] /\ old_sessions' = [old_sessions EXCEPT ![i] = sessions[i]]
        /\ timeout' = [timeout EXCEPT ![sessions[i]] = 1]
    BY <1>14 DEF Expire
  <2>6. /\ sessions' \in [Ids -> 0..MaxSessions] /\ old_sessions' \in [Ids -> 0..MaxSessions]
        /\ timeout' \in [Sessions -> 0..1]
    BY <2>4, <2>5, ExceptTyped
  <2> QED
    BY <1>14, <2>2, <2>3, <2>6 DEF Expire, TypeOK
<1>15. CASE Cleanup
  <2>1. cleanups' \in Seq([session : Sessions, age : 0..CleanupDelay]) /\ Head(cleanups) \in Timers
    BY <1>15, TimersTail DEF Cleanup, Due
  <2>2. Head(cleanups).session \in Sessions
    BY <2>1, TimersTyped
  <2>3. cleaning' \in 0..MaxSessions
    BY <1>15, <2>2, ConstantsAssumption DEF Cleanup, TypeOK
  <2>4. destroy' \in [Sessions -> 0..1] /\ attached' \in [Sessions -> 0..1]
    BY <1>15 DEF Cleanup, TypeOK
  <2> QED
    BY <1>15, <2>1, <2>2, <2>3, <2>4 DEF Cleanup, TypeOK
<1>16. CASE SessionFree
  <2>1. messages' \in [Sessions -> Seq({"event", "timeout"})]
    <3>1. <<>> \in Seq({"event", "timeout"})
      OBVIOUS
    <3> QED
      BY <1>16, <3>1 DEF SessionFree, TypeOK
  <2>2. memory' \in [Sessions -> {"none", "live", "freed", "misused"}]
    <3>1. memory \in [Sessions -> {"none", "live", "freed", "misused"}]
      BY DEF TypeOK
    <3>2. memory' = [memory EXCEPT ![cleaning] = IF memory[cleaning] = "live" THEN "freed" ELSE "misused"]
      BY <1>16 DEF SessionFree
    <3> QED
      BY <3>1, <3>2, ExceptTyped
  <2>3. cleaning' \in 0..MaxSessions
    BY <1>16, ConstantsAssumption DEF SessionFree
  <2> QED
    BY <1>16, <2>1, <2>2, <2>3 DEF SessionFree, TypeOK
<1>17. CASE Tick
  <2>1. cleanups' \in Seq([session : Sessions, age : 0..CleanupDelay])
    BY <1>17, TimersTick DEF Tick
  <2>2. idle' \in [Sessions -> 0..SessionTimeout]
    <3>1. \A n \in 0..SessionTimeout : AtMost(SessionTimeout, n) \in 0..SessionTimeout
      BY ConstantsAssumption DEF AtMost
    <3> QED
      BY <1>17, <3>1 DEF Tick, TypeOK
  <2>3. worker' \in [Workers -> {Free} \cup
          [op : WorkerOps, id : Ids, session : 0..MaxSessions, waited : 0..PollTime]]
    <3>1. ASSUME NEW w \in Workers, worker[w] # Free
          PROVE  [worker[w] EXCEPT !.op = "look", !.waited = @ + 1] \in
                   [op : WorkerOps, id : Ids, session : 0..MaxSessions, waited : 0..PollTime]
      <4>1. worker[w].op = "sleep"
        BY <1>17, <3>1, WorkerFree DEF Tick
      <4>2. worker[w].waited + 1 \in 0..PollTime
        BY <4>1, WorkerFields, ConstantsAssumption
      <4>3. worker[w] \in [op : WorkerOps, id : Ids, session : 0..MaxSessions, waited : 0..PollTime]
        BY <3>1 DEF TypeOK
      <4>4. "look" \in WorkerOps
        BY DEF WorkerOps
      <4> QED
        BY <4>2, <4>3, <4>4
    <3> QED
      BY <1>17, <3>1 DEF Tick
  <2> QED
    BY <1>17, <2>1, <2>2, <2>3 DEF Tick, TypeOK
<1>18. CASE UNCHANGED vars
  BY <1>18 DEF vars, perSession, TypeOK
<1> QED
  BY <1>1, <1>2, <1>3, <1>4, <1>5, <1>6, <1>7, <1>8, <1>9, <1>10, <1>11, <1>12,
    <1>13, <1>14, <1>15, <1>16, <1>17, <1>18
  DEF Next, Work, Proceed, Watchdog

-----------------------------------------------------------------------------
(***************************************************************************)
(* What each step does, point by point.                                    *)
(***************************************************************************)
Others(w) == \A v \in Workers \ {w} : worker'[v] = worker[v]
Returns(w) == worker'[w].op = "free" /\ Others(w)
Becomes(w, op, s) ==
  /\ worker'[w].op = op /\ worker'[w].id = idOf[s] /\ worker'[w].session = s
  /\ worker'[w].waited = 0 /\ Others(w)

LEMMA GotoBecomes ==
  ASSUME TypeOK, NEW w \in Workers, NEW op, NEW s, Goto(w, op, s)
  PROVE  Becomes(w, op, s)
BY DEF TypeOK, Goto, Becomes, Others

LEMMA ReturnReturns ==
  ASSUME TypeOK, NEW w \in Workers, Return(w)
  PROVE  Returns(w)
BY DEF TypeOK, Return, Returns, Others, Free

LEMMA CreateEffect ==
  ASSUME TypeOK, NEW w \in Workers, Create(w)
  PROVE  /\ worker[w].op = "free" /\ worker'[w].session = 0
         /\ worker'[w].op = "create" /\ worker'[w].id \in Named \cup Unused /\ Others(w)
         /\ UNCHANGED <<sessions, old_sessions, memory, idOf, destroy, timeout, idle, attached,
                        cleaning, Timers>>
<1>1. worker[w].op = "free" /\ UNCHANGED <<sessions, old_sessions, perSession, cleanups, cleaning>>
  BY WorkerFree DEF Create
<1>2. /\ worker'[w].op = "create" /\ worker'[w].id \in Named \cup Unused /\ Others(w)
      /\ worker'[w].session = 0
  BY DEF TypeOK, Create, Others
<1> QED
  BY <1>1, <1>2, TimersSame DEF perSession

LEMMA CreateInsertEffect ==
  ASSUME TypeOK, NEW w \in Workers, CreateInsert(w)
  PROVE  /\ worker[w].op = "create" /\ worker[w].id \in Ids /\ Returns(w)
         /\ \E s \in Sessions :
              /\ memory[s] = "none" /\ memory'[s] = "live" /\ idOf'[s] = worker[w].id
              /\ \A r \in Sessions : r # s => memory'[r] = memory[r] /\ idOf'[r] = idOf[r]
              /\ \A j \in Ids : sessions'[j] = IF j = worker[w].id THEN s ELSE sessions[j]
         /\ UNCHANGED <<old_sessions, destroy, timeout, idle, attached, cleaning, Timers>>
<1>1. /\ worker[w].op = "create" /\ Return(w)
      /\ UNCHANGED <<old_sessions, destroy, timeout, idle, attached, cleaning, cleanups>>
  BY DEF CreateInsert
<1>2. worker[w].id \in Ids
  BY <1>1, WorkerFields
<1>3. \E s \in Sessions :
        /\ memory[s] = "none" /\ memory' = [memory EXCEPT ![s] = "live"]
        /\ idOf' = [idOf EXCEPT ![s] = worker[w].id]
        /\ sessions' = [sessions EXCEPT ![worker[w].id] = s]
  BY DEF CreateInsert
<1>4. sessions \in [Ids -> 0..MaxSessions] /\ DOMAIN memory = Sessions /\ DOMAIN idOf = Sessions
  BY DEF TypeOK
<1> QED
  BY <1>1, <1>2, <1>3, <1>4, ReturnReturns, TimersSame

LEMMA FindEffect ==
  ASSUME TypeOK, NEW w \in Workers, NEW i \in Ids, Find(w, i)
  PROVE  /\ worker[w].op = "free" /\ sessions[i] \in Sessions
         /\ \E op \in Requests : Becomes(w, op, sessions[i])
         /\ UNCHANGED <<sessions, old_sessions, memory, idOf, destroy, timeout, idle, attached,
                        cleaning, Timers>>
<1>1. worker[w].op = "free" /\ UNCHANGED <<sessions, old_sessions, perSession, cleanups, cleaning>>
  BY WorkerFree DEF Find
<1>2. sessions[i] \in Sessions
  BY DEF Find, TypeOK, Sessions
<1>3. \E op \in Requests : Becomes(w, op, sessions[i])
  BY GotoBecomes DEF Find
<1> QED
  BY <1>1, <1>2, <1>3, TimersSame DEF perSession

LEMMA TouchEffect ==
  ASSUME TypeOK, NEW w \in Workers, NEW s \in Sessions, Touch(w, s)
  PROVE  /\ worker[w].op \in Requests /\ worker[w].session = s
         /\ \/ Returns(w)
            \/ \E op \in {"attaching", "detaching", "destroying", "pop"} : Becomes(w, op, s)
         /\ idle'[s] = 0 /\ \A r \in Sessions : r # s => idle'[r] = idle[r]
         /\ UNCHANGED <<sessions, old_sessions, memory, idOf, destroy, timeout, attached,
                        cleaning, Timers>>
<1>1. /\ worker[w].op \in Requests /\ worker[w].session = s
      /\ UNCHANGED <<sessions, old_sessions, memory, idOf, destroy, timeout, attached, cleaning, cleanups>>
  BY DEF Touch, At
<1>2. idle'[s] = 0 /\ \A r \in Sessions : r # s => idle'[r] = idle[r]
  BY DEF Touch, TypeOK
<1>3. CASE worker[w].op = "keepalive"
  BY <1>1, <1>2, <1>3, ReturnReturns, TimersSame DEF Touch
<1>4. CASE worker[w].op # "keepalive"
  <2>1. Served(worker[w].op) \in {"attaching", "detaching", "destroying", "pop"}
    BY <1>1, <1>4 DEF Served, Requests
  <2>2. Becomes(w, Served(worker[w].op), s)
    BY <1>4, GotoBecomes DEF Touch
  <2> QED
    BY <1>1, <1>2, <2>1, <2>2, TimersSame
<1> QED
  BY <1>3, <1>4

LEMMA AttachEffect ==
  ASSUME TypeOK, NEW w \in Workers, NEW s \in Sessions, Attach(w, s)
  PROVE  /\ worker[w].op \in {"attaching", "detaching"} /\ worker[w].session = s /\ Returns(w)
         /\ \A r \in Sessions : r # s => attached'[r] = attached[r]
         /\ UNCHANGED <<sessions, old_sessions, memory, idOf, destroy, timeout, idle, cleaning, Timers>>
<1>1. Return(w) /\ UNCHANGED <<sessions, old_sessions, memory, idOf, destroy, timeout, idle, cleaning, cleanups>>
  BY DEF Attach
<1>2. \A r \in Sessions : r # s => attached'[r] = attached[r]
  BY DEF Attach, TypeOK
<1>3. worker[w].op \in {"attaching", "detaching"} /\ worker[w].session = s
  BY DEF Attach, At
<1> QED
  BY <1>1, <1>2, <1>3, ReturnReturns, TimersSame

LEMMA DestroyFlagEffect ==
  ASSUME TypeOK, NEW w \in Workers, NEW s \in Sessions, DestroyFlag(w, s)
  PROVE  /\ worker[w].op = "destroying" /\ worker[w].session = s /\ Becomes(w, "removing", s)
         /\ destroy'[s] = 1 /\ \A r \in Sessions : r # s => destroy'[r] = destroy[r]
         /\ UNCHANGED <<sessions, old_sessions, memory, idOf, timeout, idle, attached, cleaning, Timers>>
<1>1. /\ worker[w].op = "destroying" /\ worker[w].session = s /\ Goto(w, "removing", s)
      /\ UNCHANGED <<sessions, old_sessions, memory, idOf, timeout, idle, attached, cleaning, cleanups>>
  BY DEF DestroyFlag, At
<1>2. destroy'[s] = 1 /\ \A r \in Sessions : r # s => destroy'[r] = destroy[r]
  BY DEF DestroyFlag, TypeOK
<1> QED
  BY <1>1, <1>2, GotoBecomes, TimersSame

LEMMA DestroyRemoveEffect ==
  ASSUME TypeOK, NEW w \in Workers, NEW s \in Sessions, DestroyRemove(w, s)
  PROVE  /\ worker[w].op = "removing" /\ worker[w].session = s /\ Returns(w)
         /\ \A j \in Ids : sessions'[j] = IF j = idOf[s] THEN 0 ELSE sessions[j]
         /\ \A j \in Ids : old_sessions'[j] = IF j = idOf[s] THEN s ELSE old_sessions[j]
         /\ \A t \in Timers' : t \in Timers \/ (t.session = s /\ t.age = 0)
         /\ UNCHANGED <<memory, idOf, destroy, timeout, idle, attached, cleaning>>
<1>1. /\ worker[w].op = "removing" /\ worker[w].session = s /\ Return(w)
      /\ cleanups' = Append(cleanups, [session |-> s, age |-> 0])
      /\ UNCHANGED <<memory, idOf, destroy, timeout, idle, attached, cleaning>>
  BY DEF DestroyRemove, At, perSession
<1>2. \A j \in Ids : sessions'[j] = IF j = idOf[s] THEN 0 ELSE sessions[j]
  BY DEF DestroyRemove, TypeOK
<1>3. \A j \in Ids : old_sessions'[j] = IF j = idOf[s] THEN s ELSE old_sessions[j]
  BY DEF DestroyRemove, TypeOK
<1>4. \A t \in Timers' : t \in Timers \/ t = [session |-> s, age |-> 0]
  BY <1>1, TimersAppend
<1> QED
  BY <1>1, <1>2, <1>3, <1>4, ReturnReturns

LEMMA PollFirstEffect ==
  ASSUME TypeOK, NEW w \in Workers, NEW s \in Sessions, PollFirst(w, s)
  PROVE  /\ worker[w].op = "pop" /\ worker[w].session = s /\ worker[w].id \in Ids
         /\ \/ Returns(w)
            \/ LET found == sessions[worker[w].id] IN found \in Sessions /\ Becomes(w, "look", found)
         /\ UNCHANGED <<sessions, old_sessions, memory, idOf, destroy, timeout, idle, attached,
                        cleaning, Timers>>
<1>1. /\ worker[w].op = "pop" /\ worker[w].session = s
      /\ UNCHANGED <<sessions, old_sessions, memory, idOf, destroy, timeout, idle, attached, cleaning, cleanups>>
  BY DEF PollFirst, At
<1>2. worker[w].id \in Ids
  BY <1>1, WorkerFields
<1>3. sessions[worker[w].id] \in 0..MaxSessions
  BY <1>2 DEF TypeOK
<1>4. \/ Return(w)
      \/ sessions[worker[w].id] # 0 /\ Goto(w, "look", sessions[worker[w].id])
  BY DEF PollFirst, Deliver
<1> QED
  BY <1>1, <1>2, <1>3, <1>4, GotoBecomes, ReturnReturns, TimersSame DEF Sessions

LEMMA PollDeliverEffect ==
  ASSUME TypeOK, NEW w \in Workers, NEW s \in Sessions, PollDeliver(w, s)
  PROVE  /\ worker[w].op = "look" /\ worker[w].session = s /\ Returns(w)
         /\ UNCHANGED <<sessions, old_sessions, memory, idOf, destroy, timeout, idle, attached,
                        cleaning, Timers>>
BY ReturnReturns, TimersSame DEF PollDeliver, Deliver, At

LEMMA PollSleepEffect ==
  ASSUME TypeOK, NEW w \in Workers, NEW s \in Sessions, PollSleep(w, s)
  PROVE  /\ worker[w].op = "look" /\ worker[w].session = s /\ worker[w].waited < PollTime
         /\ destroy[s] = 0
         /\ worker'[w].op = "sleep" /\ worker'[w].id = worker[w].id
         /\ worker'[w].session = worker[w].session /\ worker'[w].waited = worker[w].waited
         /\ Others(w)
         /\ UNCHANGED <<sessions, old_sessions, memory, idOf, destroy, timeout, idle, attached,
                        cleaning, Timers>>
<1>1. /\ worker[w].op = "look" /\ worker[w].session = s /\ worker[w].waited < PollTime
      /\ destroy[s] = 0 /\ worker' = [worker EXCEPT ![w] = [worker[w] EXCEPT !.op = "sleep"]]
      /\ UNCHANGED <<sessions, old_sessions, perSession, cleanups, cleaning>>
  BY DEF PollSleep, At
<1>2. worker[w] \in [op : WorkerOps, id : Ids, session : 0..MaxSessions, waited : 0..PollTime]
  BY <1>1 DEF TypeOK, Free
<1>3. worker'[w] = [worker[w] EXCEPT !.op = "sleep"] /\ Others(w)
  BY <1>1 DEF TypeOK, Others
<1>4. /\ worker'[w].op = "sleep" /\ worker'[w].id = worker[w].id
      /\ worker'[w].session = worker[w].session /\ worker'[w].waited = worker[w].waited
  BY <1>2, <1>3
<1> QED
  BY <1>1, <1>3, <1>4, TimersSame DEF perSession

LEMMA PollKeepaliveEffect ==
  ASSUME TypeOK, NEW w \in Workers, NEW s \in Sessions, PollKeepalive(w, s)
  PROVE  /\ worker[w].op = "look" /\ worker[w].session = s /\ Returns(w)
         /\ UNCHANGED <<sessions, old_sessions, memory, idOf, destroy, timeout, idle, attached,
                        cleaning, Timers>>
BY ReturnReturns, TimersSame DEF PollKeepalive, At, perSession

LEMMA PushEventEffect ==
  ASSUME TypeOK, NEW w \in Workers, NEW s \in Sessions, PushEvent(w, s)
  PROVE  /\ worker[w].op = "free" /\ attached[s] = 1 /\ Becomes(w, "push", s)
         /\ UNCHANGED <<sessions, old_sessions, memory, idOf, destroy, timeout, idle, attached,
                        cleaning, Timers>>
BY GotoBecomes, TimersSame, WorkerFree DEF PushEvent, perSession

LEMMA PushQueueEffect ==
  ASSUME TypeOK, NEW w \in Workers, NEW s \in Sessions, PushQueue(w, s)
  PROVE  /\ worker[w].op = "push" /\ worker[w].session = s /\ Returns(w)
         /\ UNCHANGED <<sessions, old_sessions, memory, idOf, destroy, timeout, idle, attached,
                        cleaning, Timers>>
BY ReturnReturns, TimersSame DEF PushQueue, At

LEMMA ExpireEffect ==
  ASSUME TypeOK, NEW i \in Ids, Expire(i)
  PROVE  /\ sessions[i] \in Sessions /\ cleaning = 0
         /\ timeout[sessions[i]] = 0 /\ idle[sessions[i]] >= SessionTimeout
         /\ timeout'[sessions[i]] = 1
         /\ \A r \in Sessions : r # sessions[i] => timeout'[r] = timeout[r]
         /\ \A j \in Ids : sessions'[j] = IF j = i THEN 0 ELSE sessions[j]
         /\ \A j \in Ids : old_sessions'[j] = IF j = i THEN sessions[i] ELSE old_sessions[j]
         /\ \A t \in Timers' : t \in Timers \/ (t.session = sessions[i] /\ t.age = 0)
         /\ UNCHANGED <<worker, memory, idOf, destroy, idle, attached, cleaning>>
<1>1. sessions[i] \in Sessions
  BY DEF Expire, TypeOK, Sessions
<1>2. /\ cleaning = 0 /\ timeout[sessions[i]] = 0 /\ idle[sessions[i]] >= SessionTimeout
      /\ cleanups' = Append(cleanups, [session |-> sessions[i], age |-> 0])
      /\ UNCHANGED <<worker, memory, idOf, destroy, idle, attached, cleaning>>
  BY DEF Expire
<1>3. timeout'[sessions[i]] = 1 /\ \A r \in Sessions : r # sessions[i] => timeout'[r] = timeout[r]
  BY <1>1 DEF Expire, TypeOK
<1>4. \A j \in Ids : sessions'[j] = IF j = i THEN 0 ELSE sessions[j]
  BY DEF Expire, TypeOK
<1>5. \A j \in Ids : old_sessions'[j] = IF j = i THEN sessions[i] ELSE old_sessions[j]
  BY DEF Expire, TypeOK
<1>6. \A t \in Timers' : t \in Timers \/ t = [session |-> sessions[i], age |-> 0]
  BY <1>1, <1>2, TimersAppend
<1> QED
  BY <1>1, <1>2, <1>3, <1>4, <1>5, <1>6

LEMMA CleanupEffect ==
  ASSUME TypeOK, Cleanup
  PROVE  /\ \E t \in Timers :
              /\ t.session \in Sessions /\ t.age >= CleanupDelay
              /\ \/ cleaning' = 0
                 \/ \E i \in Ids : /\ cleaning' = old_sessions[i]
                                   /\ memory[t.session] = "live" => i = idOf[t.session]
              /\ memory[t.session] = "live" => memory' = memory
              /\ memory[t.session] # "live" =>
                   /\ memory'[t.session] = "misused"
                   /\ \A r \in Sessions : r # t.session => memory'[r] = memory[r]
         /\ cleaning = 0 /\ Timers' \subseteq Timers
         /\ \A r \in Sessions : destroy'[r] \in {1, destroy[r]} /\ attached'[r] \in {0, attached[r]}
         /\ UNCHANGED <<worker, sessions, old_sessions, idOf, timeout, idle>>
<1> DEFINE t == Head(cleanups)
<1>1. cleaning = 0 /\ UNCHANGED <<worker, sessions, old_sessions, idOf, timeout, idle>>
  BY DEF Cleanup
<1>2. Timers' \subseteq Timers /\ t \in Timers /\ t.age >= CleanupDelay
  BY TimersTail DEF Cleanup, Due
<1>3. t.session \in Sessions
  BY <1>2, TimersTyped
<1>4. \A r \in Sessions : destroy'[r] \in {1, destroy[r]} /\ attached'[r] \in {0, attached[r]}
  BY DEF Cleanup
<1>5. \/ cleaning' = 0
      \/ \E i \in Ids : cleaning' = old_sessions[i] /\ (memory[t.session] = "live" => i = idOf[t.session])
  <2>1. PICK i \in IF memory[t.session] = "live" THEN {idOf[t.session]} ELSE Ids \cup {NoId} :
          cleaning' = IF i = NoId THEN 0 ELSE old_sessions[i]
    BY DEF Cleanup
  <2>2. i \in Ids \/ i = NoId
    BY <1>3, <2>1 DEF TypeOK
  <2> QED
    BY <2>1, <2>2
<1>6. memory[t.session] = "live" => memory' = memory
  BY DEF Cleanup
<1>7. memory[t.session] # "live" =>
        memory'[t.session] = "misused" /\ \A r \in Sessions : r # t.session => memory'[r] = memory[r]
  BY <1>3 DEF Cleanup, TypeOK
<1> QED
  BY <1>1, <1>2, <1>3, <1>4, <1>5, <1>6, <1>7

LEMMA SessionFreeEffect ==
  ASSUME TypeOK, SessionFree
  PROVE  /\ cleaning \in Sessions /\ cleaning' = 0
         /\ memory'[cleaning] = IF memory[cleaning] = "live" THEN "freed" ELSE "misused"
         /\ \A r \in Sessions : r # cleaning => memory'[r] = memory[r]
         /\ UNCHANGED <<worker, sessions, old_sessions, idOf, destroy, timeout, idle, attached, Timers>>
<1>1. cleaning \in Sessions
  BY DEF SessionFree, TypeOK, Sessions
<1> QED
  BY <1>1, TimersSame DEF SessionFree, TypeOK

LEMMA TickEffect ==
  ASSUME TypeOK, Tick
  PROVE  /\ \A w \in Workers :
              \/ worker[w].op = "free" /\ worker'[w].op = "free"
              \/ /\ worker[w].op = "sleep" /\ worker'[w].op = "look"
                 /\ worker'[w].id = worker[w].id /\ worker'[w].session = worker[w].session
                 /\ worker'[w].waited = worker[w].waited + 1
         /\ \A s \in Sessions : /\ idle'[s] <= idle[s] + 1
                                /\ memory[s] # "live" => idle'[s] = idle[s]
         /\ \A t \in Timers' : \E u \in Timers : t.session = u.session /\ t.age <= u.age + 1
         /\ UNCHANGED <<sessions, old_sessions, memory, idOf, destroy, timeout, attached, cleaning>>
<1>1. ASSUME NEW w \in Workers
      PROVE  \/ worker[w].op = "free" /\ worker'[w].op = "free"
             \/ /\ worker[w].op = "sleep" /\ worker'[w].op = "look"
                /\ worker'[w].id = worker[w].id /\ worker'[w].session = worker[w].session
                /\ worker'[w].waited = worker[w].waited + 1
  <2>1. worker[w].op \in {"free", "sleep"}
        /\ worker'[w] = IF worker[w] = Free THEN Free
                        ELSE [worker[w] EXCEPT !.op = "look", !.waited = worker[w].waited + 1]
    BY DEF Tick
  <2>2. CASE worker[w] = Free
    BY <2>1, <2>2, WorkerFree
  <2>3. CASE worker[w] # Free
    <3>1. worker[w].op = "sleep"
      BY <2>1, <2>3, WorkerFree
    <3>2. worker[w] \in [op : WorkerOps, id : Ids, session : 0..MaxSessions, waited : 0..PollTime]
      BY <2>3 DEF TypeOK
    <3> QED
      BY <2>1, <2>3, <3>1, <3>2
  <2> QED
    BY <2>2, <2>3
<1>2. \A s \in Sessions : idle'[s] <= idle[s] + 1 /\ (memory[s] # "live" => idle'[s] = idle[s])
  <2>1. \A n \in Int : AtMost(SessionTimeout, n) <= n + 1
    BY DEF AtMost
  <2>2. \A s \in Sessions : idle[s] \in Int
    BY DEF TypeOK
  <2>3. \A s \in Sessions : idle'[s] = IF memory[s] = "live" THEN AtMost(SessionTimeout, idle[s]) ELSE idle[s]
    BY DEF Tick
  <2> QED
    BY <2>1, <2>2, <2>3
<1>3. \A t \in Timers' : \E u \in Timers : t.session = u.session /\ t.age <= u.age + 1
  BY TimersTick DEF Tick
<1> QED
  BY <1>1, <1>2, <1>3 DEF Tick

LEMMA PointersTyped == TypeOK =>
  /\ \A i \in Ids : sessions[i] # 0 => sessions[i] \in Sessions
  /\ \A i \in Ids : old_sessions[i] # 0 => old_sessions[i] \in Sessions
  /\ cleaning # 0 => cleaning \in Sessions
  /\ 0 \notin Sessions
  /\ \A t \in Timers : t.session \in Sessions
<1>1. TypeOK => \A t \in Timers : t.session \in Sessions
  BY TimersTyped
<1> QED
  BY <1>1 DEF TypeOK, Sessions

LEMMA StutterEffect ==
  ASSUME UNCHANGED vars
  PROVE  UNCHANGED <<worker, sessions, old_sessions, memory, idOf, destroy, timeout, idle, attached,
                     cleaning, Timers>>
BY TimersSame DEF vars, perSession

-----------------------------------------------------------------------------

\* Nothing leads to a session that has not been created.
LEMMA CreatedNext == TypeOK /\ CreatedInv /\ HandInv /\ [Next]_vars => CreatedInv'
<1> SUFFICES ASSUME TypeOK, CreatedInv, HandInv, [Next]_vars PROVE CreatedInv'
  OBVIOUS
<1>1. ASSUME NEW w \in Workers, Create(w) PROVE CreatedInv'
  BY <1>1, CreateEffect, PointersTyped DEF CreatedInv, HandInv
<1>2. ASSUME NEW w \in Workers, CreateInsert(w) PROVE CreatedInv'
  BY <1>2, CreateInsertEffect, PointersTyped DEF CreatedInv, HandInv
<1>3. ASSUME NEW w \in Workers, NEW i \in Ids, Find(w, i) PROVE CreatedInv'
  BY <1>3, FindEffect, PointersTyped DEF CreatedInv, HandInv
<1>4. ASSUME NEW w \in Workers, NEW s \in Sessions, Touch(w, s) PROVE CreatedInv'
  BY <1>4, TouchEffect, PointersTyped DEF CreatedInv, HandInv
<1>5. ASSUME NEW w \in Workers, NEW s \in Sessions, Attach(w, s) PROVE CreatedInv'
  BY <1>5, AttachEffect, PointersTyped DEF CreatedInv, HandInv
<1>6. ASSUME NEW w \in Workers, NEW s \in Sessions, DestroyFlag(w, s) PROVE CreatedInv'
  BY <1>6, DestroyFlagEffect, PointersTyped DEF CreatedInv, HandInv
<1>7. ASSUME NEW w \in Workers, NEW s \in Sessions, DestroyRemove(w, s) PROVE CreatedInv'
  BY <1>7, DestroyRemoveEffect, PointersTyped DEF CreatedInv, HandInv
<1>8. ASSUME NEW w \in Workers, NEW s \in Sessions, PollFirst(w, s) PROVE CreatedInv'
  BY <1>8, PollFirstEffect, PointersTyped DEF CreatedInv, HandInv
<1>9. ASSUME NEW w \in Workers, NEW s \in Sessions, PollDeliver(w, s) PROVE CreatedInv'
  BY <1>9, PollDeliverEffect, PointersTyped DEF CreatedInv, HandInv
<1>10. ASSUME NEW w \in Workers, NEW s \in Sessions, PollSleep(w, s) PROVE CreatedInv'
  BY <1>10, PollSleepEffect, PointersTyped DEF CreatedInv, HandInv
<1>11. ASSUME NEW w \in Workers, NEW s \in Sessions, PollKeepalive(w, s) PROVE CreatedInv'
  BY <1>11, PollKeepaliveEffect, PointersTyped DEF CreatedInv, HandInv
<1>12. ASSUME NEW w \in Workers, NEW s \in Sessions, PushEvent(w, s) PROVE CreatedInv'
  BY <1>12, PushEventEffect, PointersTyped DEF CreatedInv, HandInv
<1>13. ASSUME NEW w \in Workers, NEW s \in Sessions, PushQueue(w, s) PROVE CreatedInv'
  BY <1>13, PushQueueEffect, PointersTyped DEF CreatedInv, HandInv
<1>14. ASSUME NEW i \in Ids, Expire(i) PROVE CreatedInv'
  BY <1>14, ExpireEffect, PointersTyped DEF CreatedInv, HandInv
<1>15. CASE Cleanup
  BY <1>15, CleanupEffect, PointersTyped DEF CreatedInv, HandInv
<1>16. CASE SessionFree
  BY <1>16, SessionFreeEffect, PointersTyped DEF CreatedInv, HandInv
<1>17. CASE Tick
  BY <1>17, TickEffect, PointersTyped DEF CreatedInv, HandInv
<1>18. CASE UNCHANGED vars
  BY <1>18, StutterEffect, PointersTyped DEF CreatedInv, HandInv
<1> QED
  BY <1>1, <1>2, <1>3, <1>4, <1>5, <1>6, <1>7, <1>8, <1>9, <1>10, <1>11, <1>12,
    <1>13, <1>14, <1>15, <1>16, <1>17, <1>18
  DEF Next, Work, Proceed, Watchdog

\* A thread keeps what it has found.
LEMMA HandNext == TypeOK /\ CreatedInv /\ HandInv /\ [Next]_vars => HandInv'
<1> SUFFICES ASSUME TypeOK, CreatedInv, HandInv, [Next]_vars PROVE HandInv'
  OBVIOUS
<1>1. ASSUME NEW w \in Workers, Create(w) PROVE HandInv'
  BY <1>1, CreateEffect, PointersTyped
  DEF CreatedInv, HandInv, Requests, Returns, Becomes, Others
<1>2. ASSUME NEW w \in Workers, CreateInsert(w) PROVE HandInv'
  BY <1>2, CreateInsertEffect, PointersTyped
  DEF CreatedInv, HandInv, Requests, Returns, Becomes, Others
<1>3. ASSUME NEW w \in Workers, NEW i \in Ids, Find(w, i) PROVE HandInv'
  BY <1>3, FindEffect, PointersTyped
  DEF CreatedInv, HandInv, Requests, Returns, Becomes, Others
<1>4. ASSUME NEW w \in Workers, NEW s \in Sessions, Touch(w, s) PROVE HandInv'
  BY <1>4, TouchEffect, PointersTyped
  DEF CreatedInv, HandInv, Requests, Returns, Becomes, Others
<1>5. ASSUME NEW w \in Workers, NEW s \in Sessions, Attach(w, s) PROVE HandInv'
  BY <1>5, AttachEffect, PointersTyped
  DEF CreatedInv, HandInv, Requests, Returns, Becomes, Others
<1>6. ASSUME NEW w \in Workers, NEW s \in Sessions, DestroyFlag(w, s) PROVE HandInv'
  BY <1>6, DestroyFlagEffect, PointersTyped
  DEF CreatedInv, HandInv, Requests, Returns, Becomes, Others
<1>7. ASSUME NEW w \in Workers, NEW s \in Sessions, DestroyRemove(w, s) PROVE HandInv'
  BY <1>7, DestroyRemoveEffect, PointersTyped
  DEF CreatedInv, HandInv, Requests, Returns, Becomes, Others
<1>8. ASSUME NEW w \in Workers, NEW s \in Sessions, PollFirst(w, s) PROVE HandInv'
  BY <1>8, PollFirstEffect, PointersTyped
  DEF CreatedInv, HandInv, Requests, Returns, Becomes, Others
<1>9. ASSUME NEW w \in Workers, NEW s \in Sessions, PollDeliver(w, s) PROVE HandInv'
  BY <1>9, PollDeliverEffect, PointersTyped
  DEF CreatedInv, HandInv, Requests, Returns, Becomes, Others
<1>10. ASSUME NEW w \in Workers, NEW s \in Sessions, PollSleep(w, s) PROVE HandInv'
  BY <1>10, PollSleepEffect, PointersTyped
  DEF CreatedInv, HandInv, Requests, Returns, Becomes, Others
<1>11. ASSUME NEW w \in Workers, NEW s \in Sessions, PollKeepalive(w, s) PROVE HandInv'
  BY <1>11, PollKeepaliveEffect, PointersTyped
  DEF CreatedInv, HandInv, Requests, Returns, Becomes, Others
<1>12. ASSUME NEW w \in Workers, NEW s \in Sessions, PushEvent(w, s) PROVE HandInv'
  BY <1>12, PushEventEffect, PointersTyped
  DEF CreatedInv, HandInv, Requests, Returns, Becomes, Others
<1>13. ASSUME NEW w \in Workers, NEW s \in Sessions, PushQueue(w, s) PROVE HandInv'
  BY <1>13, PushQueueEffect, PointersTyped
  DEF CreatedInv, HandInv, Requests, Returns, Becomes, Others
<1>14. ASSUME NEW i \in Ids, Expire(i) PROVE HandInv'
  BY <1>14, ExpireEffect, PointersTyped
  DEF CreatedInv, HandInv, Requests, Returns, Becomes, Others
<1>15. CASE Cleanup
  BY <1>15, CleanupEffect, PointersTyped
  DEF CreatedInv, HandInv, Requests, Returns, Becomes, Others
<1>16. CASE SessionFree
  BY <1>16, SessionFreeEffect, PointersTyped
  DEF CreatedInv, HandInv, Requests, Returns, Becomes, Others
<1>17. CASE Tick
  BY <1>17, TickEffect, PointersTyped
  DEF CreatedInv, HandInv, Requests, Returns, Becomes, Others
<1>18. CASE UNCHANGED vars
  BY <1>18, StutterEffect, PointersTyped
  DEF CreatedInv, HandInv, Requests, Returns, Becomes, Others
<1> QED
  BY <1>1, <1>2, <1>3, <1>4, <1>5, <1>6, <1>7, <1>8, <1>9, <1>10, <1>11, <1>12,
    <1>13, <1>14, <1>15, <1>16, <1>17, <1>18
  DEF Next, Work, Proceed, Watchdog

\* The two tables, and what is being cleaned up.
LEMMA TableNext == TypeOK /\ CreatedInv /\ HandInv /\ TableInv /\ [Next]_vars => TableInv'
<1> SUFFICES ASSUME TypeOK, CreatedInv, HandInv, TableInv, [Next]_vars PROVE TableInv'
  OBVIOUS
<1>1. ASSUME NEW w \in Workers, Create(w) PROVE TableInv'
  BY <1>1, CreateEffect, PointersTyped
  DEF CreatedInv, HandInv, TableInv, TableLive, Returns, Becomes, Others
<1>2. ASSUME NEW w \in Workers, CreateInsert(w) PROVE TableInv'
  BY <1>2, CreateInsertEffect, PointersTyped
  DEF CreatedInv, HandInv, TableInv, TableLive, Returns, Becomes, Others
<1>3. ASSUME NEW w \in Workers, NEW i \in Ids, Find(w, i) PROVE TableInv'
  BY <1>3, FindEffect, PointersTyped
  DEF CreatedInv, HandInv, TableInv, TableLive, Returns, Becomes, Others
<1>4. ASSUME NEW w \in Workers, NEW s \in Sessions, Touch(w, s) PROVE TableInv'
  BY <1>4, TouchEffect, PointersTyped
  DEF CreatedInv, HandInv, TableInv, TableLive, Returns, Becomes, Others
<1>5. ASSUME NEW w \in Workers, NEW s \in Sessions, Attach(w, s) PROVE TableInv'
  BY <1>5, AttachEffect, PointersTyped
  DEF CreatedInv, HandInv, TableInv, TableLive, Returns, Becomes, Others
<1>6. ASSUME NEW w \in Workers, NEW s \in Sessions, DestroyFlag(w, s) PROVE TableInv'
  BY <1>6, DestroyFlagEffect, PointersTyped
  DEF CreatedInv, HandInv, TableInv, TableLive, Returns, Becomes, Others
<1>7. ASSUME NEW w \in Workers, NEW s \in Sessions, DestroyRemove(w, s) PROVE TableInv'
  BY <1>7, DestroyRemoveEffect, PointersTyped
  DEF CreatedInv, HandInv, TableInv, TableLive, Returns, Becomes, Others
<1>8. ASSUME NEW w \in Workers, NEW s \in Sessions, PollFirst(w, s) PROVE TableInv'
  BY <1>8, PollFirstEffect, PointersTyped
  DEF CreatedInv, HandInv, TableInv, TableLive, Returns, Becomes, Others
<1>9. ASSUME NEW w \in Workers, NEW s \in Sessions, PollDeliver(w, s) PROVE TableInv'
  BY <1>9, PollDeliverEffect, PointersTyped
  DEF CreatedInv, HandInv, TableInv, TableLive, Returns, Becomes, Others
<1>10. ASSUME NEW w \in Workers, NEW s \in Sessions, PollSleep(w, s) PROVE TableInv'
  BY <1>10, PollSleepEffect, PointersTyped
  DEF CreatedInv, HandInv, TableInv, TableLive, Returns, Becomes, Others
<1>11. ASSUME NEW w \in Workers, NEW s \in Sessions, PollKeepalive(w, s) PROVE TableInv'
  BY <1>11, PollKeepaliveEffect, PointersTyped
  DEF CreatedInv, HandInv, TableInv, TableLive, Returns, Becomes, Others
<1>12. ASSUME NEW w \in Workers, NEW s \in Sessions, PushEvent(w, s) PROVE TableInv'
  BY <1>12, PushEventEffect, PointersTyped
  DEF CreatedInv, HandInv, TableInv, TableLive, Returns, Becomes, Others
<1>13. ASSUME NEW w \in Workers, NEW s \in Sessions, PushQueue(w, s) PROVE TableInv'
  BY <1>13, PushQueueEffect, PointersTyped
  DEF CreatedInv, HandInv, TableInv, TableLive, Returns, Becomes, Others
<1>14. ASSUME NEW i \in Ids, Expire(i) PROVE TableInv'
  BY <1>14, ExpireEffect, PointersTyped
  DEF CreatedInv, HandInv, TableInv, TableLive, Returns, Becomes, Others
<1>15. CASE Cleanup
  BY <1>15, CleanupEffect, PointersTyped
  DEF CreatedInv, HandInv, TableInv, TableLive, Returns, Becomes, Others
<1>16. CASE SessionFree
  BY <1>16, SessionFreeEffect, PointersTyped
  DEF CreatedInv, HandInv, TableInv, TableLive, Returns, Becomes, Others
<1>17. CASE Tick
  BY <1>17, TickEffect, PointersTyped
  DEF CreatedInv, HandInv, TableInv, TableLive, Returns, Becomes, Others
<1>18. CASE UNCHANGED vars
  BY <1>18, StutterEffect, PointersTyped
  DEF CreatedInv, HandInv, TableInv, TableLive, Returns, Becomes, Others
<1> QED
  BY <1>1, <1>2, <1>3, <1>4, <1>5, <1>6, <1>7, <1>8, <1>9, <1>10, <1>11, <1>12,
    <1>13, <1>14, <1>15, <1>16, <1>17, <1>18
  DEF Next, Work, Proceed, Watchdog

\* Long polls and idle times.
LEMMA PollNext == TypeOK /\ CreatedInv /\ HandInv /\ TableInv /\ PollInv /\ [Next]_vars => PollInv'
<1> SUFFICES ASSUME TypeOK, CreatedInv, HandInv, TableInv, PollInv, [Next]_vars PROVE PollInv'
  OBVIOUS
<1>1. ASSUME NEW w \in Workers, Create(w) PROVE PollInv'
  BY <1>1, CreateEffect, PointersTyped
  DEF CreatedInv, HandInv, TableInv, TableLive, PollInv, Requests, Returns,
    Becomes, Others
<1>2. ASSUME NEW w \in Workers, CreateInsert(w) PROVE PollInv'
  BY <1>2, CreateInsertEffect, PointersTyped
  DEF CreatedInv, HandInv, TableInv, TableLive, PollInv, Requests, Returns,
    Becomes, Others
<1>3. ASSUME NEW w \in Workers, NEW i \in Ids, Find(w, i) PROVE PollInv'
  BY <1>3, FindEffect, PointersTyped
  DEF CreatedInv, HandInv, TableInv, TableLive, PollInv, Requests, Returns,
    Becomes, Others
<1>4. ASSUME NEW w \in Workers, NEW s \in Sessions, Touch(w, s) PROVE PollInv'
  <2>1. \A v \in Workers : worker[v].op # "free" =>
          worker[v].waited \in Int /\ 0 <= worker[v].waited /\ worker[v].waited <= PollTime
    BY WorkerFields, ConstantsAssumption
  <2>2. \A r \in Sessions : idle[r] \in Int
    BY DEF TypeOK
  <2>3. \A i \in Ids : sessions[i] # 0 => timeout'[sessions'[i]] = 0
    BY <1>4, TouchEffect DEF PollInv
  <2>4. ASSUME NEW v \in Workers, v # w
        PROVE  /\ worker'[v].op \in Requests =>
                    LET found == sessions'[worker'[v].id] IN
                      found = 0 \/ found = worker'[v].session \/ idle'[found] = 0
               /\ worker'[v].op = "pop" =>
                    LET found == sessions'[worker'[v].id] IN found = 0 \/ idle'[found] = 0
               /\ worker'[v].op \in {"look", "sleep"} =>
                    idle'[worker'[v].session] <= worker'[v].waited /\ timeout'[worker'[v].session] = 0
    <3>1. /\ worker'[v] = worker[v] /\ sessions' = sessions /\ timeout' = timeout
          /\ idle'[s] = 0 /\ \A r \in Sessions : r # s => idle'[r] = idle[r]
      BY <1>4, <2>4, TouchEffect DEF Returns, Becomes, Others
    <3>2. worker[v].op \in Requests \cup {"pop", "look", "sleep"} =>
            worker[v].session \in Sessions /\ worker[v].id \in Ids
      BY WorkerFields DEF HandInv, Requests
    <3>3. worker[v].op \in {"look", "sleep"} => 0 <= worker[v].waited
      BY <2>1
    <3> QED
      BY <3>1, <3>2, <3>3, PointersTyped DEF PollInv
  <2>5. CASE Returns(w)
    BY <1>4, <2>3, <2>4, <2>5, TouchEffect DEF PollInv, Returns, Requests
  <2>6. CASE \E op \in {"attaching", "detaching", "destroying", "pop"} : Becomes(w, op, s)
    <3>1. /\ worker'[w].op \in {"attaching", "detaching", "destroying", "pop"}
          /\ worker'[w].id = idOf[s]
      BY <2>6 DEF Becomes
    <3>2. worker[w].op \in Requests /\ worker[w].session = s /\ worker[w].id = idOf[s] /\ worker[w].id \in Ids
      BY <1>4, TouchEffect, WorkerFields DEF HandInv, Requests
    <3>3. LET found == sessions[idOf[s]] IN found = 0 \/ found = s \/ idle[found] = 0
      BY <3>2 DEF PollInv
    <3>4. LET found == sessions'[idOf[s]] IN found = 0 \/ idle'[found] = 0
      BY <1>4, <3>2, <3>3, TouchEffect, PointersTyped
    <3> QED
      BY <1>4, <2>3, <2>4, <3>1, <3>4, TouchEffect DEF PollInv, Requests
  <2> QED
    BY <1>4, <2>5, <2>6, TouchEffect
<1>5. ASSUME NEW w \in Workers, NEW s \in Sessions, Attach(w, s) PROVE PollInv'
  BY <1>5, AttachEffect, PointersTyped
  DEF CreatedInv, HandInv, TableInv, TableLive, PollInv, Requests, Returns,
    Becomes, Others
<1>6. ASSUME NEW w \in Workers, NEW s \in Sessions, DestroyFlag(w, s) PROVE PollInv'
  BY <1>6, DestroyFlagEffect, PointersTyped
  DEF CreatedInv, HandInv, TableInv, TableLive, PollInv, Requests, Returns,
    Becomes, Others
<1>7. ASSUME NEW w \in Workers, NEW s \in Sessions, DestroyRemove(w, s) PROVE PollInv'
  BY <1>7, DestroyRemoveEffect, PointersTyped
  DEF CreatedInv, HandInv, TableInv, TableLive, PollInv, Requests, Returns,
    Becomes, Others
<1>8. ASSUME NEW w \in Workers, NEW s \in Sessions, PollFirst(w, s) PROVE PollInv'
  BY <1>8, PollFirstEffect, PointersTyped
  DEF CreatedInv, HandInv, TableInv, TableLive, PollInv, Requests, Returns,
    Becomes, Others
<1>9. ASSUME NEW w \in Workers, NEW s \in Sessions, PollDeliver(w, s) PROVE PollInv'
  BY <1>9, PollDeliverEffect, PointersTyped
  DEF CreatedInv, HandInv, TableInv, TableLive, PollInv, Requests, Returns,
    Becomes, Others
<1>10. ASSUME NEW w \in Workers, NEW s \in Sessions, PollSleep(w, s) PROVE PollInv'
  BY <1>10, PollSleepEffect, PointersTyped
  DEF CreatedInv, HandInv, TableInv, TableLive, PollInv, Requests, Returns,
    Becomes, Others
<1>11. ASSUME NEW w \in Workers, NEW s \in Sessions, PollKeepalive(w, s) PROVE PollInv'
  BY <1>11, PollKeepaliveEffect, PointersTyped
  DEF CreatedInv, HandInv, TableInv, TableLive, PollInv, Requests, Returns,
    Becomes, Others
<1>12. ASSUME NEW w \in Workers, NEW s \in Sessions, PushEvent(w, s) PROVE PollInv'
  BY <1>12, PushEventEffect, PointersTyped
  DEF CreatedInv, HandInv, TableInv, TableLive, PollInv, Requests, Returns,
    Becomes, Others
<1>13. ASSUME NEW w \in Workers, NEW s \in Sessions, PushQueue(w, s) PROVE PollInv'
  BY <1>13, PushQueueEffect, PointersTyped
  DEF CreatedInv, HandInv, TableInv, TableLive, PollInv, Requests, Returns,
    Becomes, Others
<1>14. ASSUME NEW i \in Ids, Expire(i) PROVE PollInv'
  <2>1. \A v \in Workers : worker[v].op # "free" =>
          worker[v].waited \in Int /\ 0 <= worker[v].waited /\ worker[v].waited <= PollTime
    BY WorkerFields, ConstantsAssumption
  <2>2. \A r \in Sessions : idle[r] \in Int
    BY DEF TypeOK
  <2>3. \A v \in Workers : worker[v].op \in {"look", "sleep"} => worker[v].session # sessions[i]
    BY <1>14, <2>1, <2>2, ExpireEffect, DurationsAssumption, ConstantsAssumption
    DEF PollInv
  <2>4. \A j \in Ids : sessions[j] = sessions[i] => j = i
    BY <1>14, ExpireEffect, PointersTyped DEF TableInv, TableLive
  <2>5. \A v \in Workers : worker[v].op \in Requests \cup {"pop", "look", "sleep"} =>
          worker[v].session \in Sessions /\ worker[v].id \in Ids
    BY WorkerFields DEF HandInv, Requests
  <2> QED
    BY <1>14, <2>3, <2>4, <2>5, ExpireEffect, PointersTyped DEF PollInv
<1>15. CASE Cleanup
  BY <1>15, CleanupEffect, PointersTyped
  DEF CreatedInv, HandInv, TableInv, TableLive, PollInv, Requests, Returns,
    Becomes, Others
<1>16. CASE SessionFree
  BY <1>16, SessionFreeEffect, PointersTyped
  DEF CreatedInv, HandInv, TableInv, TableLive, PollInv, Requests, Returns,
    Becomes, Others
<1>17. CASE Tick
  <2>1. \A v \in Workers : worker[v].op # "free" =>
          worker[v].waited \in Int /\ 0 <= worker[v].waited /\ worker[v].waited <= PollTime
    BY WorkerFields, ConstantsAssumption
  <2>2. \A r \in Sessions : idle[r] \in Int
    BY DEF TypeOK
  <2>3. \A r \in Sessions : idle'[r] \in Int
    BY TypeNext DEF TypeOK
  <2>4. ASSUME NEW v \in Workers, worker'[v].op \in {"look", "sleep"}
        PROVE  idle'[worker'[v].session] <= worker'[v].waited /\ timeout'[worker'[v].session] = 0
    <3>1. /\ worker[v].op = "sleep" /\ worker'[v].session = worker[v].session
          /\ worker'[v].waited = worker[v].waited + 1
      BY <1>17, <2>4, TickEffect
    <3>2. worker[v].session \in Sessions /\ idle[worker[v].session] <= worker[v].waited
      BY <3>1 DEF HandInv, PollInv
    <3> QED
      BY <1>17, <2>1, <2>2, <2>3, <3>1, <3>2, TickEffect DEF PollInv
  <2>5. \A v \in Workers : worker'[v].op \notin Requests \cup {"pop"}
    BY <1>17, TickEffect DEF Requests
  <2> QED
    BY <1>17, <2>4, <2>5, TickEffect DEF PollInv
<1>18. CASE UNCHANGED vars
  BY <1>18, StutterEffect, PointersTyped
  DEF CreatedInv, HandInv, TableInv, TableLive, PollInv, Requests, Returns,
    Becomes, Others
<1> QED
  BY <1>1, <1>2, <1>3, <1>4, <1>5, <1>6, <1>7, <1>8, <1>9, <1>10, <1>11, <1>12,
    <1>13, <1>14, <1>15, <1>16, <1>17, <1>18
  DEF Next, Work, Proceed, Watchdog

\* Drawn ids.
LEMMA DrawnNext == TypeOK /\ CreatedInv /\ HandInv /\ DrawnInv /\ [Next]_vars => DrawnInv'
<1> SUFFICES ASSUME TypeOK, CreatedInv, HandInv, DrawnInv, [Next]_vars PROVE DrawnInv'
  OBVIOUS
<1>1. ASSUME NEW w \in Workers, Create(w) PROVE DrawnInv'
  <2>1. worker'[w].id \notin Named =>
          /\ \A s \in Sessions : idOf[s] # worker'[w].id
          /\ \A v \in Workers : worker[v].op = "create" => worker[v].id # worker'[w].id
    BY <1>1, CreateEffect DEF Unused, Reserved
  <2> QED
    BY <1>1, <2>1, CreateEffect DEF DrawnInv, Others
<1>2. ASSUME NEW w \in Workers, CreateInsert(w) PROVE DrawnInv'
  BY <1>2, CreateInsertEffect, PointersTyped
  DEF CreatedInv, HandInv, DrawnInv, Requests, Returns, Becomes, Others
<1>3. ASSUME NEW w \in Workers, NEW i \in Ids, Find(w, i) PROVE DrawnInv'
  BY <1>3, FindEffect, PointersTyped
  DEF CreatedInv, HandInv, DrawnInv, Requests, Returns, Becomes, Others
<1>4. ASSUME NEW w \in Workers, NEW s \in Sessions, Touch(w, s) PROVE DrawnInv'
  BY <1>4, TouchEffect, PointersTyped
  DEF CreatedInv, HandInv, DrawnInv, Requests, Returns, Becomes, Others
<1>5. ASSUME NEW w \in Workers, NEW s \in Sessions, Attach(w, s) PROVE DrawnInv'
  BY <1>5, AttachEffect, PointersTyped
  DEF CreatedInv, HandInv, DrawnInv, Requests, Returns, Becomes, Others
<1>6. ASSUME NEW w \in Workers, NEW s \in Sessions, DestroyFlag(w, s) PROVE DrawnInv'
  BY <1>6, DestroyFlagEffect, PointersTyped
  DEF CreatedInv, HandInv, DrawnInv, Requests, Returns, Becomes, Others
<1>7. ASSUME NEW w \in Workers, NEW s \in Sessions, DestroyRemove(w, s) PROVE DrawnInv'
  BY <1>7, DestroyRemoveEffect, PointersTyped
  DEF CreatedInv, HandInv, DrawnInv, Requests, Returns, Becomes, Others
<1>8. ASSUME NEW w \in Workers, NEW s \in Sessions, PollFirst(w, s) PROVE DrawnInv'
  BY <1>8, PollFirstEffect, PointersTyped
  DEF CreatedInv, HandInv, DrawnInv, Requests, Returns, Becomes, Others
<1>9. ASSUME NEW w \in Workers, NEW s \in Sessions, PollDeliver(w, s) PROVE DrawnInv'
  BY <1>9, PollDeliverEffect, PointersTyped
  DEF CreatedInv, HandInv, DrawnInv, Requests, Returns, Becomes, Others
<1>10. ASSUME NEW w \in Workers, NEW s \in Sessions, PollSleep(w, s) PROVE DrawnInv'
  BY <1>10, PollSleepEffect, PointersTyped
  DEF CreatedInv, HandInv, DrawnInv, Requests, Returns, Becomes, Others
<1>11. ASSUME NEW w \in Workers, NEW s \in Sessions, PollKeepalive(w, s) PROVE DrawnInv'
  BY <1>11, PollKeepaliveEffect, PointersTyped
  DEF CreatedInv, HandInv, DrawnInv, Requests, Returns, Becomes, Others
<1>12. ASSUME NEW w \in Workers, NEW s \in Sessions, PushEvent(w, s) PROVE DrawnInv'
  BY <1>12, PushEventEffect, PointersTyped
  DEF CreatedInv, HandInv, DrawnInv, Requests, Returns, Becomes, Others
<1>13. ASSUME NEW w \in Workers, NEW s \in Sessions, PushQueue(w, s) PROVE DrawnInv'
  BY <1>13, PushQueueEffect, PointersTyped
  DEF CreatedInv, HandInv, DrawnInv, Requests, Returns, Becomes, Others
<1>14. ASSUME NEW i \in Ids, Expire(i) PROVE DrawnInv'
  BY <1>14, ExpireEffect, PointersTyped
  DEF CreatedInv, HandInv, DrawnInv, Requests, Returns, Becomes, Others
<1>15. CASE Cleanup
  BY <1>15, CleanupEffect, PointersTyped
  DEF CreatedInv, HandInv, DrawnInv, Requests, Returns, Becomes, Others
<1>16. CASE SessionFree
  BY <1>16, SessionFreeEffect, PointersTyped
  DEF CreatedInv, HandInv, DrawnInv, Requests, Returns, Becomes, Others
<1>17. CASE Tick
  BY <1>17, TickEffect, PointersTyped
  DEF CreatedInv, HandInv, DrawnInv, Requests, Returns, Becomes, Others
<1>18. CASE UNCHANGED vars
  BY <1>18, StutterEffect, PointersTyped
  DEF CreatedInv, HandInv, DrawnInv, Requests, Returns, Becomes, Others
<1> QED
  BY <1>1, <1>2, <1>3, <1>4, <1>5, <1>6, <1>7, <1>8, <1>9, <1>10, <1>11, <1>12,
    <1>13, <1>14, <1>15, <1>16, <1>17, <1>18
  DEF Next, Work, Proceed, Watchdog

\* Sessions with timers.
LEMMA TimerNext == TypeOK /\ CreatedInv /\ HandInv /\ TableInv /\ TimerInv /\ [Next]_vars => TimerInv'
<1> SUFFICES ASSUME TypeOK, CreatedInv, HandInv, TableInv, TimerInv, [Next]_vars PROVE TimerInv'
  OBVIOUS
<1>1. ASSUME NEW w \in Workers, Create(w) PROVE TimerInv'
  BY <1>1, CreateEffect, PointersTyped
  DEF CreatedInv, HandInv, TableInv, TableLive, TimerInv, Requests, Returns,
    Becomes, Others
<1>2. ASSUME NEW w \in Workers, CreateInsert(w) PROVE TimerInv'
  BY <1>2, CreateInsertEffect, PointersTyped
  DEF CreatedInv, HandInv, TableInv, TableLive, TimerInv, Requests, Returns,
    Becomes, Others
<1>3. ASSUME NEW w \in Workers, NEW i \in Ids, Find(w, i) PROVE TimerInv'
  BY <1>3, FindEffect, PointersTyped
  DEF CreatedInv, HandInv, TableInv, TableLive, TimerInv, Requests, Returns,
    Becomes, Others
<1>4. ASSUME NEW w \in Workers, NEW s \in Sessions, Touch(w, s) PROVE TimerInv'
  BY <1>4, TouchEffect, PointersTyped
  DEF CreatedInv, HandInv, TableInv, TableLive, TimerInv, Requests, Returns,
    Becomes, Others
<1>5. ASSUME NEW w \in Workers, NEW s \in Sessions, Attach(w, s) PROVE TimerInv'
  BY <1>5, AttachEffect, PointersTyped
  DEF CreatedInv, HandInv, TableInv, TableLive, TimerInv, Requests, Returns,
    Becomes, Others
<1>6. ASSUME NEW w \in Workers, NEW s \in Sessions, DestroyFlag(w, s) PROVE TimerInv'
  BY <1>6, DestroyFlagEffect, PointersTyped
  DEF CreatedInv, HandInv, TableInv, TableLive, TimerInv, Requests, Returns,
    Becomes, Others
<1>7. ASSUME NEW w \in Workers, NEW s \in Sessions, DestroyRemove(w, s) PROVE TimerInv'
  BY <1>7, DestroyRemoveEffect, PointersTyped
  DEF CreatedInv, HandInv, TableInv, TableLive, TimerInv, Requests, Returns,
    Becomes, Others
<1>8. ASSUME NEW w \in Workers, NEW s \in Sessions, PollFirst(w, s) PROVE TimerInv'
  BY <1>8, PollFirstEffect, PointersTyped
  DEF CreatedInv, HandInv, TableInv, TableLive, TimerInv, Requests, Returns,
    Becomes, Others
<1>9. ASSUME NEW w \in Workers, NEW s \in Sessions, PollDeliver(w, s) PROVE TimerInv'
  BY <1>9, PollDeliverEffect, PointersTyped
  DEF CreatedInv, HandInv, TableInv, TableLive, TimerInv, Requests, Returns,
    Becomes, Others
<1>10. ASSUME NEW w \in Workers, NEW s \in Sessions, PollSleep(w, s) PROVE TimerInv'
  BY <1>10, PollSleepEffect, PointersTyped
  DEF CreatedInv, HandInv, TableInv, TableLive, TimerInv, Requests, Returns,
    Becomes, Others
<1>11. ASSUME NEW w \in Workers, NEW s \in Sessions, PollKeepalive(w, s) PROVE TimerInv'
  BY <1>11, PollKeepaliveEffect, PointersTyped
  DEF CreatedInv, HandInv, TableInv, TableLive, TimerInv, Requests, Returns,
    Becomes, Others
<1>12. ASSUME NEW w \in Workers, NEW s \in Sessions, PushEvent(w, s) PROVE TimerInv'
  BY <1>12, PushEventEffect, PointersTyped
  DEF CreatedInv, HandInv, TableInv, TableLive, TimerInv, Requests, Returns,
    Becomes, Others
<1>13. ASSUME NEW w \in Workers, NEW s \in Sessions, PushQueue(w, s) PROVE TimerInv'
  BY <1>13, PushQueueEffect, PointersTyped
  DEF CreatedInv, HandInv, TableInv, TableLive, TimerInv, Requests, Returns,
    Becomes, Others
<1>14. ASSUME NEW i \in Ids, Expire(i) PROVE TimerInv'
  BY <1>14, ExpireEffect, PointersTyped
  DEF CreatedInv, HandInv, TableInv, TableLive, TimerInv, Requests, Returns,
    Becomes, Others
<1>15. CASE Cleanup
  BY <1>15, CleanupEffect, PointersTyped
  DEF CreatedInv, HandInv, TableInv, TableLive, TimerInv, Requests, Returns,
    Becomes, Others
<1>16. CASE SessionFree
  BY <1>16, SessionFreeEffect, PointersTyped
  DEF CreatedInv, HandInv, TableInv, TableLive, TimerInv, Requests, Returns,
    Becomes, Others
<1>17. CASE Tick
  BY <1>17, TickEffect, PointersTyped
  DEF CreatedInv, HandInv, TableInv, TableLive, TimerInv, Requests, Returns,
    Becomes, Others
<1>18. CASE UNCHANGED vars
  BY <1>18, StutterEffect, PointersTyped
  DEF CreatedInv, HandInv, TableInv, TableLive, TimerInv, Requests, Returns,
    Becomes, Others
<1> QED
  BY <1>1, <1>2, <1>3, <1>4, <1>5, <1>6, <1>7, <1>8, <1>9, <1>10, <1>11, <1>12,
    <1>13, <1>14, <1>15, <1>16, <1>17, <1>18
  DEF Next, Work, Proceed, Watchdog

\* Nobody but the watchdog frees, and what it frees nobody uses.
LEMMA UserNext == TypeOK /\ CreatedInv /\ HandInv /\ TableInv /\ PollInv /\ DrawnInv /\ TimerInv /\ UserInv /\ [Next]_vars => UserInv'
<1> SUFFICES ASSUME TypeOK, CreatedInv, HandInv, TableInv, PollInv, DrawnInv, TimerInv, UserInv, [Next]_vars PROVE UserInv'
  OBVIOUS
<1>1. ASSUME NEW w \in Workers, Create(w) PROVE UserInv'
  BY <1>1, CreateEffect, PointersTyped, TimersTyped
  DEF CreatedInv, HandInv, TableInv, TableLive, PollInv, DrawnInv, TimerInv,
    UserInv, On, Misused, Requests, Returns, Becomes, Others
<1>2. ASSUME NEW w \in Workers, CreateInsert(w) PROVE UserInv'
  BY <1>2, CreateInsertEffect, PointersTyped, TimersTyped
  DEF CreatedInv, HandInv, TableInv, TableLive, PollInv, DrawnInv, TimerInv,
    UserInv, On, Misused, Requests, Returns, Becomes, Others
<1>3. ASSUME NEW w \in Workers, NEW i \in Ids, Find(w, i) PROVE UserInv'
  BY <1>3, FindEffect, PointersTyped, TimersTyped
  DEF CreatedInv, HandInv, TableInv, TableLive, PollInv, DrawnInv, TimerInv,
    UserInv, On, Misused, Requests, Returns, Becomes, Others
<1>4. ASSUME NEW w \in Workers, NEW s \in Sessions, Touch(w, s) PROVE UserInv'
  BY <1>4, TouchEffect, PointersTyped, TimersTyped
  DEF CreatedInv, HandInv, TableInv, TableLive, PollInv, DrawnInv, TimerInv,
    UserInv, On, Misused, Requests, Returns, Becomes, Others
<1>5. ASSUME NEW w \in Workers, NEW s \in Sessions, Attach(w, s) PROVE UserInv'
  BY <1>5, AttachEffect, PointersTyped, TimersTyped
  DEF CreatedInv, HandInv, TableInv, TableLive, PollInv, DrawnInv, TimerInv,
    UserInv, On, Misused, Requests, Returns, Becomes, Others
<1>6. ASSUME NEW w \in Workers, NEW s \in Sessions, DestroyFlag(w, s) PROVE UserInv'
  BY <1>6, DestroyFlagEffect, PointersTyped, TimersTyped
  DEF CreatedInv, HandInv, TableInv, TableLive, PollInv, DrawnInv, TimerInv,
    UserInv, On, Misused, Requests, Returns, Becomes, Others
<1>7. ASSUME NEW w \in Workers, NEW s \in Sessions, DestroyRemove(w, s) PROVE UserInv'
  BY <1>7, DestroyRemoveEffect, PointersTyped, TimersTyped
  DEF CreatedInv, HandInv, TableInv, TableLive, PollInv, DrawnInv, TimerInv,
    UserInv, On, Misused, Requests, Returns, Becomes, Others
<1>8. ASSUME NEW w \in Workers, NEW s \in Sessions, PollFirst(w, s) PROVE UserInv'
  BY <1>8, PollFirstEffect, PointersTyped, TimersTyped
  DEF CreatedInv, HandInv, TableInv, TableLive, PollInv, DrawnInv, TimerInv,
    UserInv, On, Misused, Requests, Returns, Becomes, Others
<1>9. ASSUME NEW w \in Workers, NEW s \in Sessions, PollDeliver(w, s) PROVE UserInv'
  BY <1>9, PollDeliverEffect, PointersTyped, TimersTyped
  DEF CreatedInv, HandInv, TableInv, TableLive, PollInv, DrawnInv, TimerInv,
    UserInv, On, Misused, Requests, Returns, Becomes, Others
<1>10. ASSUME NEW w \in Workers, NEW s \in Sessions, PollSleep(w, s) PROVE UserInv'
  BY <1>10, PollSleepEffect, PointersTyped, TimersTyped
  DEF CreatedInv, HandInv, TableInv, TableLive, PollInv, DrawnInv, TimerInv,
    UserInv, On, Misused, Requests, Returns, Becomes, Others
<1>11. ASSUME NEW w \in Workers, NEW s \in Sessions, PollKeepalive(w, s) PROVE UserInv'
  BY <1>11, PollKeepaliveEffect, PointersTyped, TimersTyped
  DEF CreatedInv, HandInv, TableInv, TableLive, PollInv, DrawnInv, TimerInv,
    UserInv, On, Misused, Requests, Returns, Becomes, Others
<1>12. ASSUME NEW w \in Workers, NEW s \in Sessions, PushEvent(w, s) PROVE UserInv'
  BY <1>12, PushEventEffect, PointersTyped, TimersTyped
  DEF CreatedInv, HandInv, TableInv, TableLive, PollInv, DrawnInv, TimerInv,
    UserInv, On, Misused, Requests, Returns, Becomes, Others
<1>13. ASSUME NEW w \in Workers, NEW s \in Sessions, PushQueue(w, s) PROVE UserInv'
  BY <1>13, PushQueueEffect, PointersTyped, TimersTyped
  DEF CreatedInv, HandInv, TableInv, TableLive, PollInv, DrawnInv, TimerInv,
    UserInv, On, Misused, Requests, Returns, Becomes, Others
<1>14. ASSUME NEW i \in Ids, Expire(i) PROVE UserInv'
  BY <1>14, ExpireEffect, PointersTyped, TimersTyped
  DEF CreatedInv, HandInv, TableInv, TableLive, PollInv, DrawnInv, TimerInv,
    UserInv, On, Misused, Requests, Returns, Becomes, Others
<1>15. CASE Cleanup
  <2> SUFFICES ASSUME ~Misused', NEW w \in Workers, NEW s \in Sessions, On(w, s)', idOf'[s] \notin Named
               PROVE  /\ memory'[s] = "live" /\ cleaning' # s
                      /\ \A t \in Timers' : t.session = s =>
                           t.age <= 1 /\ (worker'[w].op # "look" => t.age = 0)
    BY DEF UserInv
  <2>1. PICK t \in Timers :
          /\ t.session \in Sessions /\ t.age >= CleanupDelay
          /\ \/ cleaning' = 0
             \/ \E i \in Ids : /\ cleaning' = old_sessions[i]
                               /\ memory[t.session] = "live" => i = idOf[t.session]
          /\ memory[t.session] = "live" => memory' = memory
          /\ memory[t.session] # "live" => memory'[t.session] = "misused"
    BY <1>15, CleanupEffect
  <2>2. memory[t.session] = "live" /\ memory' = memory
    BY <2>1 DEF Misused
  <2>3. UNCHANGED <<worker, idOf>> /\ Timers' \subseteq Timers
    BY <1>15, CleanupEffect
  <2>4. On(w, s) /\ idOf[s] \notin Named /\ ~Misused
    BY <2>2, <2>3 DEF On, Misused
  <2>5. /\ memory[s] = "live"
        /\ \A u \in Timers : u.session = s => u.age <= 1 /\ (worker[w].op # "look" => u.age = 0)
    BY <2>4 DEF UserInv
  <2>6. t.session # s
    <3>1. t.age \in Int
      BY <2>1, TimersTyped, ConstantsAssumption
    <3> QED
      BY <2>1, <2>5, <3>1, DurationsAssumption, ConstantsAssumption
  <2>7. cleaning' # s
    <3>1. CASE cleaning' = 0
      BY <3>1, PointersTyped
    <3>2. CASE \E i \in Ids : /\ cleaning' = old_sessions[i] /\ i = idOf[t.session]
      BY <2>1, <2>2, <2>4, <2>5, <2>6, <3>2, PointersTyped
      DEF TableInv, DrawnInv
    <3> QED
      BY <2>1, <2>2, <3>1, <3>2
  <2> QED
    BY <2>2, <2>3, <2>5, <2>7
<1>16. CASE SessionFree
  BY <1>16, SessionFreeEffect, PointersTyped, TimersTyped
  DEF CreatedInv, HandInv, TableInv, TableLive, PollInv, DrawnInv, TimerInv,
    UserInv, On, Misused, Requests, Returns, Becomes, Others
<1>17. CASE Tick
  BY <1>17, TickEffect, PointersTyped, TimersTyped
  DEF CreatedInv, HandInv, TableInv, TableLive, PollInv, DrawnInv, TimerInv,
    UserInv, On, Misused, Requests, Returns, Becomes, Others
<1>18. CASE UNCHANGED vars
  BY <1>18, StutterEffect, PointersTyped, TimersTyped
  DEF CreatedInv, HandInv, TableInv, TableLive, PollInv, DrawnInv, TimerInv,
    UserInv, On, Misused, Requests, Returns, Becomes, Others
<1> QED
  BY <1>1, <1>2, <1>3, <1>4, <1>5, <1>6, <1>7, <1>8, <1>9, <1>10, <1>11, <1>12,
    <1>13, <1>14, <1>15, <1>16, <1>17, <1>18
  DEF Next, Work, Proceed, Watchdog

-----------------------------------------------------------------------------
IInv == /\ TypeOK /\ CreatedInv /\ HandInv /\ TableInv /\ PollInv /\ DrawnInv /\ TimerInv /\ UserInv

LEMMA Initially == Init => IInv
<1> SUFFICES ASSUME Init PROVE IInv
  OBVIOUS
<1> USE ConstantsAssumption
<1>1. Timers = {} /\ \A w \in Workers : worker[w].op = "free"
  BY DEF Init, Timers, Free
<1>2. TypeOK
  <2>1. cleanups \in Seq([session : Sessions, age : 0..CleanupDelay])
    BY DEF Init
  <2> QED
    BY <2>1 DEF Init, TypeOK
<1>3. CreatedInv /\ HandInv /\ TableInv
  BY <1>1 DEF Init, CreatedInv, HandInv, TableInv, TableLive
<1>4. PollInv /\ DrawnInv /\ TimerInv /\ UserInv
  BY <1>1 DEF Init, PollInv, DrawnInv, TimerInv, UserInv, On, Requests
<1> QED
  BY <1>2, <1>3, <1>4 DEF IInv

LEMMA Invariance == Spec => []IInv
<1>1. IInv /\ [Next]_vars => IInv'
  BY TypeNext, CreatedNext, HandNext, TableNext, PollNext, DrawnNext, TimerNext,
    UserNext
  DEF IInv
<1> QED
  BY <1>1, Initially, PTL DEF Spec

\* Every reachable state is well typed, for any number of threads, sessions and
\* ids: a timer, a table and a thread lead to sessions only.
THEOREM TypeCorrect == Spec => []TypeOK
BY Invariance, PTL DEF IInv

\* janus_session_find never returns a session that has been freed, or one under
\* another id, however creations, destructions, expiries and cleanups meet: ids
\* that are used again and double destructions included.
THEOREM FoundSessionsLive == Spec => []TableLive
BY Invariance, PTL DEF IInv, TableInv

\* No session expires under a long poll, since a poll is shorter than the
\* timeout and begins with a request: janus_ws_notifier needs no lock against
\* janus_check_sessions.
THEOREM PollsKeepSessions == Spec => []PollProtects
<1>1. IInv => PollProtects
  BY DEF IInv, PollInv, PollProtects
<1> QED
  BY <1>1, Invariance, PTL

\* No request and no long poll uses a session that has been freed, as long as
\* its id was drawn and no freed memory has been used: the three seconds between
\* a session's removal and its free are enough for any number of threads.
THEOREM RequestsFindMemory == Spec => []UserMemory
<1>1. IInv => UserMemory
  <2> SUFFICES ASSUME IInv, ~Misused, NEW w \in Workers, NEW s \in Sessions,
                      worker[w] # Free, worker[w].op # "push", worker[w].session = s,
                      idOf[s] \notin Named
               PROVE  memory[s] = "live"
    BY DEF UserMemory
  <2>1. worker[w].op # "free"
    BY WorkerFree DEF IInv
  <2>2. CASE worker[w].op = "create"
    BY <2>2 DEF IInv, HandInv, Sessions
  <2>3. CASE worker[w].op # "create"
    BY <2>1, <2>3 DEF IInv, UserInv, On
  <2> QED
    BY <2>2, <2>3
<1> QED
  BY <1>1, Invariance, PTL

-----------------------------------------------------------------------------
(***************************************************************************)
(* The sessions that a timer leads to: none is forgotten, and none freed   *)
(* twice as long as each is removed once.                                  *)
(***************************************************************************)
Timed == {t.session : t \in Timers}

LEMMA TimedAppend ==
  ASSUME TypeOK, NEW s \in Sessions, cleanups' = Append(cleanups, [session |-> s, age |-> 0])
  PROVE  Timed' = Timed \cup {s}
<1> DEFINE T == [session : Sessions, age : 0..CleanupDelay]
           t == [session |-> s, age |-> 0]
<1>1. t \in T /\ cleanups \in Seq(T)
  BY ConstantsAssumption DEF TypeOK
<1> HIDE DEF T, t
<1>2. /\ \A n \in DOMAIN cleanups : n \in DOMAIN cleanups' /\ cleanups'[n] = cleanups[n]
      /\ \A n \in DOMAIN cleanups' : n \in DOMAIN cleanups \/ cleanups'[n] = t
      /\ Len(cleanups) + 1 \in DOMAIN cleanups' /\ cleanups'[Len(cleanups) + 1] = t
  <2>1. cleanups' = Append(cleanups, t)
    BY DEF t
  <2> QED
    BY <1>1, <2>1
<1>3. t.session = s
  BY DEF t
<1>4. Timers' = Timers \cup {t}
  BY <1>2 DEF Timers
<1> QED
  BY <1>3, <1>4 DEF Timed

LEMMA TimedTail ==
  ASSUME TypeOK, cleanups # <<>>, cleanups' = Tail(cleanups)
  PROVE  LET s == Head(cleanups).session IN
           Timed = Timed' \cup {s} /\ (RemovedOnce => s \notin Timed')
<1> DEFINE T == [session : Sessions, age : 0..CleanupDelay]
<1>1. cleanups \in Seq(T)
  BY DEF TypeOK
<1> HIDE DEF T
<1>2. \A n \in DOMAIN cleanups' : n + 1 \in DOMAIN cleanups /\ n + 1 # 1 /\ cleanups'[n] = cleanups[n + 1]
  BY <1>1
<1>3. 1 \in DOMAIN cleanups /\ Head(cleanups) = cleanups[1]
  BY <1>1
<1>4. \A n \in DOMAIN cleanups : n # 1 => n - 1 \in DOMAIN cleanups' /\ cleanups'[n - 1] = cleanups[n]
  BY <1>1
<1>5. Timers = Timers' \cup {Head(cleanups)}
  <2>1. Timers' \subseteq Timers /\ Head(cleanups) \in Timers
    BY <1>2, <1>3 DEF Timers
  <2>2. ASSUME NEW n \in DOMAIN cleanups PROVE cleanups[n] \in Timers' \cup {Head(cleanups)}
    <3>1. CASE n = 1
      BY <1>3, <3>1
    <3>2. CASE n # 1
      BY <1>4, <3>2 DEF Timers
    <3> QED
      BY <3>1, <3>2
  <2>3. Timers \subseteq Timers' \cup {Head(cleanups)}
    BY <2>2 DEF Timers
  <2> QED
    BY <2>1, <2>3
<1>6. RemovedOnce => \A t \in Timers' : t.session # Head(cleanups).session
  BY <1>2, <1>3 DEF Timers, RemovedOnce
<1> QED
  BY <1>5, <1>6 DEF Timed

LEMMA TimedTick == TypeOK /\ Tick => Timed' = Timed
<1> SUFFICES ASSUME TypeOK, Tick PROVE Timed' = Timed
  OBVIOUS
<1> DEFINE T == [session : Sessions, age : 0..CleanupDelay]
<1>1. cleanups \in Seq(T)
  BY DEF TypeOK
<1>2. \A n \in DOMAIN cleanups : cleanups[n] \in T
  <2> HIDE DEF T
  <2> QED
    BY <1>1, SequenceElement
<1>3. DOMAIN cleanups' = DOMAIN cleanups
  BY DEF Tick
<1>4. \A n \in DOMAIN cleanups : cleanups'[n].session = cleanups[n].session
  BY <1>2 DEF Tick
<1> QED
  BY <1>3, <1>4 DEF Timed, Timers

LEMMA TimedSame == Timers' = Timers => Timed' = Timed
BY DEF Timed

LEMMA TimedIndices == /\ \A n \in DOMAIN cleanups : cleanups[n].session \in Timed
                      /\ \A s \in Timed : \E n \in DOMAIN cleanups : cleanups[n].session = s
BY DEF Timed, Timers

\* What a timer finds under its session's id, and what has a timer.
LeakInv ==
  /\ \A s \in Sessions : memory[s] = "live" /\ idOf[s] \notin Named =>
       sessions[idOf[s]] = s \/ cleaning = s \/ s \in Timed
  /\ \A s \in Timed : idOf[s] \notin Named => old_sessions[idOf[s]] = s

\* A timer that is due takes its session for cleaning, when that still lives.
LEMMA CleanupTakes ==
  ASSUME TypeOK, CreatedInv, LeakInv, Cleanup
  PROVE  \E s \in Sessions :
           /\ Timed = Timed' \cup {s} /\ (RemovedOnce => s \notin Timed')
           /\ memory[s] = "live" /\ idOf[s] \notin Named => cleaning' = s
           /\ memory[s] = "live" => memory' = memory
           /\ \A r \in Sessions : memory'[r] = "live" => memory[r] = "live"
<1> DEFINE s == Head(cleanups).session
<1>1. cleanups # <<>> /\ cleanups' = Tail(cleanups) /\ cleaning = 0
  BY DEF Cleanup, Due
<1>2. Timed = Timed' \cup {s} /\ (RemovedOnce => s \notin Timed')
  BY <1>1, TimedTail
<1>3. s \in Sessions
  BY <1>2, TimersTyped DEF Timed
<1>4. ASSUME memory[s] = "live", idOf[s] \notin Named PROVE cleaning' = s
  <2>1. idOf[s] \in Ids /\ idOf[s] # NoId
    BY <1>3, <1>4, IdsAssumption DEF CreatedInv
  <2>2. old_sessions[idOf[s]] = s
    BY <1>2, <1>4 DEF LeakInv
  <2> QED
    BY <1>4, <2>1, <2>2 DEF Cleanup
<1>5. memory[s] = "live" => memory' = memory
  BY DEF Cleanup
<1>6. \A r \in Sessions : memory'[r] = "live" => memory[r] = "live"
  BY <1>3, <1>5 DEF Cleanup, TypeOK
<1> QED
  BY <1>2, <1>3, <1>4, <1>5, <1>6

\* No step forgets a session: what leaves the table gets a timer in the same
\* step, the timer is found under an id that stays the session's own, and what
\* the watchdog has taken it frees.
LEMMA LeakNext ==
  TypeOK /\ CreatedInv /\ HandInv /\ TableInv /\ DrawnInv /\ LeakInv /\ [Next]_vars => LeakInv'
<1> SUFFICES ASSUME TypeOK, CreatedInv, HandInv, TableInv, DrawnInv, LeakInv, [Next]_vars
             PROVE  LeakInv'
  OBVIOUS
<1>0. \A s \in Timed : s \in Sessions /\ memory[s] # "none"
  BY TimersTyped DEF Timed, CreatedInv
<1>1. ASSUME NEW w \in Workers, Create(w) PROVE LeakInv'
  BY <1>1, CreateEffect, TimedSame DEF LeakInv
<1>2. ASSUME NEW w \in Workers, CreateInsert(w) PROVE LeakInv'
  <2>1. PICK s \in Sessions :
          /\ memory[s] = "none" /\ memory'[s] = "live" /\ idOf'[s] = worker[w].id
          /\ \A r \in Sessions : r # s => memory'[r] = memory[r] /\ idOf'[r] = idOf[r]
          /\ \A j \in Ids : sessions'[j] = IF j = worker[w].id THEN s ELSE sessions[j]
    BY <1>2, CreateInsertEffect
  <2>2. worker[w].op = "create" /\ worker[w].id \in Ids /\ UNCHANGED <<old_sessions, cleaning, Timed>>
    BY <1>2, CreateInsertEffect, TimedSame
  <2>3. ASSUME NEW r \in Sessions, memory'[r] = "live", idOf'[r] \notin Named
        PROVE  sessions'[idOf'[r]] = r \/ cleaning' = r \/ r \in Timed'
    <3>1. CASE r = s
      BY <2>1, <2>2, <3>1
    <3>2. CASE r # s
      <4>1. memory[r] = "live" /\ idOf'[r] = idOf[r] /\ idOf[r] \in Ids
        BY <2>1, <2>3, <3>2 DEF CreatedInv
      <4>2. idOf[r] # worker[w].id
        BY <2>2, <2>3, <4>1 DEF DrawnInv
      <4> QED
        BY <2>1, <2>2, <2>3, <4>1, <4>2 DEF LeakInv
    <3> QED
      BY <3>1, <3>2
  <2>4. ASSUME NEW r \in Timed' PROVE idOf'[r] \notin Named => old_sessions'[idOf'[r]] = r
    BY <1>0, <2>1, <2>2, <2>4 DEF LeakInv
  <2> QED
    BY <2>3, <2>4 DEF LeakInv
<1>3. ASSUME NEW w \in Workers, NEW i \in Ids, Find(w, i) PROVE LeakInv'
  BY <1>3, FindEffect, TimedSame DEF LeakInv
<1>4. ASSUME NEW w \in Workers, NEW s \in Sessions, Touch(w, s) PROVE LeakInv'
  BY <1>4, TouchEffect, TimedSame DEF LeakInv
<1>5. ASSUME NEW w \in Workers, NEW s \in Sessions, Attach(w, s) PROVE LeakInv'
  BY <1>5, AttachEffect, TimedSame DEF LeakInv
<1>6. ASSUME NEW w \in Workers, NEW s \in Sessions, DestroyFlag(w, s) PROVE LeakInv'
  BY <1>6, DestroyFlagEffect, TimedSame DEF LeakInv
<1>7. ASSUME NEW w \in Workers, NEW s \in Sessions, DestroyRemove(w, s) PROVE LeakInv'
  <2>1. /\ worker[w].op = "removing" /\ worker[w].session = s
        /\ \A j \in Ids : sessions'[j] = IF j = idOf[s] THEN 0 ELSE sessions[j]
        /\ \A j \in Ids : old_sessions'[j] = IF j = idOf[s] THEN s ELSE old_sessions[j]
        /\ UNCHANGED <<memory, idOf, cleaning>>
    BY <1>7, DestroyRemoveEffect
  <2>2. Timed' = Timed \cup {s}
    BY <1>7, TimedAppend DEF DestroyRemove
  <2>3. memory[s] # "none" /\ idOf[s] \in Ids
    BY <2>1 DEF HandInv, CreatedInv
  <2>4. \A r \in Sessions : memory[r] # "none" /\ idOf[r] = idOf[s] /\ idOf[s] \notin Named => r = s
    BY <2>3 DEF DrawnInv
  <2>5. \A r \in Sessions : memory[r] # "none" => idOf[r] \in Ids
    BY DEF CreatedInv
  <2> QED
    BY <1>0, <2>1, <2>2, <2>3, <2>4, <2>5 DEF LeakInv
<1>8. ASSUME NEW w \in Workers, NEW s \in Sessions, PollFirst(w, s) PROVE LeakInv'
  BY <1>8, PollFirstEffect, TimedSame DEF LeakInv
<1>9. ASSUME NEW w \in Workers, NEW s \in Sessions, PollDeliver(w, s) PROVE LeakInv'
  BY <1>9, PollDeliverEffect, TimedSame DEF LeakInv
<1>10. ASSUME NEW w \in Workers, NEW s \in Sessions, PollSleep(w, s) PROVE LeakInv'
  BY <1>10, PollSleepEffect, TimedSame DEF LeakInv
<1>11. ASSUME NEW w \in Workers, NEW s \in Sessions, PollKeepalive(w, s) PROVE LeakInv'
  BY <1>11, PollKeepaliveEffect, TimedSame DEF LeakInv
<1>12. ASSUME NEW w \in Workers, NEW s \in Sessions, PushEvent(w, s) PROVE LeakInv'
  BY <1>12, PushEventEffect, TimedSame DEF LeakInv
<1>13. ASSUME NEW w \in Workers, NEW s \in Sessions, PushQueue(w, s) PROVE LeakInv'
  BY <1>13, PushQueueEffect, TimedSame DEF LeakInv
<1>14. ASSUME NEW i \in Ids, Expire(i) PROVE LeakInv'
  <2> DEFINE s == sessions[i]
  <2>1. /\ s \in Sessions
        /\ \A j \in Ids : sessions'[j] = IF j = i THEN 0 ELSE sessions[j]
        /\ \A j \in Ids : old_sessions'[j] = IF j = i THEN s ELSE old_sessions[j]
        /\ UNCHANGED <<memory, idOf, cleaning>>
    BY <1>14, ExpireEffect
  <2>2. Timed' = Timed \cup {s}
    BY <1>14, <2>1, TimedAppend DEF Expire
  <2>3. memory[s] # "none" /\ idOf[s] = i
    BY <2>1, PointersTyped DEF TableInv, TableLive
  <2>4. \A r \in Sessions : memory[r] # "none" /\ idOf[r] = i /\ i \notin Named => r = s
    BY <2>1, <2>3 DEF DrawnInv
  <2>5. \A r \in Sessions : memory[r] # "none" => idOf[r] \in Ids
    BY DEF CreatedInv
  <2> HIDE DEF s
  <2> QED
    BY <1>0, <2>1, <2>2, <2>3, <2>4, <2>5 DEF LeakInv
<1>15. CASE Cleanup
  <2>1. PICK s \in Sessions :
          /\ Timed = Timed' \cup {s} /\ (RemovedOnce => s \notin Timed')
          /\ memory[s] = "live" /\ idOf[s] \notin Named => cleaning' = s
          /\ memory[s] = "live" => memory' = memory
          /\ \A r \in Sessions : memory'[r] = "live" => memory[r] = "live"
    BY <1>15, CleanupTakes
  <2>2. cleaning = 0 /\ UNCHANGED <<sessions, old_sessions, idOf>>
    BY <1>15, CleanupEffect
  <2> QED
    BY <2>1, <2>2, PointersTyped DEF LeakInv
<1>16. CASE SessionFree
  BY <1>16, SessionFreeEffect, TimedSame DEF LeakInv
<1>17. CASE Tick
  BY <1>17, TickEffect, TimedTick DEF LeakInv
<1>18. CASE UNCHANGED vars
  BY <1>18, StutterEffect, TimedSame DEF LeakInv
<1> QED
  BY <1>1, <1>2, <1>3, <1>4, <1>5, <1>6, <1>7, <1>8, <1>9, <1>10, <1>11, <1>12,
    <1>13, <1>14, <1>15, <1>16, <1>17, <1>18
  DEF Next, Work, Proceed, Watchdog

\* No session with a drawn id is lost, however creations, destructions, expiries
\* and cleanups meet, and even after freed memory has been used: the timer set
\* with a removal finds it again, so only the clock stands between its removal
\* and its free.
THEOREM SessionsAreNotLost == Spec => []NothingLeaks
<1>1. Init => LeakInv
  BY DEF Init, LeakInv, Timed, Timers
<1>2. IInv /\ LeakInv /\ [Next]_vars => LeakInv'
  BY LeakNext DEF IInv
<1>3. LeakInv => NothingLeaks
  BY TimedIndices DEF LeakInv, NothingLeaks
<1> QED
  BY <1>1, <1>2, <1>3, Invariance, PTL DEF Spec

\* As long as each session is removed once, what has a timer lives and is not
\* being destroyed.
OnceInv ==
  /\ ~Misused
  /\ cleaning # 0 => memory[cleaning] = "live"
  /\ \A s \in Timed : memory[s] = "live" /\ cleaning # s

LEMMA OnceNext ==
  ASSUME Named = {}
  PROVE  IInv /\ LeakInv /\ OnceInv /\ RemovedOnce /\ [Next]_vars => OnceInv'
<1> SUFFICES ASSUME IInv, LeakInv, OnceInv, RemovedOnce, [Next]_vars PROVE OnceInv'
  OBVIOUS
<1>0. /\ TypeOK /\ CreatedInv
      /\ \A s \in Timed : s \in Sessions
      /\ 0 \notin Sessions /\ (cleaning # 0 => cleaning \in Sessions)
  BY TimersTyped, PointersTyped DEF IInv, Timed
<1> USE <1>0
<1>1. ASSUME NEW w \in Workers, Create(w) PROVE OnceInv'
  BY <1>1, CreateEffect, TimedSame DEF OnceInv, Misused
<1>2. ASSUME NEW w \in Workers, CreateInsert(w) PROVE OnceInv'
  BY <1>2, CreateInsertEffect, TimedSame DEF OnceInv, Misused
<1>3. ASSUME NEW w \in Workers, NEW i \in Ids, Find(w, i) PROVE OnceInv'
  BY <1>3, FindEffect, TimedSame DEF OnceInv, Misused
<1>4. ASSUME NEW w \in Workers, NEW s \in Sessions, Touch(w, s) PROVE OnceInv'
  BY <1>4, TouchEffect, TimedSame DEF OnceInv, Misused
<1>5. ASSUME NEW w \in Workers, NEW s \in Sessions, Attach(w, s) PROVE OnceInv'
  BY <1>5, AttachEffect, TimedSame DEF OnceInv, Misused
<1>6. ASSUME NEW w \in Workers, NEW s \in Sessions, DestroyFlag(w, s) PROVE OnceInv'
  BY <1>6, DestroyFlagEffect, TimedSame DEF OnceInv, Misused
<1>7. ASSUME NEW w \in Workers, NEW s \in Sessions, DestroyRemove(w, s) PROVE OnceInv'
  <2>1. On(w, s) /\ UNCHANGED <<memory, cleaning>>
    BY <1>7, DestroyRemoveEffect DEF On
  <2>2. memory[s] = "live" /\ cleaning # s
    BY <2>1 DEF IInv, UserInv, OnceInv
  <2>3. Timed' = Timed \cup {s}
    BY <1>7, TimedAppend DEF DestroyRemove
  <2> QED
    BY <2>1, <2>2, <2>3 DEF OnceInv, Misused
<1>8. ASSUME NEW w \in Workers, NEW s \in Sessions, PollFirst(w, s) PROVE OnceInv'
  BY <1>8, PollFirstEffect, TimedSame DEF OnceInv, Misused
<1>9. ASSUME NEW w \in Workers, NEW s \in Sessions, PollDeliver(w, s) PROVE OnceInv'
  BY <1>9, PollDeliverEffect, TimedSame DEF OnceInv, Misused
<1>10. ASSUME NEW w \in Workers, NEW s \in Sessions, PollSleep(w, s) PROVE OnceInv'
  BY <1>10, PollSleepEffect, TimedSame DEF OnceInv, Misused
<1>11. ASSUME NEW w \in Workers, NEW s \in Sessions, PollKeepalive(w, s) PROVE OnceInv'
  BY <1>11, PollKeepaliveEffect, TimedSame DEF OnceInv, Misused
<1>12. ASSUME NEW w \in Workers, NEW s \in Sessions, PushEvent(w, s) PROVE OnceInv'
  BY <1>12, PushEventEffect, TimedSame DEF OnceInv, Misused
<1>13. ASSUME NEW w \in Workers, NEW s \in Sessions, PushQueue(w, s) PROVE OnceInv'
  BY <1>13, PushQueueEffect, TimedSame DEF OnceInv, Misused
<1>14. ASSUME NEW i \in Ids, Expire(i) PROVE OnceInv'
  <2>1. sessions[i] \in Sessions /\ cleaning = 0 /\ UNCHANGED <<memory, cleaning>>
    BY <1>14, ExpireEffect
  <2>2. memory[sessions[i]] = "live"
    BY <2>1 DEF IInv, TableInv, TableLive
  <2>3. Timed' = Timed \cup {sessions[i]}
    BY <1>14, <2>1, TimedAppend DEF Expire
  <2> QED
    BY <2>1, <2>2, <2>3 DEF OnceInv, Misused
<1>15. CASE Cleanup
  <2>1. PICK s \in Sessions :
          /\ Timed = Timed' \cup {s} /\ (RemovedOnce => s \notin Timed')
          /\ memory[s] = "live" /\ idOf[s] \notin Named => cleaning' = s
          /\ memory[s] = "live" => memory' = memory
    BY <1>15, CleanupTakes
  <2>2. memory[s] = "live"
    BY <2>1 DEF OnceInv
  <2> QED
    BY <2>1, <2>2 DEF OnceInv, Misused
<1>16. CASE SessionFree
  BY <1>16, SessionFreeEffect, TimedSame DEF OnceInv, Misused
<1>17. CASE Tick
  BY <1>17, TickEffect, TimedTick DEF OnceInv, Misused
<1>18. CASE UNCHANGED vars
  BY <1>18, StutterEffect, TimedSame DEF OnceInv, Misused
<1> QED
  BY <1>1, <1>2, <1>3, <1>4, <1>5, <1>6, <1>7, <1>8, <1>9, <1>10, <1>11, <1>12,
    <1>13, <1>14, <1>15, <1>16, <1>17, <1>18
  DEF Next, Work, Proceed, Watchdog

\* The double free of janus_session_find_destroyed has no other cause than a
\* second removal: where ids are drawn and each session is removed once, by a
\* request or by its expiry, what the watchdog destroys still exists and no
\* freed memory is ever used by it.
THEOREM RemovedOnceFreedOnce ==
  ASSUME Named = {}
  PROVE  Spec /\ []RemovedOnce => [](FoundDestroyedExists /\ ~Misused)
<1>1. Init => LeakInv /\ OnceInv
  <2> SUFFICES ASSUME Init PROVE LeakInv /\ OnceInv
    OBVIOUS
  <2>1. Timed = {} /\ cleaning = 0 /\ \A s \in Sessions : memory[s] = "none"
    BY DEF Init, Timed, Timers
  <2> QED
    BY <2>1 DEF Init, LeakInv, OnceInv, Misused
<1>2. IInv /\ LeakInv /\ [Next]_vars => LeakInv'
  BY LeakNext DEF IInv
<1>3. IInv /\ LeakInv /\ OnceInv /\ RemovedOnce /\ [Next]_vars => OnceInv'
  BY OnceNext
<1>4. OnceInv => FoundDestroyedExists /\ ~Misused
  BY DEF OnceInv, FoundDestroyedExists
<1> QED
  BY <1>1, <1>2, <1>3, <1>4, Invariance, PTL DEF Spec

=============================================================================
