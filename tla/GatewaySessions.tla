---------------------------- MODULE GatewaySessions ----------------------------
(***************************************************************************)
(* janus-gateway/janus.c: the sessions of the gateway's clients over HTTP. *)
(* Request threads (Workers) create, use, poll and destroy sessions, a     *)
(* plugin's thread (a worker too) pushes events to them, and the watchdog  *)
(* thread expires those nobody uses and frees the destroyed ones three     *)
(* seconds later.                                                          *)
(*                                                                         *)
(* sessions_mutex covers the look-ups and insertions in the two tables,    *)
(* each one action here, and nothing else: what a thread does with the     *)
(* session it has found is a later step.  Sessions are named in the order  *)
(* of their creation, 0 is the null pointer; `memory' tells whether what a *)
(* pointer leads to is still allocated.                                    *)
(***************************************************************************)
EXTENDS Integers, Sequences, FiniteSets

CONSTANTS
  Workers,        \* threads of the HTTP server and of the plugins
  Ids,            \* session identifiers
  Named,          \* the ids that come again: applications choose them, with
                  \* "id", or 32 random bits happen to give them once more
  MaxSessions,    \* bound on the sessions created
  MaxEvents,      \* plugins push no more while this many events wait
  PollTime,       \* ticks a long poll lasts (30 seconds)
  SessionTimeout, \* ticks without activity that expire a session (60 seconds)
  CleanupDelay    \* ticks between a session's removal and its free (3 seconds)

ASSUME ConstantsAssumption ==
  /\ Named \subseteq Ids /\ MaxSessions \in Nat /\ MaxEvents \in Nat \ {0}
  /\ PollTime \in Nat /\ SessionTimeout \in Nat /\ CleanupDelay \in Nat

NoId == 0

\* "id" must be positive; with 0 an id is drawn, and never 0.
ASSUME IdsAssumption == NoId \notin Ids

\* The durations of the code, as far as safety needs them: a poll ends before
\* the session it began with can expire, and its sleep before a free.
ASSUME DurationsAssumption ==
  PollTime < SessionTimeout /\ CleanupDelay > 1

VARIABLES
  sessions, old_sessions, \* the two hash tables: a session, or 0, by id
  memory,       \* "none", "live", "freed" or, once freed, "misused", by session
  idOf,         \* session->session_id
  destroy, timeout,       \* the two flags of a session
  idle,         \* ticks since session->last_activity
  messages,     \* session->messages: "event" or "timeout"
  attached,     \* 1 while the session has a handle of a plugin
  cleanups,     \* timers of the watchdog's main loop: session and age
  cleaning,     \* session janus_session_destroy is working on, or 0
  worker        \* what each worker is doing

perSession == <<memory, idOf, destroy, timeout, idle, messages, attached>>
vars == <<sessions, old_sessions, perSession, cleanups, cleaning, worker>>

Sessions == 1..MaxSessions
Free == [op |-> "free"]

At(w, op, s) == worker[w].op = op /\ worker[w].session = s
Goto(w, op, s) ==
  worker' = [worker EXCEPT ![w] = [op |-> op, id |-> idOf[s], session |-> s,
                                   waited |-> 0]]
Return(w) == worker' = [worker EXCEPT ![w] = Free]

\* Sessions and ids that belong to a creation under way.
Reserved == {w \in Workers : worker[w].op = "create"}

-----------------------------------------------------------------------------
Init ==
  /\ sessions = [i \in Ids |-> 0] /\ old_sessions = [i \in Ids |-> 0]
  /\ memory = [s \in Sessions |-> "none"] /\ idOf = [s \in Sessions |-> NoId]
  /\ destroy = [s \in Sessions |-> 0] /\ timeout = [s \in Sessions |-> 0]
  /\ idle = [s \in Sessions |-> 0] /\ messages = [s \in Sessions |-> <<>>]
  /\ attached = [s \in Sessions |-> 0]
  /\ cleanups = <<>> /\ cleaning = 0
  /\ worker = [w \in Workers |-> Free]

-----------------------------------------------------------------------------
(***************************************************************************)
(* "create".  The id, chosen by the application or drawn at random, must   *)
(* not be in the table when it is looked up, and nothing else is looked    *)
(* at.  Those that come once only are the Unused ones.                     *)
(***************************************************************************)
Unused == (Ids \ Named) \ ({idOf[s] : s \in Sessions} \cup {worker[w].id : w \in Reserved})

Create(w) ==
  /\ worker[w] = Free
  /\ \E i \in Named \cup Unused :
       /\ sessions[i] = 0
       /\ worker' = [worker EXCEPT ![w] = [op |-> "create", id |-> i,
                                           session |-> 0, waited |-> 0]]
  /\ \E s \in Sessions : memory[s] = "none"
  /\ UNCHANGED <<sessions, old_sessions, perSession, cleanups, cleaning>>

\* The insertion does not look again.
CreateInsert(w) ==
  /\ worker[w].op = "create"
  /\ \E s \in Sessions :
       /\ memory[s] = "none" /\ \A r \in 1..(s - 1) : memory[r] # "none"
       /\ memory' = [memory EXCEPT ![s] = "live"]
       /\ idOf' = [idOf EXCEPT ![s] = worker[w].id]
       /\ sessions' = [sessions EXCEPT ![worker[w].id] = s]
  /\ Return(w)
  /\ UNCHANGED <<old_sessions, destroy, timeout, idle, messages, attached,
                 cleanups, cleaning>>

(***************************************************************************)
(* Requests on a session: the session is found, then its activity noted,   *)
(* then the request served.                                                *)
(***************************************************************************)
Requests == {"keepalive", "attach", "detach", "destroy", "poll"}

Find(w, i) ==
  /\ worker[w] = Free /\ sessions[i] # 0
  /\ \E request \in Requests : Goto(w, request, sessions[i])
  /\ UNCHANGED <<sessions, old_sessions, perSession, cleanups, cleaning>>

Served(request) ==
  CASE request = "attach" -> "attaching" [] request = "detach" -> "detaching"
    [] request = "destroy" -> "destroying" [] request = "poll" -> "pop"

\* Mutant: a long poll does not count as activity.
TouchRequestsOnly(w, s) ==
  /\ \E request \in Requests : At(w, request, s)
  /\ idle' = IF worker[w].op = "poll" THEN idle ELSE [idle EXCEPT ![s] = 0]
  /\ \/ worker[w].op = "keepalive" /\ Return(w)
     \/ worker[w].op # "keepalive" /\ Goto(w, Served(worker[w].op), s)
  /\ UNCHANGED <<sessions, old_sessions, memory, idOf, destroy, timeout,
                 messages, attached, cleanups, cleaning>>

Touch(w, s) ==
  /\ \E request \in Requests : At(w, request, s)
  /\ idle' = [idle EXCEPT ![s] = 0]
  /\ \/ worker[w].op = "keepalive" /\ Return(w)
     \/ worker[w].op # "keepalive" /\ Goto(w, Served(worker[w].op), s)
  /\ UNCHANGED <<sessions, old_sessions, memory, idOf, destroy, timeout,
                 messages, attached, cleanups, cleaning>>

\* The handle's creation and destruction belong to the ICE code.
Attach(w, s) ==
  /\ \/ At(w, "attaching", s) /\ attached' = [attached EXCEPT ![s] = 1]
     \/ At(w, "detaching", s) /\ attached' = [attached EXCEPT ![s] = 0]
  /\ Return(w)
  /\ UNCHANGED <<sessions, old_sessions, memory, idOf, destroy, timeout, idle,
                 messages, cleanups, cleaning>>

\* "destroy" sets the flag first ...
DestroyFlag(w, s) ==
  /\ At(w, "destroying", s)
  /\ destroy' = [destroy EXCEPT ![s] = 1]
  /\ Goto(w, "removing", s)
  /\ UNCHANGED <<sessions, old_sessions, memory, idOf, timeout, idle, messages,
                 attached, cleanups, cleaning>>

\* Mutant: the session stays in the table until it is freed.
DestroyRemoveLazily(w, s) ==
  /\ At(w, "removing", s)
  /\ old_sessions' = [old_sessions EXCEPT ![idOf[s]] = s]
  /\ cleanups' = Append(cleanups, [session |-> s, age |-> 0])
  /\ Return(w)
  /\ UNCHANGED <<sessions, perSession, cleaning>>

\* Mutant: no timer is set.
DestroyRemoveUntimed(w, s) ==
  /\ At(w, "removing", s)
  /\ sessions' = [sessions EXCEPT ![idOf[s]] = 0]
  /\ old_sessions' = [old_sessions EXCEPT ![idOf[s]] = s]
  /\ Return(w)
  /\ UNCHANGED <<perSession, cleanups, cleaning>>

\* ... then takes the mutex and moves the id, whatever it now stands for.
DestroyRemove(w, s) ==
  /\ At(w, "removing", s)
  /\ sessions' = [sessions EXCEPT ![idOf[s]] = 0]
  /\ old_sessions' = [old_sessions EXCEPT ![idOf[s]] = s]
  /\ cleanups' = Append(cleanups, [session |-> s, age |-> 0])
  /\ Return(w)
  /\ UNCHANGED <<perSession, cleaning>>

(***************************************************************************)
(* The long poll: one look at the queue, then, if it is empty, a second    *)
(* look-up of the session and a loop that sleeps between looks.            *)
(***************************************************************************)
\* One event, or as many as "maxev" allows, go to the client.
Deliver(w, s) ==
  /\ messages[s] # <<>>
  /\ \E n \in 1..Len(messages[s]) :
       messages' = [messages EXCEPT ![s] = SubSeq(@, n + 1, Len(@))]
  /\ Return(w)

PollFirst(w, s) ==
  /\ At(w, "pop", s)
  /\ \/ Deliver(w, s)
     \/ /\ messages[s] = <<>>
        /\ LET found == sessions[worker[w].id] IN
             \/ found = 0 /\ Return(w)
             \/ found # 0 /\ Goto(w, "look", found)
        /\ UNCHANGED messages
  /\ UNCHANGED <<sessions, old_sessions, memory, idOf, destroy, timeout, idle,
                 attached, cleanups, cleaning>>

\* Mutant: the loop sleeps on when the session has been destroyed.
PollSleepBlind(w, s) ==
  /\ At(w, "look", s) /\ worker[w].waited < PollTime
  /\ messages[s] = <<>>
  /\ worker' = [worker EXCEPT ![w].op = "sleep"]
  /\ UNCHANGED <<sessions, old_sessions, perSession, cleanups, cleaning>>

PollDeliver(w, s) ==
  /\ At(w, "look", s) /\ worker[w].waited < PollTime
  /\ Deliver(w, s)
  /\ UNCHANGED <<sessions, old_sessions, memory, idOf, destroy, timeout, idle,
                 attached, cleanups, cleaning>>

PollSleep(w, s) ==
  /\ At(w, "look", s) /\ worker[w].waited < PollTime
  /\ messages[s] = <<>> /\ destroy[s] = 0
  /\ worker' = [worker EXCEPT ![w].op = "sleep"]
  /\ UNCHANGED <<sessions, old_sessions, perSession, cleanups, cleaning>>

\* No event came, or the session was destroyed: the client gets a keep-alive.
PollKeepalive(w, s) ==
  /\ At(w, "look", s)
  /\ worker[w].waited = PollTime \/ (messages[s] = <<>> /\ destroy[s] = 1)
  /\ Return(w)
  /\ UNCHANGED <<sessions, old_sessions, perSession, cleanups, cleaning>>

(***************************************************************************)
(* janus_push_event: the plugin's handle leads to the session; the flag is *)
(* read, then the event queued, without a mutex.                           *)
(***************************************************************************)
PushEvent(w, s) ==
  /\ worker[w] = Free /\ attached[s] = 1 /\ destroy[s] = 0
  /\ Len(messages[s]) < MaxEvents
  /\ Goto(w, "push", s)
  /\ UNCHANGED <<sessions, old_sessions, perSession, cleanups, cleaning>>

PushQueue(w, s) ==
  /\ At(w, "push", s)
  /\ messages' = [messages EXCEPT ![s] = Append(@, "event")]
  /\ Return(w)
  /\ UNCHANGED <<sessions, old_sessions, memory, idOf, destroy, timeout, idle,
                 attached, cleanups, cleaning>>

Work(w) == \/ Create(w) \/ \E i \in Ids : Find(w, i)
           \/ \E s \in Sessions : PushEvent(w, s)

Proceed(w) ==
  \/ CreateInsert(w)
  \/ \E s \in Sessions :
       \/ Touch(w, s) \/ Attach(w, s) \/ DestroyFlag(w, s) \/ DestroyRemove(w, s)
       \/ PollFirst(w, s) \/ PollDeliver(w, s) \/ PollSleep(w, s)
       \/ PollKeepalive(w, s) \/ PushQueue(w, s)

-----------------------------------------------------------------------------
(***************************************************************************)
(* The watchdog thread: one main loop runs the two-second check and the    *)
(* timers of the removed sessions, which all have the same delay.          *)
(***************************************************************************)
\* Mutant: a session with a handle does not expire.
ExpireDetached(i) == LET s == sessions[i] IN
  /\ cleaning = 0
  /\ s # 0 /\ destroy[s] = 0 /\ timeout[s] = 0 /\ idle[s] >= SessionTimeout
  /\ attached[s] = 0
  /\ messages' = [messages EXCEPT ![s] = Append(@, "timeout")]
  /\ timeout' = [timeout EXCEPT ![s] = 1]
  /\ sessions' = [sessions EXCEPT ![i] = 0]
  /\ old_sessions' = [old_sessions EXCEPT ![i] = s]
  /\ cleanups' = Append(cleanups, [session |-> s, age |-> 0])
  /\ UNCHANGED <<memory, idOf, destroy, idle, attached, cleaning, worker>>

\* What one round does to one expired session; rounds over several sessions
\* are sequences of these.
Expire(i) == LET s == sessions[i] IN
  /\ cleaning = 0
  /\ s # 0 /\ destroy[s] = 0 /\ timeout[s] = 0 /\ idle[s] >= SessionTimeout
  /\ messages' = [messages EXCEPT ![s] = Append(@, "timeout")]
  /\ timeout' = [timeout EXCEPT ![s] = 1]
  /\ sessions' = [sessions EXCEPT ![i] = 0]
  /\ old_sessions' = [old_sessions EXCEPT ![i] = s]
  /\ cleanups' = Append(cleanups, [session |-> s, age |-> 0])
  /\ UNCHANGED <<memory, idOf, destroy, idle, attached, cleaning, worker>>

Due == cleanups # <<>> /\ Head(cleanups).age >= CleanupDelay

\* The timer's session gives an id, the id a session to destroy: its handles
\* go, the id stays in old_sessions.  What a freed session gives is any id, or
\* one that leads nowhere.
Cleanup ==
  /\ cleaning = 0 /\ Due
  /\ LET s == Head(cleanups).session IN
       /\ \E i \in IF memory[s] = "live" THEN {idOf[s]} ELSE Ids \cup {NoId} :
            cleaning' = IF i = NoId THEN 0 ELSE old_sessions[i]
       /\ memory' = IF memory[s] = "live" THEN memory
                                          ELSE [memory EXCEPT ![s] = "misused"]
  /\ destroy' = [r \in Sessions |-> IF r = cleaning' THEN 1 ELSE destroy[r]]
  /\ attached' = [r \in Sessions |-> IF r = cleaning' THEN 0 ELSE attached[r]]
  /\ cleanups' = Tail(cleanups)
  /\ UNCHANGED <<sessions, old_sessions, idOf, timeout, idle, messages, worker>>

SessionFree ==
  /\ cleaning # 0
  /\ memory' = [memory EXCEPT ![cleaning] = IF @ = "live" THEN "freed" ELSE "misused"]
  /\ messages' = [messages EXCEPT ![cleaning] = <<>>]
  /\ cleaning' = 0
  /\ UNCHANGED <<sessions, old_sessions, idOf, destroy, timeout, idle,
                 attached, cleanups, worker>>

Watchdog == (\E i \in Ids : Expire(i)) \/ Cleanup \/ SessionFree

(***************************************************************************)
(* A tick is longer than any step of a thread and than the poll's sleep.   *)
(***************************************************************************)
\* Mutant: one tick too many.
AtMostLoose(bound, n) == IF n <= bound THEN n + 1 ELSE n

AtMost(bound, n) == IF n < bound THEN n + 1 ELSE n

Tick ==
  /\ \A w \in Workers : worker[w].op \in {"free", "sleep"}
  /\ idle' = [s \in Sessions |-> IF memory[s] = "live"
                                 THEN AtMost(SessionTimeout, idle[s]) ELSE idle[s]]
  /\ cleanups' = [n \in DOMAIN cleanups |->
                   [cleanups[n] EXCEPT !.age = AtMost(CleanupDelay, @)]]
  /\ worker' = [w \in Workers |->
                 IF worker[w] = Free THEN Free
                 ELSE [worker[w] EXCEPT !.op = "look", !.waited = @ + 1]]
  /\ UNCHANGED <<sessions, old_sessions, memory, idOf, destroy, timeout,
                 messages, attached, cleaning>>

Next == (\E w \in Workers : Work(w) \/ Proceed(w)) \/ Watchdog \/ Tick

Spec == Init /\ [][Next]_vars

\* A state in which nothing is left to age.
Still == /\ \A s \in Sessions : memory[s] = "live" => idle[s] = SessionTimeout
         /\ \A n \in DOMAIN cleanups : cleanups[n].age = CleanupDelay
         /\ \A w \in Workers : worker[w].op # "sleep"

\* Threads run and time passes, however many requests a tick sees; no client
\* owes the gateway a request.
FairSpec == Spec /\ WF_vars(Watchdog) /\ \A w \in Workers : WF_vars(Proceed(w))
                 /\ ([]<><<Tick>>_vars \/ []<>Still)

-----------------------------------------------------------------------------
WorkerOps == Requests \cup {"attaching", "detaching", "destroying", "removing",
                            "pop", "look", "sleep", "push", "create"}

TypeOK ==
  /\ sessions \in [Ids -> 0..MaxSessions] /\ old_sessions \in [Ids -> 0..MaxSessions]
  /\ memory \in [Sessions -> {"none", "live", "freed", "misused"}]
  /\ idOf \in [Sessions -> Ids \cup {NoId}]
  /\ destroy \in [Sessions -> 0..1] /\ timeout \in [Sessions -> 0..1]
  /\ idle \in [Sessions -> 0..SessionTimeout]
  /\ messages \in [Sessions -> Seq({"event", "timeout"})]
  /\ attached \in [Sessions -> 0..1]
  /\ cleanups \in Seq([session : Sessions, age : 0..CleanupDelay])
  /\ cleaning \in 0..MaxSessions
  /\ worker \in [Workers -> {Free} \cup
       [op : WorkerOps, id : Ids, session : 0..MaxSessions, waited : 0..PollTime]]

\* A session the table gives out exists, under its own id and under no other,
\* and the table of the old ones never shares one with it.
TableLive == \A i \in Ids : LET s == sessions[i] IN
  s # 0 => memory[s] = "live" /\ idOf[s] = i /\ old_sessions[i] # s

\* A session is freed only when no thread works on it: requests end before
\* the three seconds are over, and a long poll, which may last longer, notices
\* the destruction in its next look or keeps its session from expiring.  (An id
\* named again lets an old timer free a new session, and after a use of freed
\* memory, which FoundDestroyedExists is about, nothing holds.)
Misused == \E s \in Sessions : memory[s] = "misused"
UserMemory == ~Misused => \A w \in Workers, s \in Sessions :
  worker[w] # Free /\ worker[w].op # "push" /\ worker[w].session = s
    /\ idOf[s] \notin Named => memory[s] = "live"

\* No session expires under a long poll.
PollProtects == \A w \in Workers, s \in Sessions :
  worker[w].op \in {"look", "sleep"} /\ worker[w].session = s => timeout[s] = 0

\* No session is lost: one that lives is in the table, or a timer leads to it, or
\* the watchdog is destroying it.  (A creation that names an id again may drop a
\* session from the table, and a destruction drops whatever has the id now.)
NothingLeaks == \A s \in Sessions :
  memory[s] = "live" /\ idOf[s] \notin Named =>
    \/ sessions[idOf[s]] = s \/ cleaning = s
    \/ \E n \in DOMAIN cleanups : cleanups[n].session = s

\* The session that janus_session_find_destroyed returns still exists.
FoundDestroyedExists == cleaning # 0 => memory[cleaning] = "live"

\* Each session is removed by one request or expiry only.
RemovedOnce == \A m, n \in DOMAIN cleanups :
  cleanups[m].session = cleanups[n].session => m = n

\* A destroyed or expired session is freed.
Reclaimed == \A s \in Sessions :
  destroy[s] = 1 \/ timeout[s] = 1 ~> memory[s] # "live"

\* A session that its client abandons is freed.
Abandoned(s) == \A w \in Workers : worker[w] = Free \/ worker[w].session # s
AbandonedReclaimed == \A s \in Sessions :
  memory[s] = "live" ~> memory[s] # "live" \/ ~Abandoned(s)
=============================================================================
