---------------------------- MODULE CommandService ----------------------------
(***************************************************************************)
(* What the serial plugin promises to the gateway, without its threads,    *)
(* tables, memory and flags: while it is open it accepts commands, those   *)
(* of a handle just withdrawn included; it serves them one at a time in    *)
(* the order of acceptance; each meets one fate, which the handle and the  *)
(* board explain; once it closes it accepts and takes nothing more, lets   *)
(* the command in hand finish, and discards the rest.                      *)
(***************************************************************************)
EXTENDS Naturals, Sequences

CONSTANTS Handles, Bodies

VARIABLES
  phase,      \* "starting", "open", "closing", "closed"
  waiting,    \* commands accepted and not yet taken
  inHand,     \* the command being served, or Nothing
  fates,      \* what became of the commands served, in order
  withdrawn,  \* handles the gateway no longer uses
  unplugged   \* the board is gone

vars == <<phase, waiting, inHand, fates, withdrawn, unplugged>>

Nothing == [id |-> 0]

Init ==
  /\ phase = "starting" /\ waiting = <<>> /\ inHand = Nothing /\ fates = <<>>
  /\ withdrawn = {} /\ unplugged = FALSE

\* The service opens, or fails to.
Start ==
  /\ phase = "starting" /\ phase' \in {"open", "closed"}
  /\ UNCHANGED <<waiting, inHand, fates, withdrawn, unplugged>>

Accepted == Len(fates) + Len(waiting) + (IF inHand = Nothing THEN 0 ELSE 1)

Accept(h) ==
  /\ phase = "open"
  /\ \E b \in Bodies :
       waiting' = Append(waiting, [id |-> Accepted + 1, handle |-> h, body |-> b])
  /\ UNCHANGED <<phase, inHand, fates, withdrawn, unplugged>>

Take ==
  /\ phase = "open" /\ inHand = Nothing /\ waiting # <<>>
  /\ inHand' = Head(waiting) /\ waiting' = Tail(waiting)
  /\ UNCHANGED <<phase, fates, withdrawn, unplugged>>

\* A fate is never arbitrary: an answer comes from a board that was given a
\* command, an error goes to a malformed one, and only the owner of a
\* withdrawn handle hears nothing.
Explains(fate) ==
  \/ fate = "answered" /\ inHand.body = "command" /\ inHand.handle \notin withdrawn
  \/ fate = "error" /\ inHand.body = "garbage" /\ inHand.handle \notin withdrawn
  \/ fate = "stale" /\ inHand.body # "garbage" /\ unplugged
  \/ fate \in {"dropped", "rejected"} /\ inHand.handle \in withdrawn

Finish ==
  /\ inHand # Nothing
  /\ \E fate \in {"answered", "error", "stale", "dropped", "rejected"} :
       Explains(fate) /\ fates' = Append(fates, fate)
  /\ inHand' = Nothing
  /\ UNCHANGED <<phase, waiting, withdrawn, unplugged>>

Close ==
  /\ phase = "open" /\ phase' = "closing"
  /\ UNCHANGED <<waiting, inHand, fates, withdrawn, unplugged>>

Discard ==
  /\ phase = "closing" /\ inHand = Nothing
  /\ phase' = "closed" /\ waiting' = <<>>
  /\ UNCHANGED <<inHand, fates, withdrawn, unplugged>>

Withdraw(h) ==
  /\ withdrawn' = withdrawn \cup {h}
  /\ UNCHANGED <<phase, waiting, inHand, fates, unplugged>>

Unplug ==
  /\ unplugged' = TRUE
  /\ UNCHANGED <<phase, waiting, inHand, fates, withdrawn>>

Next == \/ Start \/ Take \/ Finish \/ Close \/ Discard \/ Unplug
        \/ \E h \in Handles : Accept(h) \/ Withdraw(h)

Spec == Init /\ [][Next]_vars

\* A service that is open serves what it accepted, and one that closes ends.
FairSpec == Spec /\ WF_vars(Take) /\ WF_vars(Finish) /\ WF_vars(Discard)
=============================================================================
