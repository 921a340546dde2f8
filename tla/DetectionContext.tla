-------------------------- MODULE DetectionContext --------------------------
(***************************************************************************)
(* Which messages of a chat a detection job shows to the model, and which  *)
(* of them are its focus: conversation_through (src/app/database/          *)
(* repository.py) and TaskDetectionContextBuilder (src/app/agent/          *)
(* context.py).  A message is identified by its database id, a positive    *)
(* integer; msgs maps ids to messages.                                     *)
(***************************************************************************)
EXTENDS Integers, FiniteSets

LOCAL INSTANCE FiniteSetsExt

CONSTANTS
    ContextLimit,    \* DETECTION_WORKER_CONTEXT_LIMIT, in messages
    ContentBudget,   \* max_content_characters
    IdleGap          \* max_idle_gap, in seconds

ASSUME ContextAssumption ==
    /\ ContextLimit \in 1..100
    /\ ContentBudget \in Nat \ {0}
    /\ IdleGap \in Nat \ {0}

(* "chat" may start a detection; "command" is a human message that may not (a
   command, or one of a chat whose detection is off); "none" is no row yet. *)
MessageKinds == {"none", "chat", "command", "bot"}

(* The order of a conversation: message_created_at, then the row's id. *)
Before(msgs, m, n) ==
    \/ msgs[m].created < msgs[n].created
    \/ msgs[m].created = msgs[n].created /\ m < n

AtOrBefore(msgs, m, n) == m = n \/ Before(msgs, m, n)

Human(msgs) == {m \in DOMAIN msgs : msgs[m].kind \in {"chat", "command"}}

(* conversation_through: the newest human messages up to the trigger. *)
Window(msgs, trigger) ==
    LET upTo == {m \in Human(msgs) : AtOrBefore(msgs, m, trigger)}
    IN  {m \in upTo : Cardinality({n \in upTo : Before(msgs, m, n)}) < ContextLimit}

(* Message m of the window S comes after its last silence. *)
Connected(msgs, S, m) ==
    \A n \in S : Before(msgs, m, n) =>
        \E p \in S : /\ Before(msgs, p, n)
                     /\ msgs[n].created - msgs[p].created <= IdleGap

(* Message m and everything in S after it fit the budget; the last one always does. *)
Fits(msgs, S, m) ==
    LET from == {n \in S : AtOrBefore(msgs, m, n)}
    IN  from = {m} \/ MapThenSumSet(LAMBDA n : msgs[n].size, from) <= ContentBudget

Context(msgs, trigger) ==
    LET window == Window(msgs, trigger)
    IN  {m \in window : Connected(msgs, window, m) /\ Fits(msgs, window, m)}

(* The messages the batch that began at "since" is about. *)
Focus(msgs, trigger, since) ==
    {m \in Context(msgs, trigger) : msgs[m].received >= since}
=============================================================================
