------------------------------- MODULE TaskBoard -------------------------------
(***************************************************************************)
(* What the tasks of a chat are to its members, whatever the channels,     *)
(* transactions and deliveries by which they are changed: the abstract     *)
(* specification that the task lifecycle implements.  Detection finds      *)
(* tasks and never ends one; everything else is done by a request, once.   *)
(***************************************************************************)
EXTENDS Naturals

CONSTANTS Tasks, Requests,
          Rounds      \* the completions a task can have

VARIABLES life,       \* what has become of each task
          keeper,     \* the task it was merged into, or itself
          rounds,     \* how often it was completed
          verdict,    \* what was said of each completion
          acted       \* the requests that changed something

board == <<life, keeper, rounds, verdict, acted>>

Lives == {"none", "suspected", "open", "done", "cancelled"}

(* A detection run finds tasks, or becomes sure of some. *)
Detect ==
    /\ life' \in [Tasks -> Lives]
    /\ \A t \in Tasks : <<life[t], life'[t]>> \in
          {<<s, s>> : s \in Lives}
          \cup {<<"none", "suspected">>, <<"none", "open">>, <<"suspected", "open">>}
    /\ UNCHANGED <<keeper, rounds, verdict, acted>>

Moves(t, from, to) ==
    /\ life[t] \in from
    /\ life' = [life EXCEPT ![t] = to]

(* The verdict on a completion, given while it is the latest one. *)
Judges(t, from, to) ==
    /\ verdict[<<t, rounds[t]>>] \in from
    /\ verdict' = [verdict EXCEPT ![<<t, rounds[t]>>] = to]

Confirm(t) == Moves(t, {"suspected"}, "open") /\ UNCHANGED <<keeper, rounds, verdict>>

Complete(t) ==
    /\ Moves(t, {"open"}, "done")
    /\ rounds' = [rounds EXCEPT ![t] = rounds[t] + 1]
    /\ verdict[<<t, rounds[t] + 1>>] = "none"
    /\ verdict' = [verdict EXCEPT ![<<t, rounds[t] + 1>>] = "pending"]
    /\ UNCHANGED keeper

Accept(t) ==
    /\ life[t] = "done" /\ Judges(t, {"pending"}, "accepted")
    /\ UNCHANGED <<life, keeper, rounds>>

Reopen(t) ==
    /\ Moves(t, {"done"}, "open") /\ Judges(t, {"pending", "accepted"}, "rework_required")
    /\ UNCHANGED <<keeper, rounds>>

(* What was merged does not come back. *)
Restore(t) ==
    /\ keeper[t] = t /\ Moves(t, {"done", "cancelled"}, "open")
    /\ UNCHANGED <<keeper, rounds, verdict>>

Drop(t) ==
    /\ Moves(t, {"suspected", "open"}, "cancelled")
    /\ UNCHANGED <<keeper, rounds, verdict>>

Merge(t, u) ==
    /\ t # u /\ keeper[t] = t /\ keeper[u] = u /\ life[u] \notin {"none", "cancelled"}
    /\ Moves(t, {"suspected", "open", "done"}, "cancelled")
    /\ keeper' = [keeper EXCEPT ![t] = u]
    /\ UNCHANGED <<rounds, verdict>>

(* Another deadline, title or owner. *)
Correct(t) == life[t] = "open" /\ UNCHANGED <<life, keeper, rounds, verdict>>

Act(r) ==
    /\ r \notin acted /\ acted' = acted \cup {r}
    /\ \E t \in Tasks :
          \/ Confirm(t) \/ Complete(t) \/ Accept(t) \/ Reopen(t)
          \/ Restore(t) \/ Drop(t) \/ Correct(t)
          \/ \E u \in Tasks : Merge(t, u)

Init ==
    /\ life = [t \in Tasks |-> "none"]
    /\ keeper = [t \in Tasks |-> t]
    /\ rounds = [t \in Tasks |-> 0]
    /\ verdict = [s \in Tasks \X Rounds |-> "none"]
    /\ acted = {}

Next == Detect \/ \E r \in Requests : Act(r)

Spec == Init /\ [][Next]_board
=============================================================================
