--------------------------- MODULE DurableOutbox ---------------------------
(***************************************************************************)
(* What a durable queue of outgoing messages promises, whatever its        *)
(* workers, leases, retries and crashes: the abstract specification that   *)
(* the reminder queue implements.                                          *)
(***************************************************************************)
CONSTANTS Items,      \* the messages that may have to be sent
          Channels    \* the ways of sending one

VARIABLES state,      \* what the queue says of each item
          taken       \* what the recipient's side took, by (item, channel)

outbox == <<state, taken>>

States == {"none", "pending", "sent", "dropped", "dead"}

(* The moves of one item.  Sent is final, and so is dropped: the item gave way
   to another.  An item that is not wanted (any more) may become wanted again.
   A dead item can be revived, or turn out to have been sent, by a process that
   decided before it died. *)
Moves ==
    {<<s, s>> : s \in States}
    \cup {<<"none", "pending">>, <<"none", "dropped">>}
    \cup {<<"pending", s>> : s \in States}
    \cup {<<"dead", "pending">>, <<"dead", "sent">>}

Deliver(i, c) ==
    /\ taken' = taken \cup {<<i, c>>}
    /\ UNCHANGED state

(* One commit moves any number of items, or none, and records as sent only an item
   that was taken. *)
Commit ==
    /\ state' \in [Items -> States]
    /\ state' # state =>
          \A i \in Items :
             /\ <<state[i], state'[i]>> \in Moves
             /\ state'[i] = "sent" => \E c \in Channels : <<i, c>> \in taken
    /\ UNCHANGED taken

Init ==
    /\ state = [i \in Items |-> "none"]
    /\ taken = {}

Next ==
    \/ Commit
    \/ \E i \in Items, c \in Channels : Deliver(i, c)

Spec == Init /\ [][Next]_outbox
=============================================================================
