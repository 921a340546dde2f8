--------------------------- MODULE MessageBatches ---------------------------
(***************************************************************************)
(* What task detection promises about the messages of a chat, whatever its *)
(* workers, leases, retries and crashes: the abstract specification that   *)
(* the detection queue implements.  Every message joins one batch; a batch *)
(* takes messages until somebody claims it, and none afterwards; it comes  *)
(* to one end, and tasks are made of it once if that end is success.       *)
(***************************************************************************)
CONSTANTS Messages,   \* a batch is known by the message it began with
          Attempts    \* the tries at a batch

VARIABLES batch,      \* the messages of each batch
          state,      \* what has become of it
          made        \* the (batch, attempt) that tasks were made of

batches == <<batch, state, made>>

States == {"none", "open", "claimed", "done", "dead", "cancelled"}

(* A message that is in no batch yet begins one or joins one that is open. *)
Join(m) ==
    /\ \A b \in Messages : m \notin batch[b]
    /\ \/ /\ state[m] = "none" /\ batch[m] = {}
          /\ batch' = [batch EXCEPT ![m] = {m}]
          /\ state' = [state EXCEPT ![m] = "open"]
       \/ \E b \in Messages :
             /\ state[b] = "open"
             /\ batch' = [batch EXCEPT ![b] = @ \cup {m}]
             /\ UNCHANGED state
    /\ UNCHANGED made

(* Claimed batches whose attempts are used up die; one open batch may be claimed. *)
Claim ==
    /\ \A b, c \in Messages :
          state[b] = "open" /\ state'[b] # "open" /\ state[c] = "open" /\ state'[c] # "open"
              => b = c
    /\ state' \in [Messages -> States]
    /\ \A b \in Messages : <<state[b], state'[b]>> \in
          {<<s, s>> : s \in States} \cup {<<"open", "claimed">>, <<"claimed", "dead">>}
    /\ UNCHANGED <<batch, made>>

(* An attempt at a claimed batch succeeds: its tasks are made with the verdict. *)
Succeed(b, a) ==
    /\ state[b] = "claimed"
    /\ state' = [state EXCEPT ![b] = "done"]
    /\ <<b, a>> \notin made
    /\ made' = made \cup {<<b, a>>}
    /\ UNCHANGED batch

(* Any batches that have no verdict are withdrawn. *)
Withdraw ==
    /\ \E B \in SUBSET {b \in Messages : state[b] \in {"open", "claimed"}} :
          state' = [b \in Messages |-> IF b \in B THEN "cancelled" ELSE state[b]]
    /\ UNCHANGED <<batch, made>>

Init ==
    /\ batch = [b \in Messages |-> {}]
    /\ state = [b \in Messages |-> "none"]
    /\ made = {}

Next ==
    \/ \E m \in Messages : Join(m)
    \/ Claim
    \/ \E b \in Messages, a \in Attempts : Succeed(b, a)
    \/ Withdraw

Spec == Init /\ [][Next]_batches
=============================================================================
