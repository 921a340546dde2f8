------------------------ MODULE MCNotificationQueue ------------------------
(* Instances of NotificationQueue for TLC. *)
EXTENDS NotificationQueue

CONSTANTS m1, m2

Says(member, admin, delay, selected) ==
    [memberEnabled |-> member, adminEnabled |-> admin, memberDelay |-> delay,
     adminDelay |-> delay, selected |-> selected]

\* Everybody is told after a while; or members are not, and m2 alone is alerted, earlier.
TwoPolicies == {Says(TRUE, TRUE, 20, {}), Says(FALSE, TRUE, 10, {m2})}

\* A task of one member without a deadline, to confirm or not.
TwoCreations == {[status |-> status, deadline |-> None, owners |-> {m1}] :
                    status \in {"todo", "pending"}}

Everybody == {Members}

\* Planning alone with two events, while the chat changes; deliveries with faults
\* and one change; deliveries of an event.
ThreeBudgets == {[events |-> 2, changes |-> 1, faults |-> 0, staffed |-> FALSE],
                 [events |-> 0, changes |-> 1, faults |-> 2, staffed |-> TRUE],
                 [events |-> 1, changes |-> 0, faults |-> 0, staffed |-> TRUE]}

\* A creation; the end of its delays, of a lease and of a first retry.
WorkInstants == {0, 20}
OneDeadline == {20}
=============================================================================
