-------------------------- MODULE MCReminderQueue --------------------------
(* Instances of ReminderQueue for TLC. *)
EXTENDS ReminderQueue, TLC

\* A deadline at 18:00 in Shanghai on the tenth day, and one a day later.
D1 == 10 * Day + 10 * Hour
D2 == D1 + Day

\* Two stages close to each other, three and two hours before the deadline.
Close == [enabled |-> {"due_72h", "due_24h"}, first |-> 3, second |-> 2,
          dueHour |-> 9, grace |-> 0]

\* The last stages of a deadline, with two different grace periods.
Late  == [enabled |-> {"due_24h", "overdue"}, first |-> 3, second |-> 2,
          dueHour |-> 9, grace |-> 0]
Later == [Late EXCEPT !.second = 1, !.grace = 60]

OneDeadline  == {D1}
TwoDeadlines == {D1, D2}
ClosePolicy  == {Close}
TwoPolicies  == {Late, Later}
LastStage    == {[Late EXCEPT !.enabled = {"overdue"}]}
GracePolicies == {[p EXCEPT !.enabled = {"overdue"}] : p \in TwoPolicies}

\* The two stages of Close fall due, then their leases and retries run out.
CloseInstants == {D1 - 3 * Hour, D1 - 2 * Hour, D1 - Hour}

\* Before the plan, at its second stage, at and after the deadline.
PlanInstants == {D1 - 2 * Hour, D1, D1 + 2 * Hour}
HandoverInstants == {D1 - 2 * Hour, D1}

\* Enough instants for a crash, the recovery of its lease and the retries.
LiveInstants == {D1, D1 + 60, D1 + 120, D1 + 180}

WorkerSymmetry == Permutations(Workers)
MemberSymmetry == Permutations(Members)
=============================================================================
