----------------------- MODULE NotificationQueueProofs -----------------------
(***************************************************************************)
(* Proofs about NotificationQueue, for every value of its constants.       *)
(***************************************************************************)
EXTENDS NotificationQueue, FiniteSetTheorems, TLAPS

-----------------------------------------------------------------------------
(* Rows: what each operator on a row returns. *)

Good(r) == r \in Notification /\ RowChecks(r)

Reasons == {"policy", "disabled", "withdrawn"}

LEMMA SetField ==
    ASSUME NEW r \in Notification
    PROVE  /\ \A x \in {"absent", "scheduled", "leased", "sent", "cancelled", "dead"} :
                  [r EXCEPT !.status = x] \in Notification
           /\ \A x \in 0..MaxAttempts : [r EXCEPT !.attempt = x] \in Notification
           /\ \A x \in WorkerIds \cup {None} : [r EXCEPT !.worker = x] \in Notification
           /\ [r EXCEPT !.expires = 0] \in Notification
           /\ \A x \in Int : [r EXCEPT !.expires = x] \in Notification
           /\ \A x \in Int : [r EXCEPT !.due = x] \in Notification
           /\ \A x \in Int : [r EXCEPT !.ready = x] \in Notification
           /\ \A x \in Reasons \cup {None} : [r EXCEPT !.reason = x] \in Notification
  BY DEF Notification, Reasons

LEMMA UnleasedRow ==
    ASSUME NEW r \in Notification
    PROVE  /\ Unleased(r) \in Notification
           /\ Unleased(r).status = r.status /\ Unleased(r).attempt = r.attempt
           /\ Unleased(r).worker = None /\ Unleased(r).reason = r.reason
           /\ Unleased(r).due = r.due /\ Unleased(r).ready = r.ready
<1>. DEFINE a == [r EXCEPT !.worker = None]
<1>1. a \in Notification
  BY SetField
<1>2. [a EXCEPT !.expires = 0] \in Notification
  <2>. HIDE DEF a
  <2>. QED  BY <1>1, SetField
<1>3. Unleased(r) = [a EXCEPT !.expires = 0]
  BY DEF Unleased, Notification
<1>4. /\ Unleased(r).status = r.status /\ Unleased(r).attempt = r.attempt
      /\ Unleased(r).worker = None /\ Unleased(r).reason = r.reason
      /\ Unleased(r).due = r.due /\ Unleased(r).ready = r.ready
  BY DEF Unleased, Notification
<1>. QED
  BY <1>2, <1>3, <1>4

LEMMA DeadRow ==
    ASSUME NEW r \in Notification
    PROVE  /\ Dead(r) \in Notification
           /\ Dead(r).status = "dead" /\ Dead(r).attempt = r.attempt
           /\ Dead(r).worker = None /\ Dead(r).reason = r.reason
<1>. DEFINE u == Unleased(r)
<1>1. /\ u \in Notification /\ u.attempt = r.attempt /\ u.worker = None
      /\ u.reason = r.reason
  BY UnleasedRow
<1>2. Dead(r) = [u EXCEPT !.status = "dead"]
  BY DEF Dead
<1>. HIDE DEF u
<1>3. Dead(r) \in Notification
  BY <1>1, <1>2, SetField
<1>. QED
  BY <1>1, <1>2, <1>3 DEF Notification

LEMMA SentRowFit ==
    ASSUME NEW r \in Notification
    PROVE  LET s == [Unleased(r) EXCEPT !.status = "sent"]
           IN  s \in Notification /\ s.status = "sent" /\ s.reason = r.reason
<1>. DEFINE u == Unleased(r)
            s == [u EXCEPT !.status = "sent"]
<1>1. u \in Notification /\ u.reason = r.reason
  BY UnleasedRow
<1>. HIDE DEF u
<1>2. s \in Notification
  BY <1>1, SetField
<1>3. s.status = "sent" /\ s.reason = r.reason
  BY <1>1 DEF Notification
<1>. QED
  BY <1>2, <1>3 DEF u

LEMMA RetriedRow ==
    ASSUME NEW r \in Notification, NEW at \in Int
    PROVE  /\ Retried(r, at) \in Notification
           /\ Retried(r, at).status = "scheduled" /\ Retried(r, at).attempt = r.attempt
           /\ Retried(r, at).worker = None /\ Retried(r, at).reason = r.reason
           /\ Retried(r, at).due = r.due /\ Retried(r, at).ready = at
<1>. DEFINE u == Unleased(r)
            b == [u EXCEPT !.status = "scheduled"]
<1>1. /\ u \in Notification /\ u.attempt = r.attempt /\ u.worker = None
      /\ u.reason = r.reason /\ u.due = r.due
  BY UnleasedRow
<1>2. Retried(r, at) = [u EXCEPT !.status = "scheduled", !.ready = at]
  BY DEF Retried
<1>. HIDE DEF u
<1>3. b \in Notification
  BY <1>1, SetField
<1>4. [b EXCEPT !.ready = at] \in Notification
  <2>. HIDE DEF b
  <2>. QED  BY <1>3, SetField
<1>5. Retried(r, at) = [b EXCEPT !.ready = at]
  BY <1>1, <1>2 DEF Notification
<1>6. Retried(r, at) \in Notification
  BY <1>4, <1>5
<1>. QED
  BY <1>1, <1>2, <1>6 DEF Notification

LEMMA CancelledRow ==
    ASSUME NEW r \in Notification, NEW why \in Reasons
    PROVE  /\ Cancelled(r, why) \in Notification
           /\ Cancelled(r, why).status = "cancelled"
           /\ Cancelled(r, why).attempt = r.attempt
           /\ Cancelled(r, why).worker = None /\ Cancelled(r, why).reason = why
<1>. DEFINE u == Unleased(r)
            b == [u EXCEPT !.status = "cancelled"]
<1>1. u \in Notification /\ u.attempt = r.attempt /\ u.worker = None
  BY UnleasedRow
<1>2. Cancelled(r, why) = [u EXCEPT !.status = "cancelled", !.reason = why]
  BY DEF Cancelled
<1>. HIDE DEF u
<1>3. b \in Notification
  BY <1>1, SetField
<1>4. [b EXCEPT !.reason = why] \in Notification
  <2>. HIDE DEF b
  <2>. QED  BY <1>3, SetField
<1>5. Cancelled(r, why) = [b EXCEPT !.reason = why]
  BY <1>1, <1>2 DEF Notification
<1>6. Cancelled(r, why) \in Notification
  BY <1>4, <1>5
<1>. QED
  BY <1>1, <1>2, <1>6 DEF Notification

LEMMA NoRowGood ==
    /\ Good(NoRow) /\ NoRow.attempt = 0 /\ NoRow.worker = None /\ NoRow.reason = None
    /\ NoRow.status = "absent"
<1>1. 0 \in 0..MaxAttempts /\ 0 <= MaxAttempts
  BY LimitAssumption DEF LimitAssumption
<1>. QED
  BY <1>1 DEF NoRow, Notification, RowChecks, Good

LEMMA PlannedRow ==
    ASSUME NEW at \in Int
    PROVE  /\ Good(Planned(at))
           /\ Planned(at).status = "scheduled" /\ Planned(at).attempt = 0
<1>. DEFINE n == NoRow
            a == [n EXCEPT !.status = "scheduled"]
            b == [a EXCEPT !.due = at]
<1>1. /\ n \in Notification /\ n.attempt = 0 /\ n.worker = None /\ n.reason = None
  BY NoRowGood DEF Good
<1>2. Planned(at) = [n EXCEPT !.status = "scheduled", !.due = at, !.ready = at]
  BY DEF Planned
<1>. HIDE DEF n
<1>3. a \in Notification
  BY <1>1, SetField
<1>4. b \in Notification
  <2>. HIDE DEF a
  <2>. QED  BY <1>3, SetField
<1>5. [b EXCEPT !.ready = at] \in Notification
  <2>. HIDE DEF b
  <2>. QED  BY <1>4, SetField
<1>6. Planned(at) = [b EXCEPT !.ready = at]
  BY <1>1, <1>2 DEF Notification
<1>7. /\ Planned(at).status = "scheduled" /\ Planned(at).attempt = 0
      /\ Planned(at).worker = None /\ Planned(at).reason = None
  BY <1>1, <1>2 DEF Notification
<1>8. RowChecks(Planned(at))
  BY <1>7, LimitAssumption DEF LimitAssumption, RowChecks
<1>. QED
  BY <1>5, <1>6, <1>7, <1>8 DEF Good

LEMMA MovedRow ==
    ASSUME NEW r, Good(r), Active(r), NEW at \in Int
    PROVE  /\ Good(Moved(r, at))
           /\ Moved(r, at).status = "scheduled" /\ Moved(r, at).attempt = r.attempt
           /\ r.status = "scheduled" /\ r.attempt > 0 => Moved(r, at).ready >= r.ready
<1>. DEFINE m == Moved(r, at)
            q == Retried(r, at)
<1>0. /\ r \in Notification /\ r.attempt \in 0..MaxAttempts /\ r.reason = None
      /\ r.attempt <= MaxAttempts /\ r.status \in {"scheduled", "leased"}
      /\ r.status = "scheduled" => r.worker = None
  BY DEF Good, Active, RowChecks, Notification
<1>1. CASE r.status = "leased" \/ r.attempt = 0
  <2>1. /\ q \in Notification /\ q.status = "scheduled" /\ q.attempt = r.attempt
        /\ q.worker = None /\ q.reason = None
    BY <1>0, RetriedRow
  <2>2. m = [q EXCEPT !.due = at]
    BY <1>1 DEF Moved
  <2>. HIDE DEF q, m
  <2>3. m \in Notification
    BY <2>1, <2>2, SetField
  <2>4. m.status = "scheduled" /\ m.attempt = r.attempt /\ m.worker = None /\ m.reason = None
    BY <2>1, <2>2 DEF Notification
  <2>5. RowChecks(m)
    BY <1>0, <2>4 DEF RowChecks
  <2>6. ~(r.status = "scheduled" /\ r.attempt > 0)
    BY <1>0, <1>1
  <2>. QED
    BY <2>3, <2>4, <2>5, <2>6 DEF Good, m
<1>2. CASE ~(r.status = "leased" \/ r.attempt = 0)
  <2>. DEFINE b == [r EXCEPT !.due = at]
              x == IF r.ready > at THEN r.ready ELSE at
  <2>1. r.ready \in Int
    BY <1>0 DEF Notification
  <2>2. x \in Int /\ x >= r.ready
    BY <2>1
  <2>3. m = [b EXCEPT !.ready = x]
    BY <1>0, <1>2 DEF Moved, Notification
  <2>4. b \in Notification
    BY <1>0, SetField
  <2>. HIDE DEF b, m, x
  <2>5. m \in Notification
    BY <2>2, <2>3, <2>4, SetField
  <2>6. b.status = "scheduled" /\ b.attempt = r.attempt /\ b.worker = None /\ b.reason = None
    BY <1>0, <1>2 DEF Notification, b
  <2>7. /\ m.status = "scheduled" /\ m.attempt = r.attempt /\ m.worker = None
        /\ m.reason = None /\ m.ready = x
    BY <2>3, <2>4, <2>6 DEF Notification
  <2>8. RowChecks(m)
    BY <1>0, <2>7 DEF RowChecks
  <2>. QED
    BY <2>2, <2>5, <2>7, <2>8 DEF Good, m
<1>. QED
  BY <1>1, <1>2

LEMMA LeasedRow ==
    ASSUME NEW r \in Notification, NEW w \in Workers, run[w] \in 1..MaxRuns, now \in Int,
           RowChecks(Leased(w, r)), r.attempt >= 0
    PROVE  /\ Leased(w, r) \in Notification
           /\ Leased(w, r).status = "leased" /\ Leased(w, r).attempt = r.attempt + 1
           /\ Leased(w, r).worker = WorkerId(w)
<1>. DEFINE a == [r EXCEPT !.status = "leased"]
            b == [a EXCEPT !.attempt = r.attempt + 1]
            c == [b EXCEPT !.worker = WorkerId(w)]
<1>1. /\ Leased(w, r).status = "leased" /\ Leased(w, r).attempt = r.attempt + 1
      /\ Leased(w, r).worker = WorkerId(w)
  BY DEF Leased, Notification
<1>2. r.attempt + 1 \in 0..MaxAttempts
  BY <1>1, LimitAssumption DEF LimitAssumption, RowChecks, Notification
<1>3. WorkerId(w) \in WorkerIds
  BY DEF WorkerId, WorkerIds
<1>4. now + LeaseSeconds \in Int
  BY LimitAssumption DEF LimitAssumption
<1>5. a \in Notification
  BY SetField
<1>6. b \in Notification
  <2>. HIDE DEF a
  <2>. QED  BY <1>2, <1>5, SetField
<1>7. c \in Notification
  <2>. HIDE DEF b
  <2>. QED  BY <1>3, <1>6, SetField
<1>8. [c EXCEPT !.expires = now + LeaseSeconds] \in Notification
  <2>. HIDE DEF c
  <2>. QED  BY <1>4, <1>7, SetField
<1>9. Leased(w, r) = [c EXCEPT !.expires = now + LeaseSeconds]
  BY DEF Leased, Notification
<1>. QED
  BY <1>1, <1>8, <1>9

-----------------------------------------------------------------------------
(* The passes of a transaction over the rows. *)

(* What a synchronization may make of a row. *)
Synced(r, s) ==
    \/ s = r
    \/ r.status \in {"absent", "cancelled"} /\ \E at \in Int : s = Planned(at)
    \/ Active(r) /\ \E at \in Int : s = Moved(r, at)
    \/ Active(r) /\ \E why \in Reasons : s = Cancelled(r, why)

(* A failed row that waits is not ready earlier. *)
KeepsBackoff(r, s) ==
    (/\ r.status = "scheduled" /\ r.attempt > 0
     /\ s.status = "scheduled" /\ s.attempt = r.attempt) => s.ready >= r.ready

(* What every transaction but those of a worker in hand of a lease may make of a
   row: rows that ended as sent or dead stay, nothing becomes absent, leased or
   sent, and only a lease is given up as dead. *)
Passes(r, s) ==
    /\ Good(s)
    /\ s.status \in {"absent", "leased", "sent"} => s = r
    /\ s.status = "dead" => s = r \/ r.status = "leased"
    /\ r.status \in {"sent", "dead"} => s = r
    /\ r.status \in {"absent", "cancelled"} => s = r \/ s.status = "scheduled"
    /\ KeepsBackoff(r, s)

LEMMA PassSame ==
    ASSUME NEW r, Good(r)
    PROVE  Passes(r, r)
<1>1. r.ready \in Int
  BY DEF Good, Notification
<1>. QED
  BY <1>1 DEF Passes, KeepsBackoff

LEMMA PassSynced ==
    ASSUME NEW r, Good(r), NEW s, Synced(r, s)
    PROVE  Passes(r, s)
<1>1. CASE s = r
  BY <1>1, PassSame
<1>2. ASSUME r.status \in {"absent", "cancelled"}, NEW at \in Int, s = Planned(at)
      PROVE  Passes(r, s)
  <2>1. Good(s) /\ s.status = "scheduled"
    BY <1>2, PlannedRow
  <2>. QED
    BY <1>2, <2>1 DEF Passes, KeepsBackoff
<1>3. ASSUME Active(r), NEW at \in Int, s = Moved(r, at)
      PROVE  Passes(r, s)
  <2>1. Good(s) /\ s.status = "scheduled" /\ KeepsBackoff(r, s)
    BY <1>3, MovedRow DEF KeepsBackoff
  <2>. QED
    BY <1>3, <2>1 DEF Passes, Active
<1>4. ASSUME Active(r), NEW why \in Reasons, s = Cancelled(r, why)
      PROVE  Passes(r, s)
  <2>1. /\ s \in Notification /\ s.status = "cancelled" /\ s.attempt = r.attempt
        /\ s.worker = None /\ s.reason = why
    BY <1>4, CancelledRow DEF Good
  <2>2. why # None /\ r.attempt <= MaxAttempts
    BY NullAssumption DEF NullAssumption, Reasons, Good, RowChecks
  <2>3. Good(s)
    BY <2>1, <2>2 DEF Good, RowChecks
  <2>. QED
    BY <1>4, <2>1, <2>3 DEF Passes, Active, KeepsBackoff
<1>. QED
  BY <1>1, <1>2, <1>3, <1>4 DEF Synced

LEMMA EnsuredSynced ==
    ASSUME NEW r, Good(r), NEW at \in Int
    PROVE  Synced(r, Ensured(r, at))
<1>1. r.reason = "policy" => r.status = "cancelled"
  BY NullAssumption DEF NullAssumption, Good, RowChecks
<1>. QED
  BY <1>1 DEF Synced, Ensured

(* The part of the type invariant that the passes read. *)
Tables ==
    /\ now \in Nat /\ task \in [Tasks -> TaskRow]
    /\ event \in Seq(Event) /\ policy \in ChatPolicy
    /\ row \in [Keys -> Notification] /\ \A k \in Keys : RowChecks(row[k])
    /\ cursor \in 0..Len(event) /\ deferred \subseteq 1..cursor

LEMMA TypeOKTables == TypeOK => Tables
  BY TimeAssumption, PolicyAssumption
     DEF TypeOK, Tables, TimeAssumption, PolicyAssumption

LEMMA KeyParts ==
    ASSUME NEW k \in Keys
    PROVE  /\ k.task \in Tasks /\ k.member \in Members
           /\ k.kind \in {"assigned", "missing_member", "missing_admin", "overdue",
                          "event_member", "event_admin"}
           /\ k = [task |-> k.task, member |-> k.member, kind |-> k.kind, about |-> k.about]
           /\ k.kind \in {"event_member", "event_admin"} => k.about \in 1..MaxEvents
  BY DEF Keys

LEMMA MomentIsInt ==
    ASSUME Tables, NEW k \in Keys
    PROVE  MissingMoment(k) \in Int
<1>1. task[k.task].created \in Nat
  BY KeyParts DEF Tables, TaskRow
<1>2. policy.memberDelay \in Nat /\ policy.adminDelay \in Nat
  BY DEF Tables, ChatPolicy
<1>. QED
  BY <1>1, <1>2 DEF MissingMoment, MissingStage

LEMMA UnreadEvents ==
    ASSUME Tables
    PROVE  /\ Unread \subseteq 1..Len(event)
           /\ \A e \in Unread : event[e] \in Event /\ event[e].at \in Int
<1>1. Len(event) \in Nat /\ cursor \in Nat
  BY DEF Tables
<1>2. Unread \subseteq 1..Len(event)
  <2>1. deferred \subseteq 1..cursor /\ cursor <= Len(event)
    BY <1>1 DEF Tables
  <2>2. ASSUME NEW e \in Unread
        PROVE  e \in 1..Len(event)
    <3>. DEFINE n == Len(event)
    <3>1. e \in (cursor + 1)..n \/ e \in 1..cursor
      BY <2>1 DEF Unread
    <3>2. n \in Nat /\ cursor <= n
      BY <1>1, <2>1
    <3>. HIDE DEF n
    <3>3. e \in 1..n
      BY <1>1, <3>1, <3>2
    <3>. QED
      BY <3>3 DEF n
  <2>. QED
    BY <2>2
<1>3. \A e \in 1..Len(event) : event[e] \in Event
  BY DEF Tables
<1>4. \A x \in Event : x.at \in Int
  <2>1. \A x \in Event : x.at \in Instants
    BY DEF Event
  <2>2. \A i \in Instants : i \in Int
    BY TimeAssumption DEF TimeAssumption
  <2>. QED
    BY <2>1, <2>2
<1>. QED
  BY <1>2, <1>3, <1>4

LEMMA MissingSynced ==
    ASSUME Tables, NEW k \in Keys, NEW r, Good(r)
    PROVE  Synced(r, SyncMissing(k, r))
<1>1. MissingMoment(k) \in Int
  BY MomentIsInt
<1>2. r.reason \in {"policy", "disabled"} => r.status = "cancelled"
  BY NullAssumption DEF NullAssumption, Good, RowChecks
<1>3. WhyNotMissing(k) \in Reasons
  BY DEF WhyNotMissing, Reasons
<1>4. \/ SyncMissing(k, r) = r
      \/ /\ r.status = "absent" \/ r.reason \in {"policy", "disabled"}
         /\ SyncMissing(k, r) = Planned(MissingMoment(k))
      \/ Active(r) /\ SyncMissing(k, r) = Moved(r, MissingMoment(k))
      \/ Active(r) /\ SyncMissing(k, r) = Cancelled(r, WhyNotMissing(k))
  BY DEF SyncMissing
<1>. QED
  BY <1>1, <1>2, <1>3, <1>4 DEF Synced

LEMMA OverdueSynced ==
    ASSUME Tables, NEW k \in Keys, NEW r, Good(r)
    PROVE  Synced(r, SyncOverdue(k, r))
<1>1. now \in Int
  BY DEF Tables
<1>2. \/ SyncOverdue(k, r) = r
      \/ SyncOverdue(k, r) = Ensured(r, now)
      \/ \E why \in Reasons : Active(r) /\ SyncOverdue(k, r) = Cancelled(r, why)
  BY DEF SyncOverdue, Reasons
<1>. QED
  BY <1>1, <1>2, EnsuredSynced DEF Synced

LEMMA EventSynced ==
    ASSUME Tables, NEW k \in Keys, NEW r, Good(r)
    PROVE  Synced(r, SyncEvent(k, r))
<1>1. \/ SyncEvent(k, r) = r
      \/ k.about \in Unread /\ SyncEvent(k, r) = Ensured(r, event[k.about].at)
      \/ \E why \in Reasons : Active(r) /\ SyncEvent(k, r) = Cancelled(r, why)
  BY DEF SyncEvent, Reasons
<1>. QED
  BY <1>1, EnsuredSynced, UnreadEvents DEF Synced

LEMMA RowSynced ==
    ASSUME Tables, NEW k \in Keys, NEW r, Good(r)
    PROVE  Synced(r, SyncRow(k, r))
<1>1. "withdrawn" \in Reasons
  BY DEF Reasons
<1>2. \/ SyncRow(k, r) = r
      \/ Active(r) /\ SyncRow(k, r) = Cancelled(r, "withdrawn")
      \/ SyncRow(k, r) = SyncMissing(k, r)
      \/ SyncRow(k, r) = SyncOverdue(k, r)
      \/ SyncRow(k, r) = SyncEvent(k, r)
  BY DEF SyncRow
<1>3. Active(r) => Synced(r, Cancelled(r, "withdrawn"))
  BY <1>1 DEF Synced
<1>. QED
  BY <1>2, <1>3, MissingSynced, OverdueSynced, EventSynced DEF Synced

(* The whole table after a synchronization, and after the recovery of leases. *)
LEMMA SyncPasses ==
    ASSUME Tables
    PROVE  /\ SyncedRows \in [Keys -> Notification]
           /\ \A k \in Keys : Synced(row[k], SyncedRows[k]) /\ Passes(row[k], SyncedRows[k])
<1>1. ASSUME NEW k \in Keys
      PROVE  /\ SyncedRows[k] \in Notification
             /\ Synced(row[k], SyncedRows[k]) /\ Passes(row[k], SyncedRows[k])
  <2>1. Good(row[k])
    BY DEF Tables, Good
  <2>2. Synced(row[k], SyncedRows[k])
    BY <2>1, RowSynced DEF SyncedRows
  <2>3. Passes(row[k], SyncedRows[k])
    BY <2>1, <2>2, PassSynced
  <2>. QED
    BY <2>2, <2>3 DEF Passes, Good
<1>2. SyncedRows = [k \in Keys |-> SyncedRows[k]]
  BY DEF SyncedRows
<1>. QED
  BY <1>1, <1>2

LEMMA RecoveredFit ==
    ASSUME NEW r, Good(r), now \in Int
    PROVE  LET s == Recovered(r)
           IN  /\ Good(s)
               /\ r.status # "leased" => s = r
               /\ s = r \/ s.status \in {"dead", "scheduled"}
<1>1. r \in Notification /\ r.attempt <= MaxAttempts
  BY DEF Good, RowChecks
<1>2. CASE Recovered(r) = r
  BY <1>2
<1>3. CASE r.status = "leased" /\ Recovered(r) = Dead(r)
  <2>1. r.reason = None
    BY <1>3 DEF Good, RowChecks
  <2>2. /\ Dead(r) \in Notification /\ Dead(r).status = "dead" /\ Dead(r).attempt = r.attempt
        /\ Dead(r).worker = None /\ Dead(r).reason = None
    BY <1>1, <2>1, DeadRow
  <2>. QED
    BY <1>1, <1>3, <2>2 DEF Good, RowChecks
<1>4. CASE r.status = "leased" /\ Recovered(r) = Retried(r, now)
  <2>1. r.reason = None
    BY <1>4 DEF Good, RowChecks
  <2>2. /\ Retried(r, now) \in Notification /\ Retried(r, now).status = "scheduled"
        /\ Retried(r, now).attempt = r.attempt
        /\ Retried(r, now).worker = None /\ Retried(r, now).reason = None
    BY <1>1, <2>1, RetriedRow
  <2>. QED
    BY <1>1, <1>4, <2>2 DEF Good, RowChecks
<1>. QED
  BY <1>2, <1>3, <1>4 DEF Recovered

LEMMA ClaimPasses ==
    ASSUME Tables
    PROVE  /\ ClaimableRows \in [Keys -> Notification]
           /\ \A k \in Keys : Passes(row[k], ClaimableRows[k])
<1>1. ASSUME NEW k \in Keys
      PROVE  Passes(row[k], ClaimableRows[k])
  <2>. DEFINE r == row[k]
              s == SyncedRows[k]
              c == ClaimableRows[k]
  <2>1. Passes(r, s)
    BY SyncPasses
  <2>2. c = Recovered(s)
    BY DEF ClaimableRows
  <2>3. now \in Int
    BY DEF Tables
  <2>. HIDE DEF r, s, c
  <2>4. /\ Good(c)
        /\ s.status # "leased" => c = s
        /\ c = s \/ c.status \in {"dead", "scheduled"}
    BY <2>1, <2>2, <2>3, RecoveredFit DEF Passes
  <2>5. ASSUME c # s
        PROVE  Passes(r, c)
    <3>1. s.status = "leased" /\ s = r /\ c.status \in {"dead", "scheduled"}
      BY <2>1, <2>4, <2>5 DEF Passes
    <3>. QED
      BY <2>4, <3>1 DEF Passes, KeepsBackoff
  <2>. QED
    BY <2>1, <2>5 DEF r, c
<1>2. ClaimableRows = [k \in Keys |-> ClaimableRows[k]]
  BY DEF ClaimableRows
<1>. QED
  BY <1>1, <1>2 DEF Passes, Good

(* Assignment notices and merges. *)
LEMMA AssignedSynced ==
    ASSUME Tables, NEW t, NEW tk, NEW about
    PROVE  /\ Assigned(row, t, tk, about) \in [Keys -> Notification]
           /\ \A k \in Keys : /\ Synced(row[k], Assigned(row, t, tk, about)[k])
                              /\ Passes(row[k], Assigned(row, t, tk, about)[k])
<1>. DEFINE rows == Assigned(row, t, tk, about)
<1>1. ASSUME NEW k \in Keys
      PROVE  Synced(row[k], rows[k]) /\ Passes(row[k], rows[k])
  <2>1. Good(row[k]) /\ now \in Int
    BY DEF Tables, Good
  <2>2. rows[k] = row[k] \/ rows[k] = Ensured(row[k], now)
    BY DEF Assigned
  <2>3. Synced(row[k], rows[k])
    <3>. HIDE DEF rows
    <3>. QED  BY <2>1, <2>2, EnsuredSynced DEF Synced
  <2>. QED
    BY <2>1, <2>3, PassSynced
<1>2. rows = [k \in Keys |-> rows[k]]
  BY DEF Assigned
<1>. HIDE DEF rows
<1>3. rows \in [Keys -> Notification]
  BY <1>1, <1>2 DEF Passes, Good
<1>. QED
  BY <1>1, <1>3 DEF rows

LEMMA LeftSynced ==
    ASSUME Tables, NEW t, NEW action
    PROVE  /\ LeftBy(action, t) \in [Keys -> Notification]
           /\ \A k \in Keys : /\ Synced(row[k], LeftBy(action, t)[k])
                              /\ Passes(row[k], LeftBy(action, t)[k])
<1>. DEFINE rows == LeftBy(action, t)
<1>1. ASSUME NEW k \in Keys
      PROVE  Synced(row[k], rows[k]) /\ Passes(row[k], rows[k])
  <2>1. Good(row[k]) /\ "withdrawn" \in Reasons
    BY DEF Tables, Good, Reasons
  <2>2. \/ rows[k] = row[k]
        \/ Active(row[k]) /\ rows[k] = Cancelled(row[k], "withdrawn")
    BY DEF LeftBy
  <2>3. Synced(row[k], rows[k])
    <3>. HIDE DEF rows
    <3>. QED  BY <2>1, <2>2 DEF Synced
  <2>. QED
    BY <2>1, <2>3, PassSynced
<1>2. rows = [k \in Keys |-> rows[k]]
  BY DEF LeftBy
<1>. HIDE DEF rows
<1>3. rows \in [Keys -> Notification]
  BY <1>1, <1>2 DEF Passes, Good
<1>. QED
  BY <1>1, <1>3 DEF rows

-----------------------------------------------------------------------------
(* Which steps change the table, and how. *)

EventKinds == {"event_member", "event_admin"}

(* The transaction reads the events there are. *)
Reads ==
    /\ cursor' = Len(event) /\ deferred' = StillDeferred
    /\ UNCHANGED <<now, task, event, chatVars, accepted>>

TakesOne(w, k) ==
    /\ Reads /\ k \in Earliest(ClaimableRows)
    /\ RowChecks(Leased(w, ClaimableRows[k]))
    /\ row' = [ClaimableRows EXCEPT ![k] = Leased(w, ClaimableRows[k])]

(* A task operation plans or withdraws, and reads no event. *)
Plans ==
    /\ row' \in [Keys -> Notification]
    /\ \A k \in Keys : /\ Synced(row[k], row'[k]) /\ Passes(row[k], row'[k])
                       /\ k.kind \in EventKinds => Active(row[k]) \/ row'[k] = row[k]
    /\ UNCHANGED <<cursor, deferred, accepted>>

Stores(w, s) ==
    /\ RowChecks(s)
    /\ \/ pc[w] = "mark" /\ s = SentRow(w)
       \/ /\ pc[w] \in {"bury", "retry"} /\ s = FailedRow(w)
          /\ row[lease[w].key].status # "sent"
    /\ row' = [row EXCEPT ![lease[w].key] = s]
    /\ UNCHANGED <<now, task, event, chatVars, cursor, deferred, accepted>>

Rests == UNCHANGED <<row, cursor, deferred>>

LEMMA ActPlans ==
    ASSUME Tables, NEW t \in Tasks, NEW action, NEW actor, Act(t, action, actor)
    PROVE  Plans
<1>1. row' = LeftBy(action, t) /\ UNCHANGED <<cursor, deferred, accepted>>
  BY DEF Act
<1>2. \A k \in Keys : Active(row[k]) \/ row'[k] = row[k]
  BY <1>1 DEF LeftBy
<1>. QED
  BY <1>1, <1>2, LeftSynced DEF Plans

LEMMA AssignedPlans ==
    ASSUME Tables, NEW t, NEW tk, NEW about, row' = Assigned(row, t, tk, about),
           UNCHANGED <<cursor, deferred, accepted>>
    PROVE  Plans
<1>1. \A k \in Keys : k.kind \in EventKinds => row'[k] = row[k]
  BY DEF Assigned, EventKinds
<1>. QED
  BY <1>1, AssignedSynced DEF Plans

LEMMA TaskPlans ==
    ASSUME Tables, NEW t \in Tasks, TaskStep(t)
    PROVE  Plans \/ Rests
<1>1. CASE Create(t)
  BY <1>1, AssignedPlans DEF Create
<1>2. CASE Redetect(t)
  BY <1>2, AssignedPlans DEF Redetect, Rests
<1>3. CASE Confirm(t)
  BY <1>3, AssignedPlans DEF Confirm
<1>4. CASE FallDue(t)
  BY <1>4 DEF FallDue, Rests
<1>5. CASE \E action \in Actions \cap Tracked, actor \in Members : Act(t, action, actor)
  BY <1>5, ActPlans
<1>. QED
  BY <1>1, <1>2, <1>3, <1>4, <1>5 DEF TaskStep

LEMMA ClaimTakes ==
    ASSUME NEW w \in Workers, Claim(w)
    PROVE  \/ \E k \in Keys : /\ TakesOne(w, k) /\ UNCHANGED <<run, left>>
                              /\ lease' = [lease EXCEPT ![w] =
                                     [key |-> k, retryAt |-> 0,
                                      attempt |-> Leased(w, ClaimableRows[k]).attempt]]
                              /\ pc' = [pc EXCEPT ![w] = "calling"]
           \/ Reads /\ row' = ClaimableRows /\ UNCHANGED <<workerVars, left>>
           \/ /\ Rests /\ UNCHANGED <<now, task, event, chatVars, accepted, run, lease, left>>
              /\ pc' = [pc EXCEPT ![w] = "down"]
<1>1. CASE Claimable(ClaimableRows) = {} /\ Commit(ClaimableRows) /\ UNCHANGED workerVars
  BY <1>1 DEF Claim, Commit, Reads
<1>2. ASSUME NEW k \in Earliest(ClaimableRows),
             RowChecks(Leased(w, ClaimableRows[k])),
             Commit([ClaimableRows EXCEPT ![k] = Leased(w, ClaimableRows[k])]),
             lease' = [lease EXCEPT ![w] =
                 [key |-> k, attempt |-> Leased(w, ClaimableRows[k]).attempt, retryAt |-> 0]],
             pc' = [pc EXCEPT ![w] = "calling"], UNCHANGED run
      PROVE  \E j \in Keys : /\ TakesOne(w, j) /\ UNCHANGED <<run, left>>
                              /\ lease' = [lease EXCEPT ![w] =
                                     [key |-> j, retryAt |-> 0,
                                      attempt |-> Leased(w, ClaimableRows[j]).attempt]]
                              /\ pc' = [pc EXCEPT ![w] = "calling"]
  <2>1. k \in Keys
    BY DEF Earliest, Claimable
  <2>2. TakesOne(w, k)
    BY <1>2 DEF Claim, Commit, Reads, TakesOne
  <2>. QED
    BY <1>2, <2>1, <2>2 DEF Claim
<1>3. CASE pc' = [pc EXCEPT ![w] = "down"] /\ UNCHANGED <<row, cursor, deferred, run, lease>>
  BY <1>3 DEF Claim, Rests
<1>. QED
  BY <1>1, <1>2, <1>3 DEF Claim

LEMMA WorkerMoves ==
    ASSUME NEW w \in Workers, Work(w) \/ Crash(w) \/ Restart(w)
    PROVE  \/ \E k \in Keys : TakesOne(w, k)
           \/ Reads /\ row' = ClaimableRows
           \/ \E s : Stores(w, s)
           \/ Rests
<1>1. CASE Claim(w)
  BY <1>1, ClaimTakes
<1>2. CASE MarkSentWrites(w)
  <2>1. CASE RowChecks(SentRow(w)) /\ row' = [row EXCEPT ![lease[w].key] = SentRow(w)]
    BY <1>2, <2>1 DEF MarkSentWrites, Stores
  <2>2. CASE UNCHANGED row
    BY <1>2, <2>2 DEF MarkSentWrites, Rests
  <2>. QED
    BY <1>2, <2>1, <2>2 DEF MarkSentWrites
<1>3. CASE FailWrites(w)
  <2>1. CASE /\ RowChecks(FailedRow(w)) /\ row[lease[w].key].status # "sent"
             /\ row' = [row EXCEPT ![lease[w].key] = FailedRow(w)]
    BY <1>3, <2>1 DEF FailWrites, Stores
  <2>2. CASE UNCHANGED row
    BY <1>3, <2>2 DEF FailWrites, Rests
  <2>. QED
    BY <1>3, <2>1, <2>2 DEF FailWrites
<1>4. CASE Deliver(w) \/ MarkSentReads(w) \/ FailReads(w) \/ Crash(w) \/ Restart(w)
  BY <1>4 DEF Deliver, MarkSentReads, FailReads, Crash, Restart, Rests
<1>. QED
  BY <1>1, <1>2, <1>3, <1>4 DEF Work

LEMMA TableMoves ==
    ASSUME Tables, [Next]_vars
    PROVE  \/ \E w \in Workers, k \in Keys : TakesOne(w, k)
           \/ Reads /\ row' = ClaimableRows
           \/ Reads /\ row' = SyncedRows
           \/ \E w \in Workers : \E s : Stores(w, s)
           \/ Plans
           \/ Rests
<1>1. CASE UNCHANGED vars \/ ChangeChat \/ Tick
  BY <1>1 DEF vars, ChangeChat, Tick, Rests
<1>2. CASE SyncAll
  BY <1>2 DEF SyncAll, Commit, Reads
<1>3. CASE \E w \in Workers : Work(w) \/ Crash(w) \/ Restart(w)
  BY <1>3, WorkerMoves
<1>4. CASE \E t \in Tasks : TaskStep(t)
  BY <1>4, TaskPlans
<1>. QED
  BY <1>1, <1>2, <1>3, <1>4 DEF Next

(* What a process stores over a row that exists. *)
LEMMA StoredRow ==
    ASSUME TypeOK, NEW w \in Workers, NEW s, Stores(w, s)
    PROVE  LET r == row[lease[w].key]
           IN  /\ lease[w].key \in Keys /\ Good(r) /\ Good(s)
               /\ s.status \in {"sent", "dead", "scheduled"} /\ s.reason = r.reason
               /\ row' \in [Keys -> Notification]
               /\ \A k \in Keys : row'[k] = IF k = lease[w].key THEN s ELSE row[k]
               /\ s.status = "sent" => pc[w] = "mark"
               /\ s.status = "scheduled" => pc[w] = "retry" /\ s.ready = lease[w].retryAt
               /\ r.status = "sent" => s.status = "sent"
<1>. DEFINE k == lease[w].key
            r == row[k]
<1>1. k \in Keys /\ r \in Notification /\ RowChecks(r) /\ lease[w].retryAt \in Int
  BY DEF Stores, TypeOK, HeldLease
<1>2. CASE pc[w] = "mark" /\ s = SentRow(w)
  <2>1. s \in Notification /\ s.status = "sent" /\ s.reason = r.reason
    BY <1>1, <1>2, SentRowFit DEF SentRow
  <2>. QED
    BY <1>1, <1>2, <2>1 DEF Stores, TypeOK, Good
<1>3. CASE pc[w] = "bury" /\ s = Dead(r) /\ r.status # "sent"
  <2>1. s \in Notification /\ s.status = "dead" /\ s.reason = r.reason
    BY <1>1, <1>3, DeadRow
  <2>. QED
    BY <1>1, <1>3, <2>1 DEF Stores, TypeOK, Good
<1>4. CASE pc[w] = "retry" /\ s = Retried(r, lease[w].retryAt) /\ r.status # "sent"
  <2>1. /\ s \in Notification /\ s.status = "scheduled" /\ s.reason = r.reason
        /\ s.ready = lease[w].retryAt
    BY <1>1, <1>4, RetriedRow
  <2>. QED
    BY <1>1, <1>4, <2>1 DEF Stores, TypeOK, Good
<1>5. \/ pc[w] = "mark" /\ s = SentRow(w)
      \/ pc[w] = "bury" /\ s = Dead(r) /\ r.status # "sent"
      \/ pc[w] = "retry" /\ s = Retried(r, lease[w].retryAt) /\ r.status # "sent"
  BY DEF Stores, FailedRow
<1>. QED
  BY <1>2, <1>3, <1>4, <1>5

(* What a claim leases was waiting, and may be claimed. *)
LEMMA TakenRow ==
    ASSUME TypeOK, NEW w \in Workers, NEW k \in Keys, TakesOne(w, k)
    PROVE  LET s == Leased(w, ClaimableRows[k])
           IN  /\ Good(s) /\ s.status = "leased" /\ s.worker = WorkerId(w)
               /\ ClaimableRows[k].status = "scheduled"
               /\ row' \in [Keys -> Notification]
               /\ \A j \in Keys : row'[j] = IF j = k THEN s ELSE ClaimableRows[j]
<1>. DEFINE rows == ClaimableRows
            r == rows[k]
<1>1. rows \in [Keys -> Notification]
  BY TypeOKTables, ClaimPasses
<1>2. /\ r \in Notification /\ r.attempt >= 0 /\ r.status = "scheduled"
  BY <1>1 DEF TakesOne, Earliest, Claimable, Notification
<1>3. run[w] \in 1..MaxRuns /\ now \in Int
  BY TimeAssumption DEF TypeOK, TimeAssumption
<1>4. RowChecks(Leased(w, r)) /\ row' = [rows EXCEPT ![k] = Leased(w, r)]
  BY DEF TakesOne
<1>. HIDE DEF rows
<1>5. /\ Leased(w, r) \in Notification
      /\ Leased(w, r).status = "leased" /\ Leased(w, r).worker = WorkerId(w)
  BY <1>2, <1>3, <1>4, LeasedRow
<1>6. /\ row' \in [Keys -> Notification]
      /\ \A j \in Keys : row'[j] = IF j = k THEN Leased(w, r) ELSE rows[j]
  BY <1>1, <1>4, <1>5
<1>. QED
  BY <1>2, <1>4, <1>5, <1>6 DEF Good, rows

-----------------------------------------------------------------------------
(* Types. *)

(* Events are never more than the budget they came from. *)
EventsBudgeted == Len(event) + left.events <= MaxEvents

LEMMA UseFits ==
    ASSUME left \in Budget, NEW what \in {"events", "changes", "faults"}, Use(what)
    PROVE  /\ left' \in Budget
           /\ left'.events = IF what = "events" THEN left.events - 1 ELSE left.events
<1>1. /\ left.events \in 0..MaxEvents /\ left.changes \in Nat /\ left.faults \in Nat
      /\ MaxEvents \in Nat
  BY LimitAssumption DEF Budget, LimitAssumption
<1>2. left[what] - 1 \in Nat /\ left' = [left EXCEPT ![what] = left[what] - 1]
  BY <1>1 DEF Use
<1>3. CASE what = "events"
  <2>1. left' = [left EXCEPT !.events = left.events - 1]
    BY <1>2, <1>3
  <2>2. left.events > 0
    BY <1>3 DEF Use
  <2>3. left.events - 1 \in 0..MaxEvents
    BY <1>1, <2>2
  <2>. QED
    BY <1>3, <2>1, <2>3 DEF Budget
<1>4. CASE what = "changes"
  <2>1. left' = [left EXCEPT !.changes = left.changes - 1] /\ left.changes - 1 \in Nat
    BY <1>1, <1>2, <1>4
  <2>. QED
    BY <1>4, <2>1 DEF Budget
<1>5. CASE what = "faults"
  <2>1. left' = [left EXCEPT !.faults = left.faults - 1] /\ left.faults - 1 \in Nat
    BY <1>1, <1>2, <1>5
  <2>. QED
    BY <1>5, <2>1 DEF Budget
<1>. QED
  BY <1>3, <1>4, <1>5

LEMMA SetTask ==
    ASSUME NEW tk \in TaskRow
    PROVE  /\ \A x \in {"absent", "pending", "todo", "overdue", "done", "cancelled"} :
                  [tk EXCEPT !.status = x] \in TaskRow
           /\ \A x \in Deadlines \cup {None} : [tk EXCEPT !.deadline = x] \in TaskRow
           /\ \A x \in SUBSET Members : [tk EXCEPT !.owners = x] \in TaskRow
           /\ [tk EXCEPT !.merged = TRUE] \in TaskRow
  BY DEF TaskRow

LEMMA WrittenFits ==
    ASSUME NEW tk \in TaskRow
    PROVE  /\ Written(tk) \in TaskRow /\ Written(tk).owners = tk.owners
           /\ Written(tk).merged = tk.merged
           /\ Written(tk).status = tk.status \/ tk.status = "todo"
  BY SetTask DEF Written, FallsDue, TaskRow

LEMMA OutcomeFits ==
    ASSUME NEW tk \in TaskRow, NEW action \in Tracked, NEW out \in Outcomes(action, tk)
    PROVE  /\ out \in TaskRow
           /\ action # "merge" => out.merged = tk.merged
           /\ action = "merge" => out.status = "cancelled" /\ out.merged
<1>1. ASSUME NEW x \in {"done", "cancelled", "todo"}, out = [tk EXCEPT !.status = x]
      PROVE  out \in TaskRow /\ out.merged = tk.merged
  BY <1>1, SetTask DEF TaskRow
<1>2. ASSUME out = [tk EXCEPT !.status = "cancelled", !.merged = TRUE]
      PROVE  out \in TaskRow /\ out.status = "cancelled" /\ out.merged
  <2>. DEFINE a == [tk EXCEPT !.status = "cancelled"]
  <2>1. a \in TaskRow
    BY SetTask
  <2>2. [a EXCEPT !.merged = TRUE] \in TaskRow
    <3>. HIDE DEF a
    <3>. QED  BY <2>1, SetTask
  <2>3. out = [a EXCEPT !.merged = TRUE]
    BY <1>2 DEF TaskRow
  <2>4. out.status = "cancelled" /\ out.merged
    BY <1>2 DEF TaskRow
  <2>. QED
    BY <2>2, <2>3, <2>4
<1>3. ASSUME NEW d \in Deadlines, out = [tk EXCEPT !.status = "todo", !.deadline = d]
      PROVE  out \in TaskRow /\ out.merged = tk.merged
  <2>. DEFINE a == [tk EXCEPT !.status = "todo"]
  <2>1. a \in TaskRow
    BY SetTask
  <2>2. [a EXCEPT !.deadline = d] \in TaskRow
    <3>. HIDE DEF a
    <3>. QED  BY <2>1, SetTask
  <2>3. out = [a EXCEPT !.deadline = d]
    BY <1>3 DEF TaskRow
  <2>4. out.merged = tk.merged
    BY <1>3 DEF TaskRow
  <2>. QED
    BY <2>2, <2>3, <2>4
<1>4. ASSUME NEW S \in SUBSET Members, out = [tk EXCEPT !.owners = S]
      PROVE  out \in TaskRow /\ out.merged = tk.merged
  BY <1>4, SetTask DEF TaskRow
<1>5. \/ action # "merge" /\ \E x \in {"done", "cancelled", "todo"} : out = [tk EXCEPT !.status = x]
      \/ action = "merge" /\ out = [tk EXCEPT !.status = "cancelled", !.merged = TRUE]
      \/ action # "merge" /\ \E d \in Deadlines : out = [tk EXCEPT !.status = "todo", !.deadline = d]
      \/ action # "merge" /\ \E S \in SUBSET Members : out = [tk EXCEPT !.owners = S]
      \/ action # "merge" /\ out = tk
  BY DEF Outcomes, Tracked
<1>. QED
  BY <1>1, <1>2, <1>3, <1>4, <1>5

(* What an operation on one task leaves of it. *)
LEMMA TaskAfter ==
    ASSUME TypeOK, NEW t \in Tasks, NEW tk \in TaskRow,
           task' = [task EXCEPT ![t] = Written(tk)]
    PROVE  task' \in [Tasks -> TaskRow]
  BY WrittenFits DEF TypeOK

LEMMA ActAfter ==
    ASSUME TypeOK, NEW t \in Tasks, NEW action \in Tracked, NEW actor \in Members,
           Act(t, action, actor)
    PROVE  /\ task' \in [Tasks -> TaskRow]
           /\ \E e \in Event : event' = Append(event, e)
           /\ left' \in Budget /\ left.events > 0 /\ left'.events = left.events - 1
           /\ UNCHANGED <<now, chatVars, cursor, deferred, workerVars, accepted>>
<1>1. task[t] \in TaskRow
  BY DEF TypeOK
<1>2. PICK tk \in Outcomes(action, task[t]) :
          /\ task' = [task EXCEPT ![t] = Written(tk)]
          /\ event' = Append(event, [task |-> t, action |-> action, actor |-> actor,
                                     at |-> now, before |-> task[t].owners,
                                     after |-> tk.owners])
  BY DEF Act
<1>3. tk \in TaskRow
  BY <1>1, <1>2, OutcomeFits
<1>4. [task |-> t, action |-> action, actor |-> actor, at |-> now,
       before |-> task[t].owners, after |-> tk.owners] \in Event
  BY <1>1, <1>3 DEF Event, TaskRow, TypeOK
<1>5. left' \in Budget /\ left'.events = left.events - 1 /\ left.events > 0
  BY UseFits DEF Act, Use, TypeOK
<1>6. UNCHANGED <<now, chatVars, cursor, deferred, workerVars, accepted>>
  BY DEF Act
<1>. QED
  BY <1>2, <1>3, <1>4, <1>5, <1>6, TaskAfter

LEMMA TaskStepAfter ==
    ASSUME TypeOK, NEW t \in Tasks, TaskStep(t)
    PROVE  /\ task' \in [Tasks -> TaskRow]
           /\ \/ UNCHANGED <<event, left>>
              \/ /\ \E e \in Event : event' = Append(event, e)
                 /\ left' \in Budget /\ left.events > 0 /\ left'.events = left.events - 1
                 /\ UNCHANGED <<cursor, deferred>>
           /\ UNCHANGED <<now, chatVars, workerVars, accepted>>
<1>0. task[t] \in TaskRow /\ now \in Nat
  BY TimeAssumption DEF TypeOK, TimeAssumption
<1>1. CASE Create(t)
  <2>1. PICK found \in Creations :
            task' = [task EXCEPT ![t] = Written([status |-> found.status,
                         deadline |-> found.deadline, owners |-> found.owners,
                         created |-> now, merged |-> FALSE])]
    BY <1>1 DEF Create
  <2>2. [status |-> found.status, deadline |-> found.deadline, owners |-> found.owners,
         created |-> now, merged |-> FALSE] \in TaskRow
    <3>1. found \in [status : {"pending", "todo"}, deadline : Deadlines \cup {None},
                     owners : (SUBSET Members) \ {{}}]
      BY CreationAssumption DEF CreationAssumption
    <3>. QED
      BY <1>0, <3>1 DEF TaskRow
  <2>3. task' \in [Tasks -> TaskRow]
    BY <2>1, <2>2, TaskAfter
  <2>. QED
    BY <1>1, <2>3 DEF Create
<1>2. CASE Redetect(t)
  <2>1. PICK d \in Deadlines \cup {None}, status \in {task[t].status, "todo"} :
            task' = [task EXCEPT ![t] =
                        Written([task[t] EXCEPT !.deadline = d, !.status = status])]
    <3>1. task[t].deadline \in Deadlines \cup {None}
      BY <1>0 DEF TaskRow
    <3>. QED
      BY <1>2, <3>1 DEF Redetect
  <2>. DEFINE a == [task[t] EXCEPT !.deadline = d]
              b == [a EXCEPT !.status = status]
  <2>2. a \in TaskRow
    BY <1>0, SetTask
  <2>3. status \in {"absent", "pending", "todo", "overdue", "done", "cancelled"}
    BY <1>0, <2>1 DEF TaskRow
  <2>4. b \in TaskRow
    <3>. HIDE DEF a
    <3>. QED  BY <2>2, <2>3, SetTask
  <2>5. b = [task[t] EXCEPT !.deadline = d, !.status = status]
    BY <1>0 DEF TaskRow
  <2>. HIDE DEF b
  <2>6. task' \in [Tasks -> TaskRow]
    BY <2>1, <2>4, <2>5, TaskAfter
  <2>. QED
    BY <1>2, <2>6 DEF Redetect
<1>3. CASE Confirm(t)
  <2>1. [task[t] EXCEPT !.status = "todo"] \in TaskRow
    BY <1>0, SetTask
  <2>2. task' \in [Tasks -> TaskRow]
    BY <1>3, <2>1, TaskAfter DEF Confirm
  <2>. QED
    BY <1>3, <2>2 DEF Confirm
<1>4. CASE FallDue(t)
  BY <1>0, <1>4, TaskAfter DEF FallDue
<1>5. CASE \E action \in Actions \cap Tracked, actor \in Members : Act(t, action, actor)
  BY <1>5, ActAfter
<1>. QED
  BY <1>1, <1>2, <1>3, <1>4, <1>5 DEF TaskStep

(* The processes. *)
Places == {"idle", "calling", "receipt", "mark", "failed", "bury", "retry", "down"}
Busy(place) == place \notin {"idle", "down"}

WorkersFit ==
    /\ pc \in [Workers -> Places] /\ run \in [Workers -> 1..MaxRuns]
    /\ lease \in [Workers -> HeldLease]
    /\ \A w \in Workers : Busy(pc[w]) => lease[w].key \in Keys
    /\ accepted \subseteq Keys /\ left \in Budget

LEMMA TypeOKWorkers == TypeOK => WorkersFit
  BY DEF TypeOK, WorkersFit, Places, Busy

LEMMA Advance ==
    ASSUME WorkersFit, NEW w \in Workers, NEW q \in Places, NEW l \in HeldLease,
           pc' = [pc EXCEPT ![w] = q], lease' = [lease EXCEPT ![w] = l],
           UNCHANGED run \/ (run[w] < MaxRuns /\ run' = [run EXCEPT ![w] = run[w] + 1]),
           Busy(q) => l.key \in Keys
    PROVE  /\ pc' \in [Workers -> Places] /\ run' \in [Workers -> 1..MaxRuns]
           /\ lease' \in [Workers -> HeldLease]
           /\ \A v \in Workers : Busy(pc'[v]) => lease'[v].key \in Keys
<1>1. \A v \in Workers : /\ pc'[v] = (IF v = w THEN q ELSE pc[v])
                         /\ lease'[v] = (IF v = w THEN l ELSE lease[v])
  BY DEF WorkersFit
<1>2. \A v \in Workers : Busy(pc'[v]) => lease'[v].key \in Keys
  BY <1>1 DEF WorkersFit
<1>3. run' \in [Workers -> 1..MaxRuns]
  <2>1. run[w] \in 1..MaxRuns /\ MaxRuns \in Nat
    BY LimitAssumption DEF WorkersFit, LimitAssumption
  <2>2. run[w] < MaxRuns => run[w] + 1 \in 1..MaxRuns
    BY <2>1
  <2>. QED
    BY <2>2 DEF WorkersFit
<1>. QED
  BY <1>2, <1>3 DEF WorkersFit

(* How a process that does not claim or restart goes on. *)
LEMMA GoesOn ==
    ASSUME WorkersFit, NEW w \in Workers, NEW q \in Places,
           \/ Busy(pc[w]) /\ Goto(w, q)
           \/ q \in {"idle", "down"} /\ Forget(w, q)
    PROVE  /\ pc' \in [Workers -> Places] /\ run' \in [Workers -> 1..MaxRuns]
           /\ lease' \in [Workers -> HeldLease]
           /\ \A v \in Workers : Busy(pc'[v]) => lease'[v].key \in Keys
<1>1. CASE Busy(pc[w]) /\ Goto(w, q)
  <2>1. /\ pc' = [pc EXCEPT ![w] = q] /\ lease' = [lease EXCEPT ![w] = lease[w]]
        /\ UNCHANGED run /\ lease[w] \in HeldLease /\ lease[w].key \in Keys
    BY <1>1 DEF Goto, WorkersFit
  <2>. QED
    BY <2>1, Advance
<1>2. CASE q \in {"idle", "down"} /\ Forget(w, q)
  <2>1. NoLease \in HeldLease /\ ~Busy(q)
    BY <1>2, LimitAssumption DEF LimitAssumption, NoLease, HeldLease, Busy
  <2>2. /\ pc' = [pc EXCEPT ![w] = q] /\ lease' = [lease EXCEPT ![w] = NoLease]
        /\ UNCHANGED run
    BY <1>2 DEF Forget
  <2>. QED
    BY <2>1, <2>2, Advance
<1>. QED
  BY <1>1, <1>2

LEMMA BackoffIsInt ==
    ASSUME NEW attempt \in Int
    PROVE  Backoff(attempt) \in Int
  BY LimitAssumption DEF LimitAssumption, Backoff

ProcessesFit ==
    /\ pc \in [Workers -> Places] /\ run \in [Workers -> 1..MaxRuns]
    /\ lease \in [Workers -> HeldLease]
    /\ \A w \in Workers : Busy(pc[w]) => lease[w].key \in Keys

(* What a step of a process leaves of everything but the rows. *)
LEMMA WorkAfter ==
    ASSUME TypeOK, NEW w \in Workers, Work(w) \/ Crash(w) \/ Restart(w)
    PROVE  /\ ProcessesFit'
           /\ accepted' \subseteq Keys
           /\ left' \in Budget /\ left'.events = left.events
           /\ UNCHANGED <<now, task, event, chatVars>>
<1>0. WorkersFit
  BY TypeOKWorkers
<1>1. \A q \in Places :
          (\/ Busy(pc[w]) /\ Goto(w, q)
           \/ q \in {"idle", "down"} /\ Forget(w, q)) => ProcessesFit'
  BY <1>0, GoesOn DEF ProcessesFit
<1>2. CASE Claim(w)
  <2>1. CASE \E k \in Keys : TakesOne(w, k) /\ UNCHANGED <<run, left>>
                /\ lease' = [lease EXCEPT ![w] = [key |-> k, retryAt |-> 0,
                                 attempt |-> Leased(w, ClaimableRows[k]).attempt]]
                /\ pc' = [pc EXCEPT ![w] = "calling"]
    <3>1. PICK k \in Keys :
              /\ TakesOne(w, k) /\ UNCHANGED <<run, left>>
              /\ lease' = [lease EXCEPT ![w] = [key |-> k, retryAt |-> 0,
                               attempt |-> Leased(w, ClaimableRows[k]).attempt]]
              /\ pc' = [pc EXCEPT ![w] = "calling"]
      BY <2>1
    <3>. DEFINE l == [key |-> k, retryAt |-> 0,
                      attempt |-> Leased(w, ClaimableRows[k]).attempt]
    <3>2. Leased(w, ClaimableRows[k]).attempt \in 0..MaxAttempts
      BY <3>1, TakenRow DEF Good, Notification
    <3>3. l \in HeldLease
      BY <3>2 DEF HeldLease
    <3>4. l.key = k
      OBVIOUS
    <3>5. lease' = [lease EXCEPT ![w] = l]
      BY <3>1
    <3>. HIDE DEF l
    <3>6. ProcessesFit'
      BY <1>0, <3>1, <3>3, <3>4, <3>5, Advance DEF ProcessesFit, Places
    <3>. QED
      BY <3>1, <3>6 DEF TakesOne, Reads, TypeOK
  <2>2. CASE UNCHANGED <<workerVars, left>>
    BY <1>2, <2>2 DEF Claim, TypeOK, ProcessesFit, Places, Busy, workerVars
  <2>3. CASE pc' = [pc EXCEPT ![w] = "down"] /\ UNCHANGED <<run, lease, left>>
    <3>1. /\ pc' = [pc EXCEPT ![w] = "down"] /\ lease' = [lease EXCEPT ![w] = lease[w]]
          /\ UNCHANGED run /\ lease[w] \in HeldLease /\ ~Busy("down")
      BY <2>3 DEF TypeOK, Busy
    <3>2. ProcessesFit'
      BY <1>0, <3>1, Advance DEF ProcessesFit, Places
    <3>. QED
      BY <1>2, <3>2 DEF Claim, TypeOK
  <2>. QED
    BY <1>2, <2>1, <2>2, <2>3, ClaimTakes
<1>3. CASE Deliver(w)
  <2>1. lease[w].key \in Keys /\ Busy(pc[w])
    BY <1>3 DEF Deliver, TypeOK, Busy
  <2>2. ProcessesFit'
    BY <1>1, <1>3, <2>1 DEF Deliver, Places
  <2>3. accepted' \subseteq Keys
    BY <1>3, <2>1 DEF Deliver, Reached, TypeOK
  <2>4. left' \in Budget /\ left'.events = left.events
    BY <1>3, UseFits DEF Deliver, TypeOK
  <2>. QED
    BY <1>3, <2>2, <2>3, <2>4 DEF Deliver
<1>4. CASE MarkSentReads(w)
  BY <1>1, <1>4 DEF MarkSentReads, Places, Busy, TypeOK
<1>5. CASE MarkSentWrites(w)
  <2>1. ProcessesFit'
    BY <1>1, <1>5 DEF MarkSentWrites, Places, Busy
  <2>2. left' \in Budget /\ left'.events = left.events
    BY <1>5, UseFits DEF MarkSentWrites, TypeOK
  <2>. QED
    BY <1>5, <2>1, <2>2 DEF MarkSentWrites, TypeOK
<1>6. CASE FailReads(w)
  <2>1. CASE pc' = [pc EXCEPT ![w] = "retry"] /\ UNCHANGED run
             /\ lease' = [lease EXCEPT ![w].retryAt = now + Backoff(lease[w].attempt)]
    <3>. DEFINE l == [lease[w] EXCEPT !.retryAt = now + Backoff(lease[w].attempt)]
    <3>1. lease[w] \in HeldLease /\ lease[w].key \in Keys /\ now \in Int
      BY <1>6, TimeAssumption DEF FailReads, TypeOK, TimeAssumption
    <3>2. now + Backoff(lease[w].attempt) \in Int
      <4>1. lease[w].attempt \in Int
        BY <3>1 DEF HeldLease
      <4>. QED
        BY <3>1, <4>1, BackoffIsInt
    <3>3. l \in HeldLease /\ l.key = lease[w].key
      BY <3>1, <3>2 DEF HeldLease
    <3>4. lease' = [lease EXCEPT ![w] = l]
      BY <2>1
    <3>. HIDE DEF l
    <3>. QED
      BY <1>0, <1>6, <2>1, <3>1, <3>3, <3>4, Advance DEF ProcessesFit, Places, FailReads, TypeOK
  <2>2. CASE Forget(w, "down") \/ Goto(w, "bury")
    BY <1>1, <1>6, <2>2 DEF FailReads, Places, Busy, TypeOK
  <2>. QED
    BY <1>6, <2>1, <2>2 DEF FailReads
<1>7. CASE FailWrites(w)
  BY <1>1, <1>7 DEF FailWrites, Places, TypeOK
<1>8. CASE Crash(w)
  <2>1. ProcessesFit'
    BY <1>1, <1>8 DEF Crash, Places
  <2>2. left' \in Budget /\ left'.events = left.events
    BY <1>8, UseFits DEF Crash, TypeOK
  <2>. QED
    BY <1>8, <2>1, <2>2 DEF Crash, TypeOK
<1>9. CASE Restart(w)
  <2>1. /\ pc' = [pc EXCEPT ![w] = "idle"] /\ lease' = [lease EXCEPT ![w] = lease[w]]
        /\ run[w] < MaxRuns /\ run' = [run EXCEPT ![w] = run[w] + 1]
        /\ lease[w] \in HeldLease /\ ~Busy("idle")
    BY <1>9 DEF Restart, TypeOK, Busy
  <2>2. ProcessesFit'
    BY <1>0, <2>1, Advance DEF ProcessesFit, Places
  <2>. QED
    BY <1>9, <2>2 DEF Restart, TypeOK
<1>. QED
  BY <1>2, <1>3, <1>4, <1>5, <1>6, <1>7, <1>8, <1>9 DEF Work

(* Rows keep their types and their constraints in every transaction. *)
LEMMA RowsFit ==
    ASSUME TypeOK, [Next]_vars
    PROVE  row' \in [Keys -> Notification] /\ \A k \in Keys : RowChecks(row'[k])
<1>0. Tables
  BY TypeOKTables
<1>1. ASSUME NEW w \in Workers, NEW k \in Keys, TakesOne(w, k)
      PROVE  row' \in [Keys -> Notification] /\ \A j \in Keys : RowChecks(row'[j])
  BY <1>0, <1>1, TakenRow, ClaimPasses DEF Good, Passes
<1>2. CASE row' = ClaimableRows
  BY <1>0, <1>2, ClaimPasses DEF Good, Passes
<1>3. CASE row' = SyncedRows
  BY <1>0, <1>3, SyncPasses DEF Good, Passes
<1>4. ASSUME NEW w \in Workers, NEW s, Stores(w, s)
      PROVE  row' \in [Keys -> Notification] /\ \A k \in Keys : RowChecks(row'[k])
  <2>1. \A k \in Keys : RowChecks(row[k])
    BY DEF TypeOK
  <2>. QED
    BY <1>4, <2>1, StoredRow DEF Good
<1>5. CASE Plans
  BY <1>5 DEF Plans, Good, Passes
<1>6. CASE Rests
  BY <1>6 DEF Rests, TypeOK
<1>. QED
  BY <1>0, <1>1, <1>2, <1>3, <1>4, <1>5, <1>6, TableMoves

(* Events are appended, and read or put off. *)
LEMMA EventsMove ==
    ASSUME TypeOK, [Next]_vars
    PROVE  /\ \/ UNCHANGED event /\ left' \in Budget /\ left'.events = left.events
              \/ /\ \E e \in Event : event' = Append(event, e)
                 /\ left' \in Budget /\ left.events > 0 /\ left'.events = left.events - 1
                 /\ UNCHANGED <<cursor, deferred>>
           /\ \/ UNCHANGED <<cursor, deferred>>
              \/ Reads
<1>1. CASE UNCHANGED vars \/ Tick
  BY <1>1 DEF vars, Tick, TypeOK
<1>2. CASE ChangeChat
  BY <1>2, UseFits DEF ChangeChat, TypeOK
<1>3. CASE SyncAll
  BY <1>3 DEF SyncAll, Commit, Reads, TypeOK
<1>4. CASE \E w \in Workers : Work(w) \/ Crash(w) \/ Restart(w)
  BY <1>4, WorkAfter, WorkerMoves DEF TakesOne, Stores, Rests
<1>5. CASE \E t \in Tasks : TaskStep(t)
  BY <1>5, TaskStepAfter, TaskPlans, TypeOKTables DEF Plans, Rests, TypeOK
<1>. QED
  BY <1>1, <1>2, <1>3, <1>4, <1>5 DEF Next

LEMMA EventsFit ==
    ASSUME TypeOK, EventsBudgeted, [Next]_vars
    PROVE  /\ event' \in Seq(Event) /\ Len(event') <= MaxEvents /\ EventsBudgeted'
           /\ cursor' \in 0..Len(event') /\ deferred' \subseteq 1..cursor'
<1>. DEFINE n == Len(event)
            b == left.events
            c == left'.events
            m == Len(event')
<1>0. /\ event \in Seq(Event) /\ n \in Nat /\ cursor \in 0..n /\ deferred \subseteq 1..cursor
      /\ n + b <= MaxEvents /\ b \in Nat /\ MaxEvents \in Nat
  BY LimitAssumption DEF TypeOK, EventsBudgeted, LimitAssumption, Budget
<1>1. \/ event' = event /\ m = n /\ c = b
      \/ event' \in Seq(Event) /\ m = n + 1 /\ b > 0 /\ c = b - 1 /\ UNCHANGED <<cursor, deferred>>
  <2>1. ASSUME NEW e \in Event, event' = Append(event, e)
        PROVE  event' \in Seq(Event) /\ m = n + 1
    BY <1>0, <2>1
  <2>. QED
    BY <2>1, EventsMove
<1>2. \/ UNCHANGED <<cursor, deferred>>
      \/ event' = event /\ cursor' = n /\ deferred' = StillDeferred
  BY EventsMove DEF Reads
<1>3. StillDeferred \subseteq 1..n
  BY UnreadEvents, TypeOKTables DEF StillDeferred
<1>4. m + c <= MaxEvents /\ m <= MaxEvents /\ m \in Nat /\ n <= m /\ c \in Nat
  <2>. HIDE DEF n, m, b, c
  <2>. QED
    BY <1>0, <1>1
<1>5. event' \in Seq(Event)
  BY <1>0, <1>1
<1>6. cursor' \in 0..m /\ deferred' \subseteq 1..cursor'
  <2>1. CASE UNCHANGED <<cursor, deferred>>
    <3>1. cursor \in 0..m
      <4>. HIDE DEF n, m
      <4>. QED  BY <1>0, <1>4
    <3>. QED
      BY <1>0, <2>1, <3>1
  <2>2. CASE event' = event /\ cursor' = n /\ deferred' = StillDeferred
    BY <1>0, <1>3, <2>2
  <2>. QED
    BY <1>2, <2>1, <2>2
<1>. QED
  BY <1>4, <1>5, <1>6 DEF EventsBudgeted

LEMMA InitType == Init => TypeOK /\ EventsBudgeted
<1>. SUFFICES ASSUME Init
              PROVE  TypeOK /\ EventsBudgeted
  OBVIOUS
<1>1. left \in Budget /\ MaxEvents \in Nat /\ MaxRuns \in Nat /\ MaxRuns >= 1 /\ MaxAttempts \in Nat
  BY LimitAssumption DEF Init, LimitAssumption
<1>2. /\ event \in Seq(Event) /\ Len(event) = 0 /\ cursor \in 0..Len(event)
      /\ deferred \subseteq 1..cursor
  BY DEF Init
<1>3. Len(event) <= MaxEvents /\ EventsBudgeted
  <2>1. left.events \in 0..MaxEvents
    BY <1>1 DEF Budget
  <2>. QED
    BY <1>1, <1>2, <2>1 DEF EventsBudgeted
<1>4. task \in [Tasks -> TaskRow]
  BY DEF Init, NoTask, TaskRow
<1>5. row \in [Keys -> Notification] /\ \A k \in Keys : RowChecks(row[k])
  BY NoRowGood DEF Init, Good
<1>6. lease \in [Workers -> HeldLease]
  BY <1>1 DEF Init, NoLease, HeldLease
<1>7. /\ pc \in [Workers -> {"idle", "calling", "receipt", "mark", "failed", "bury",
                             "retry", "down"}]
      /\ \A w \in Workers : pc[w] \notin {"idle", "down"} => lease[w].key \in Keys
  BY DEF Init
<1>8. run \in [Workers -> 1..MaxRuns]
  BY <1>1 DEF Init
<1>9. /\ now \in Instants /\ administrators \subseteq Members /\ policy \in Policies
      /\ admitted \in BOOLEAN /\ accepted \subseteq Keys
  BY PolicyAssumption DEF Init, PolicyAssumption
<1>. QED
  BY <1>1, <1>2, <1>3, <1>4, <1>5, <1>6, <1>7, <1>8, <1>9 DEF TypeOK

LEMMA NextType == TypeOK /\ EventsBudgeted /\ [Next]_vars => TypeOK' /\ EventsBudgeted'
<1>. SUFFICES ASSUME TypeOK, EventsBudgeted, [Next]_vars
              PROVE  TypeOK' /\ EventsBudgeted'
  OBVIOUS
<1>. DEFINE Rest ==
         /\ now' \in Instants /\ task' \in [Tasks -> TaskRow]
         /\ administrators' \subseteq Members /\ policy' \in Policies /\ admitted' \in BOOLEAN
         /\ ProcessesFit' /\ accepted' \subseteq Keys
<1>1. ProcessesFit
  BY DEF TypeOK, ProcessesFit, Places, Busy
<1>2. Rest
  <2>1. CASE UNCHANGED <<task, chatVars, workerVars, accepted>> /\ now' \in Instants
    BY <1>1, <2>1 DEF TypeOK, ProcessesFit, chatVars, workerVars
  <2>2. CASE ChangeChat
    BY <1>1, <2>2 DEF ChangeChat, TypeOK, ProcessesFit, workerVars
  <2>3. CASE \E w \in Workers : Work(w) \/ Crash(w) \/ Restart(w)
    BY <2>3, WorkAfter DEF TypeOK, chatVars
  <2>4. CASE \E t \in Tasks : TaskStep(t)
    BY <1>1, <2>4, TaskStepAfter DEF TypeOK, ProcessesFit, chatVars, workerVars
  <2>. QED
    BY <2>1, <2>2, <2>3, <2>4 DEF Next, vars, SyncAll, Tick, TypeOK
<1>3. left' \in Budget
  BY EventsMove
<1>. QED
  BY <1>2, <1>3, RowsFit, EventsFit DEF TypeOK, ProcessesFit, Places, Busy

LEMMA AlwaysTyped == Spec => [](TypeOK /\ EventsBudgeted)
  BY InitType, NextType, PTL DEF Spec

(* Every row that is ever committed satisfies the types and the CHECK constraints
   of its table, the cursor never passes the events there are, and a process past
   claim_due holds the lease of a row. *)
THEOREM TypeCorrect == Spec => []TypeOK
  BY AlwaysTyped, PTL

-----------------------------------------------------------------------------
(* Who is leased for, and when. *)

LEMMA CancelledIsOver ==
    ASSUME NEW r, Good(r), NEW why \in Reasons
    PROVE  ~Active(Cancelled(r, why))
  BY CancelledRow DEF Good, Active

LEMMA MissingAuthorized ==
    ASSUME NEW k, NEW r, Good(r), Active(SyncMissing(k, r))
    PROVE  MissingWanted(k)
<1>. SUFFICES ASSUME ~MissingWanted(k)
              PROVE  FALSE
  OBVIOUS
<1>1. WhyNotMissing(k) \in Reasons
  BY DEF WhyNotMissing, Reasons
<1>2. SyncMissing(k, r) = IF Active(r) THEN Cancelled(r, WhyNotMissing(k)) ELSE r
  BY DEF SyncMissing
<1>. QED
  BY <1>1, <1>2, CancelledIsOver

LEMMA OverdueAuthorized ==
    ASSUME NEW k, NEW r, Good(r), Active(SyncOverdue(k, r))
    PROVE  OverdueFor(k) /\ k.member \in Alerted
<1>. SUFFICES ASSUME ~(OverdueFor(k) /\ k.member \in Alerted)
              PROVE  FALSE
  OBVIOUS
<1>1. \/ SyncOverdue(k, r) = r /\ ~Active(r)
      \/ \E why \in Reasons : SyncOverdue(k, r) = Cancelled(r, why)
  BY DEF SyncOverdue, Reasons
<1>. QED
  BY <1>1, CancelledIsOver

LEMMA EventAuthorized ==
    ASSUME NEW k, NEW r, Good(r), k.kind = "event_admin", Active(SyncEvent(k, r))
    PROVE  k.member \in Alerted
<1>. SUFFICES ASSUME k.member \notin Alerted
              PROVE  FALSE
  OBVIOUS
<1>1. k.member \notin Told(k.about, k.kind)
  BY DEF Told
<1>2. SyncEvent(k, r) = IF Active(r) THEN Cancelled(r, "policy") ELSE r
  BY <1>1 DEF SyncEvent
<1>3. "policy" \in Reasons
  BY DEF Reasons
<1>. QED
  BY <1>2, <1>3, CancelledIsOver

(* What a synchronization leaves to be sent may be sent now. *)
LEMMA RowAuthorized ==
    ASSUME NEW k \in Keys, NEW r, Good(r), Active(SyncRow(k, r))
    PROVE  /\ admitted
           /\ k.kind \in AdminKinds => k.member \in Alerted
           /\ k.kind \in {"missing_member", "missing_admin"} => MissingWanted(k)
           /\ k.kind = "overdue" => OverdueFor(k)
<1>1. admitted
  <2>. SUFFICES ASSUME ~admitted
                PROVE  FALSE
    OBVIOUS
  <2>1. SyncRow(k, r) = IF Active(r) THEN Cancelled(r, "withdrawn") ELSE r
    BY DEF SyncRow
  <2>2. "withdrawn" \in Reasons
    BY DEF Reasons
  <2>. QED
    BY <2>1, <2>2, CancelledIsOver
<1>2. CASE k.kind \in {"missing_member", "missing_admin"}
  <2>1. MissingWanted(k)
    BY <1>1, <1>2, MissingAuthorized DEF SyncRow
  <2>2. k.kind = "missing_admin" => k.member \in Alerted
    BY <2>1 DEF MissingWanted, MissingRecipients
  <2>. QED
    BY <1>1, <1>2, <2>1, <2>2 DEF AdminKinds
<1>3. CASE k.kind = "overdue"
  BY <1>1, <1>3, OverdueAuthorized DEF SyncRow
<1>4. CASE k.kind \in {"event_member", "event_admin"}
  BY <1>1, <1>4, EventAuthorized DEF SyncRow, AdminKinds
<1>5. CASE k.kind = "assigned"
  BY <1>1, <1>5 DEF AdminKinds
<1>. QED
  BY <1>2, <1>3, <1>4, <1>5, KeyParts

LEMMA LeasesAuthorized ==
    ASSUME TypeOK, [Next]_vars, NEW k \in Keys,
           row'[k].status = "leased", row'[k].worker # row[k].worker
    PROVE  /\ admitted
           /\ k.kind \in AdminKinds => k.member \in Alerted
           /\ k.kind \in {"missing_member", "missing_admin"} => MissingWanted(k)
           /\ k.kind = "overdue" => OverdueFor(k)
<1>0. Tables /\ Good(row[k])
  BY TypeOKTables DEF TypeOK, Good
<1>1. ~Passes(row[k], row'[k])
  BY DEF Passes
<1>2. ~Plans /\ row' # ClaimableRows /\ row' # SyncedRows /\ ~Rests
  BY <1>0, <1>1, PassSame, ClaimPasses, SyncPasses DEF Plans, Rests
<1>3. ASSUME NEW w \in Workers, NEW s, Stores(w, s)
      PROVE  FALSE
  BY <1>0, <1>1, <1>3, StoredRow, PassSame
<1>4. PICK w \in Workers, j \in Keys : TakesOne(w, j)
  BY <1>0, <1>2, <1>3, TableMoves
<1>5. j = k
  BY <1>0, <1>1, <1>4, TakenRow, ClaimPasses
<1>6. ClaimableRows[k].status = "scheduled"
  BY <1>4, <1>5, TakenRow
<1>7. SyncedRows[k].status \in {"scheduled", "leased"}
  BY <1>6 DEF ClaimableRows, Recovered
<1>8. Active(SyncRow(k, row[k]))
  BY <1>7 DEF SyncedRows, Active
<1>. QED
  BY <1>0, <1>8, RowAuthorized

(* Nobody is leased a message that he may not be told at that moment, however the
   chat, its administrators, its policy and the task changed since the row was
   planned: every claim synchronizes the rows in its own transaction first. *)
THEOREM ClaimsAllowed == Spec => ClaimsAuthorized
<1>1. TypeOK /\ [Next]_vars =>
          \A k \in Keys :
              row'[k].status = "leased" /\ row'[k].worker # row[k].worker =>
                  /\ admitted
                  /\ k.kind \in AdminKinds => k.member \in Alerted
                  /\ k.kind \in {"missing_member", "missing_admin"} => MissingWanted(k)
                  /\ k.kind = "overdue" => OverdueFor(k)
  BY LeasesAuthorized
<1>. QED
  BY <1>1, AlwaysTyped, PTL DEF Spec, ClaimsAuthorized

LEMMA WaitsOn ==
    ASSUME TypeOK, [Next]_vars, NEW k \in Keys,
           row[k].status = "scheduled", row[k].attempt > 0,
           row'[k].status = "scheduled", row'[k].attempt = row[k].attempt
    PROVE  \/ row'[k].ready >= row[k].ready
           \/ \E w \in Workers : /\ pc[w] = "retry" /\ lease[w].key = k
                                 /\ row'[k].ready = lease[w].retryAt
<1>0. Tables /\ Good(row[k])
  BY TypeOKTables DEF TypeOK, Good
<1>1. CASE Passes(row[k], row'[k])
  BY <1>1 DEF Passes, KeepsBackoff
<1>2. ASSUME NEW w \in Workers, NEW s, Stores(w, s)
      PROVE  \/ Passes(row[k], row'[k])
             \/ pc[w] = "retry" /\ lease[w].key = k /\ row'[k].ready = lease[w].retryAt
  BY <1>0, <1>2, StoredRow, PassSame
<1>3. ASSUME NEW w \in Workers, NEW j \in Keys, TakesOne(w, j)
      PROVE  Passes(row[k], row'[k])
  BY <1>0, <1>3, TakenRow, ClaimPasses
<1>4. row' = ClaimableRows \/ row' = SyncedRows \/ Plans \/ Rests => Passes(row[k], row'[k])
  BY <1>0, PassSame, ClaimPasses, SyncPasses DEF Plans, Rests
<1>. QED
  BY <1>0, <1>1, <1>2, <1>3, <1>4, TableMoves

(* A policy that is saved while a failed message waits never brings its retry
   forward: a moment of a row changes only to a later one, or to the retry time of
   the failure itself. *)
THEOREM BackoffHeld == Spec => BackoffKept
<1>1. TypeOK /\ [Next]_vars =>
          \A k \in Keys :
              (/\ row[k].status = "scheduled" /\ row[k].attempt > 0
               /\ row'[k].status = "scheduled" /\ row'[k].attempt = row[k].attempt) =>
                  \/ row'[k].ready >= row[k].ready
                  \/ \E w \in Workers : /\ pc[w] = "retry" /\ lease[w].key = k
                                        /\ row'[k].ready = lease[w].retryAt
  BY WaitsOn
<1>. QED
  BY <1>1, AlwaysTyped, PTL DEF Spec, BackoffKept

-----------------------------------------------------------------------------
(* Processes hold rows that exist, and receipts of messages that were taken. *)

HeldExist == \A w \in Workers : Busy(pc[w]) => row[lease[w].key].status # "absent"

Receipted(place) == place \in {"receipt", "mark"}

ReceiptsTaken ==
    /\ \A w \in Workers : Receipted(pc[w]) => lease[w].key \in accepted
    /\ \A k \in Keys : row[k].status = "sent" => k \in accepted

(* A process is past claim_due with the row it had, or with one just leased. *)
KeepsHold ==
    \A w \in Workers : Busy(pc'[w]) =>
        \/ /\ Busy(pc[w]) /\ lease'[w].key = lease[w].key
           /\ Receipted(pc'[w]) => Receipted(pc[w]) \/ lease[w].key \in accepted'
        \/ lease'[w].key \in Keys /\ row'[lease'[w].key].status = "leased" /\ ~Receipted(pc'[w])

LEMMA OneMoves ==
    ASSUME TypeOK, NEW w \in Workers, NEW q, NEW l,
           pc' = [pc EXCEPT ![w] = q], lease' = [lease EXCEPT ![w] = l],
           Busy(q) => \/ /\ Busy(pc[w]) /\ l.key = lease[w].key
                         /\ Receipted(q) => Receipted(pc[w]) \/ lease[w].key \in accepted'
                      \/ l.key \in Keys /\ row'[l.key].status = "leased" /\ ~Receipted(q)
    PROVE  KeepsHold
<1>1. /\ pc'[w] = q /\ lease'[w] = l
      /\ \A v \in Workers \ {w} : pc'[v] = pc[v] /\ lease'[v] = lease[v]
  BY DEF TypeOK
<1>. QED
  BY <1>1 DEF KeepsHold

LEMMA GotoHolds ==
    ASSUME TypeOK, NEW w \in Workers, NEW q, Goto(w, q), Busy(pc[w]),
           Receipted(q) => Receipted(pc[w]) \/ lease[w].key \in accepted'
    PROVE  KeepsHold
<1>1. lease' = [lease EXCEPT ![w] = lease[w]] /\ pc' = [pc EXCEPT ![w] = q]
  BY DEF Goto, TypeOK
<1>. QED
  BY <1>1, OneMoves

LEMMA ForgetHolds ==
    ASSUME TypeOK, NEW w \in Workers, NEW q \in {"idle", "down"}, Forget(w, q)
    PROVE  KeepsHold
<1>1. lease' = [lease EXCEPT ![w] = NoLease] /\ pc' = [pc EXCEPT ![w] = q] /\ ~Busy(q)
  BY DEF Forget, Busy
<1>. QED
  BY <1>1, OneMoves

LEMMA WorkerHolds ==
    ASSUME TypeOK, NEW w \in Workers, Work(w) \/ Crash(w) \/ Restart(w)
    PROVE  KeepsHold
<1>1. CASE Claim(w)
  <2>1. ASSUME NEW k \in Keys, TakesOne(w, k), pc' = [pc EXCEPT ![w] = "calling"],
               lease' = [lease EXCEPT ![w] = [key |-> k, retryAt |-> 0,
                             attempt |-> Leased(w, ClaimableRows[k]).attempt]]
        PROVE  KeepsHold
    <3>. DEFINE l == [key |-> k, retryAt |-> 0,
                      attempt |-> Leased(w, ClaimableRows[k]).attempt]
    <3>1. l.key = k /\ row'[k].status = "leased" /\ ~Receipted("calling")
      BY <2>1, TakenRow DEF Receipted
    <3>2. lease' = [lease EXCEPT ![w] = l]
      BY <2>1
    <3>. HIDE DEF l
    <3>. QED
      BY <2>1, <3>1, <3>2, OneMoves
  <2>2. CASE UNCHANGED workerVars
    BY <2>2 DEF workerVars, KeepsHold, Busy
  <2>3. CASE pc' = [pc EXCEPT ![w] = "down"] /\ UNCHANGED lease
    <3>1. lease' = [lease EXCEPT ![w] = lease[w]] /\ ~Busy("down")
      BY <2>3 DEF TypeOK, Busy
    <3>. QED
      BY <2>3, <3>1, OneMoves
  <2>. QED
    BY <1>1, <2>1, <2>2, <2>3, ClaimTakes
<1>2. CASE Deliver(w)
  <2>1. Busy(pc[w])
    BY <1>2 DEF Deliver, Busy
  <2>2. CASE Reached(w) /\ Goto(w, "receipt")
    BY <2>1, <2>2, GotoHolds DEF Reached
  <2>3. CASE Goto(w, "failed")
    BY <2>1, <2>3, GotoHolds DEF Receipted
  <2>. QED
    BY <1>2, <2>2, <2>3 DEF Deliver
<1>3. CASE MarkSentReads(w)
  BY <1>3, GotoHolds DEF MarkSentReads, Busy, Receipted
<1>4. CASE MarkSentWrites(w) \/ FailWrites(w) \/ Crash(w)
  BY <1>4, GotoHolds, ForgetHolds DEF MarkSentWrites, FailWrites, Crash, Busy, Receipted
<1>5. CASE FailReads(w)
  <2>1. CASE Goto(w, "bury") \/ Forget(w, "down")
    BY <1>5, <2>1, GotoHolds, ForgetHolds DEF FailReads, Busy, Receipted
  <2>2. CASE /\ pc' = [pc EXCEPT ![w] = "retry"]
             /\ lease' = [lease EXCEPT ![w].retryAt = now + Backoff(lease[w].attempt)]
    <3>. DEFINE l == [lease[w] EXCEPT !.retryAt = now + Backoff(lease[w].attempt)]
    <3>1. lease[w] \in HeldLease
      BY DEF TypeOK
    <3>2. l.key = lease[w].key
      BY <3>1 DEF HeldLease
    <3>3. lease' = [lease EXCEPT ![w] = l] /\ Busy(pc[w]) /\ ~Receipted("retry")
      BY <1>5, <2>2 DEF FailReads, Busy, Receipted
    <3>. HIDE DEF l
    <3>. QED
      BY <2>2, <3>2, <3>3, OneMoves
  <2>. QED
    BY <1>5, <2>1, <2>2 DEF FailReads
<1>6. CASE Restart(w)
  <2>1. lease' = [lease EXCEPT ![w] = lease[w]] /\ ~Busy("idle")
    BY <1>6 DEF Restart, TypeOK, Busy
  <2>. QED
    BY <1>6, <2>1, OneMoves DEF Restart
<1>. QED
  BY <1>1, <1>2, <1>3, <1>4, <1>5, <1>6 DEF Work

(* Everybody else leaves the processes and what Feishu took alone. *)
LEMMA OthersStayPut ==
    ASSUME TypeOK, [Next]_vars, ~\E w \in Workers : Work(w) \/ Crash(w) \/ Restart(w)
    PROVE  UNCHANGED <<pc, lease, accepted>>
<1>1. CASE UNCHANGED vars \/ ChangeChat \/ SyncAll \/ Tick
  BY <1>1 DEF vars, ChangeChat, SyncAll, Tick, workerVars
<1>2. CASE \E t \in Tasks : TaskStep(t)
  BY <1>2, TaskStepAfter DEF workerVars
<1>. QED
  BY <1>1, <1>2 DEF Next

LEMMA NextHolds ==
    ASSUME TypeOK, [Next]_vars
    PROVE  KeepsHold
<1>1. CASE \E w \in Workers : Work(w) \/ Crash(w) \/ Restart(w)
  BY <1>1, WorkerHolds
<1>2. CASE UNCHANGED <<pc, lease, accepted>>
  BY <1>2 DEF KeepsHold
<1>. QED
  BY <1>1, <1>2, OthersStayPut

(* What Feishu took changes by one message at a time, and then no row moves. *)
LEMMA TakenOneByOne ==
    ASSUME TypeOK, [Next]_vars
    PROVE  \/ UNCHANGED accepted
           \/ UNCHANGED row /\ \E k \in Keys : accepted' = accepted \cup {k}
<1>1. ASSUME NEW w \in Workers, Deliver(w)
      PROVE  \/ UNCHANGED accepted
             \/ UNCHANGED row /\ \E k \in Keys : accepted' = accepted \cup {k}
  BY <1>1 DEF Deliver, Reached, TypeOK
<1>2. ASSUME NEW w \in Workers,
             \/ MarkSentReads(w) \/ MarkSentWrites(w) \/ FailReads(w) \/ FailWrites(w)
             \/ Claim(w) \/ Crash(w) \/ Restart(w)
      PROVE  UNCHANGED accepted
  BY <1>2 DEF MarkSentReads, MarkSentWrites, FailReads, FailWrites, Claim, Crash, Restart
<1>. QED
  BY <1>1, <1>2, OthersStayPut DEF Work

(* Every row in every transaction. *)
LEMMA RowsGo ==
    ASSUME TypeOK, HeldExist, [Next]_vars, NEW k \in Keys
    PROVE  LET r == row[k]
               s == row'[k]
           IN  \/ Passes(r, s)
               \/ /\ s.status = "leased" /\ r.status \notin {"sent", "dead"}
               \/ /\ r.status \in {"scheduled", "leased", "dead", "sent"}
                  /\ s.status \in {"sent", "dead", "scheduled"}
                  /\ r.status = "sent" => s.status = "sent"
                  /\ s.status = "sent" =>
                        \E w \in Workers : pc[w] = "mark" /\ lease[w].key = k
                  /\ s.status = "scheduled" =>
                        \E w \in Workers : pc[w] = "retry" /\ lease[w].key = k
<1>0. Tables /\ Good(row[k])
  BY TypeOKTables DEF TypeOK, Good
<1>1. ASSUME NEW w \in Workers, NEW j \in Keys, TakesOne(w, j)
      PROVE  \/ Passes(row[k], row'[k])
             \/ row'[k].status = "leased" /\ row[k].status \notin {"sent", "dead"}
  <2>1. CASE j # k
    BY <1>0, <1>1, <2>1, TakenRow, ClaimPasses
  <2>2. CASE j = k
    <3>1. ClaimableRows[k].status = "scheduled" /\ row'[k].status = "leased"
      BY <1>1, <2>2, TakenRow
    <3>2. Passes(row[k], ClaimableRows[k])
      BY <1>0, ClaimPasses
    <3>. QED
      BY <3>1, <3>2 DEF Passes
  <2>. QED
    BY <2>1, <2>2
<1>2. ASSUME NEW w \in Workers, NEW s, Stores(w, s), lease[w].key = k
      PROVE  /\ row[k].status \in {"scheduled", "leased", "dead", "sent"}
             /\ row'[k].status \in {"sent", "dead", "scheduled"}
             /\ row[k].status = "sent" => row'[k].status = "sent"
             /\ row'[k].status = "sent" => pc[w] = "mark"
             /\ row'[k].status = "scheduled" => pc[w] = "retry"
  <2>1. /\ Good(s) /\ s.reason = row[k].reason /\ row'[k] = s
        /\ s.status \in {"sent", "dead", "scheduled"}
        /\ s.status = "sent" => pc[w] = "mark"
        /\ s.status = "scheduled" => pc[w] = "retry"
        /\ row[k].status = "sent" => s.status = "sent"
    BY <1>2, StoredRow
  <2>2. row[k].status # "cancelled"
    BY <1>0, <2>1 DEF Good, RowChecks
  <2>3. row[k].status # "absent"
    BY <1>2 DEF HeldExist, Stores, Busy
  <2>4. row[k].status \in {"scheduled", "leased", "dead", "sent"}
    BY <1>0, <2>2, <2>3 DEF Good, Notification
  <2>. QED
    BY <2>1, <2>4
<1>3. ASSUME NEW w \in Workers, NEW s, Stores(w, s), lease[w].key # k
      PROVE  Passes(row[k], row'[k])
  BY <1>0, <1>3, StoredRow, PassSame
<1>4. row' = ClaimableRows \/ row' = SyncedRows \/ Plans \/ Rests => Passes(row[k], row'[k])
  BY <1>0, PassSame, ClaimPasses, SyncPasses DEF Plans, Rests
<1>5. (\E w \in Workers : \E s : Stores(w, s)) =>
          \/ Passes(row[k], row'[k])
          \/ \E w \in Workers :
                /\ lease[w].key = k
                /\ row[k].status \in {"scheduled", "leased", "dead", "sent"}
                /\ row'[k].status \in {"sent", "dead", "scheduled"}
                /\ row[k].status = "sent" => row'[k].status = "sent"
                /\ row'[k].status = "sent" => pc[w] = "mark"
                /\ row'[k].status = "scheduled" => pc[w] = "retry"
  BY <1>2, <1>3
<1>. QED
  BY <1>0, <1>1, <1>4, <1>5, TableMoves

LEMMA RowsStay ==
    ASSUME TypeOK, HeldExist, [Next]_vars, NEW k \in Keys
    PROVE  row[k].status # "absent" => row'[k].status # "absent"
  BY RowsGo DEF Passes

LEMMA NextHeld == TypeOK /\ HeldExist /\ [Next]_vars => HeldExist'
<1>. SUFFICES ASSUME TypeOK, HeldExist, [Next]_vars, NEW w \in Workers, Busy(pc'[w])
              PROVE  row'[lease'[w].key].status # "absent"
  BY DEF HeldExist
<1>1. CASE Busy(pc[w]) /\ lease'[w].key = lease[w].key
  <2>1. lease[w].key \in Keys /\ row[lease[w].key].status # "absent"
    BY <1>1 DEF TypeOK, HeldExist, Busy
  <2>. QED
    BY <1>1, <2>1, RowsStay
<1>. QED
  BY <1>1, NextHolds DEF KeepsHold

LEMMA NextTaken == TypeOK /\ HeldExist /\ ReceiptsTaken /\ [Next]_vars => ReceiptsTaken'
<1>. SUFFICES ASSUME TypeOK, HeldExist, ReceiptsTaken, [Next]_vars
              PROVE  ReceiptsTaken'
  OBVIOUS
<1>1. accepted \subseteq accepted'
  BY TakenOneByOne
<1>2. ASSUME NEW w \in Workers, Receipted(pc'[w])
      PROVE  lease'[w].key \in accepted'
  <2>1. Busy(pc'[w])
    BY <1>2 DEF Receipted, Busy
  <2>. QED
    BY <1>1, <1>2, <2>1, NextHolds DEF KeepsHold, ReceiptsTaken
<1>3. ASSUME NEW k \in Keys, row'[k].status = "sent"
      PROVE  k \in accepted'
  <2>1. \/ row'[k] = row[k]
        \/ \E w \in Workers : pc[w] = "mark" /\ lease[w].key = k
    BY <1>3, RowsGo DEF Passes
  <2>. QED
    BY <1>1, <1>3, <2>1 DEF ReceiptsTaken, Receipted
<1>. QED
  BY <1>2, <1>3 DEF ReceiptsTaken

Held == TypeOK /\ EventsBudgeted /\ HeldExist /\ ReceiptsTaken

LEMMA AlwaysHeld == Spec => []Held
<1>1. Init => Held
  BY InitType DEF Init, Held, HeldExist, ReceiptsTaken, Busy, Receipted, NoRow
<1>2. Held /\ [Next]_vars => Held'
  BY NextType, NextHeld, NextTaken DEF Held
<1>. QED
  BY <1>1, <1>2, PTL DEF Spec

-----------------------------------------------------------------------------
(* The refinement. *)

LEMMA RowsAsItems ==
    ASSUME TypeOK, HeldExist, [Next]_vars, NEW k \in Keys, row'[k] \in Notification
    PROVE  <<Phase(row[k]), Phase(row'[k])>> \in Outbox!Moves
<1>. DEFINE r == row[k]
            s == row'[k]
<1>1. r \in Notification /\ s \in Notification
  BY DEF TypeOK
<1>2. \/ Passes(r, s)
      \/ s.status = "leased" /\ r.status \notin {"sent", "dead"}
      \/ /\ r.status \in {"scheduled", "leased", "dead", "sent"}
         /\ s.status \in {"sent", "dead", "scheduled"}
         /\ r.status = "sent" => s.status = "sent"
  BY RowsGo
<1>. HIDE DEF r, s
<1>3. Phase(r) \in Outbox!States /\ Phase(s) \in Outbox!States
  BY <1>1 DEF Phase, Active, Notification, Outbox!States
<1>4. Phase(r) # "dropped" /\ Phase(s) # "dropped"
  BY <1>1 DEF Phase, Active, Notification
<1>5. Phase(r) = "sent" => Phase(s) = "sent"
  BY <1>1, <1>2 DEF Phase, Active, Notification, Passes
<1>6. Phase(r) = "dead" => Phase(s) \in {"dead", "pending", "sent"}
  BY <1>1, <1>2 DEF Phase, Active, Notification, Passes
<1>7. Phase(r) = "none" => Phase(s) \in {"none", "pending"}
  BY <1>1, <1>2 DEF Phase, Active, Notification, Passes
<1>8. <<Phase(r), Phase(s)>> \in Outbox!Moves
  BY <1>3, <1>4, <1>5, <1>6, <1>7 DEF Outbox!Moves, Outbox!States
<1>. QED
  BY <1>8 DEF r, s

LEMMA StepRefines ==
    ASSUME Held, Held', [Next]_vars
    PROVE  [Outbox!Next]_(Outbox!outbox)
<1>0. TypeOK /\ HeldExist /\ \A k \in Keys : row'[k] \in Notification
  BY DEF Held, TypeOK
<1>1. CASE UNCHANGED row /\ \E k \in Keys : accepted' = accepted \cup {k}
  <2>1. PICK k \in Keys : accepted' = accepted \cup {k}
    BY <1>1
  <2>2. accepted' \X {"private"} = (accepted \X {"private"}) \cup {<<k, "private">>}
    BY <2>1
  <2>. QED
    BY <1>1, <2>2 DEF Outbox!Next, Outbox!Deliver
<1>2. CASE UNCHANGED accepted
  <2>1. \A k \in Keys : <<Phase(row[k]), Phase(row'[k])>> \in Outbox!Moves
    BY <1>0, RowsAsItems
  <2>2. \A k \in Keys : Phase(row'[k]) \in Outbox!States
    BY <1>0 DEF Phase, Active, Notification, Outbox!States
  <2>3. ASSUME NEW k \in Keys, Phase(row'[k]) = "sent"
        PROVE  \E c \in {"private"} : <<k, c>> \in accepted \X {"private"}
    <3>1. row'[k].status = "sent"
      BY <1>0, <2>3 DEF Phase, Active, Notification
    <3>2. k \in accepted
      BY <1>2, <3>1 DEF Held, ReceiptsTaken
    <3>. QED
      BY <3>2
  <2>4. Outbox!Commit
    BY <1>2, <2>1, <2>2, <2>3 DEF Outbox!Commit
  <2>. QED
    BY <2>4 DEF Outbox!Next
<1>. QED
  BY <1>0, <1>1, <1>2, TakenOneByOne

(* The notification queue is a durable outbox too, whatever its workers, crashes,
   leases and late writes: a sent row is final, a row becomes sent only when Feishu
   took its message, a cancelled one is never sent unless it is planned again. *)
THEOREM NotificationsImplementOutbox == Spec => ImplementsOutbox
<1>1. Init => Outbox!Init
  <2>. SUFFICES ASSUME Init
                PROVE  Outbox!Init
    OBVIOUS
  <2>1. \A k \in Keys : Phase(row[k]) = "none"
    <3>1. \A k \in Keys : row[k].status = "absent"
      BY NoRowGood DEF Init
    <3>. QED
      BY <3>1 DEF Phase, Active
  <2>2. accepted \X {"private"} = {}
    BY DEF Init
  <2>. QED
    BY <2>1, <2>2 DEF Outbox!Init
<1>2. Held /\ Held' /\ [Next]_vars => [Outbox!Next]_(Outbox!outbox)
  BY StepRefines
<1>. QED
  BY <1>1, <1>2, AlwaysHeld, PTL DEF Spec, ImplementsOutbox, Outbox!Spec

-----------------------------------------------------------------------------
(* Events: read once, and told in one role. *)

Exists(k) == row[k].status # "absent"

(* What a synchronization that reads the event k is about plans for k. *)
News(k) ==
    /\ k.about \in Unread /\ event[k.about].task = k.task
    /\ event[k.about].action # "merge" /\ k.member \in Told(k.about, k.kind)

(* Rows about events are about events that were read, in the task of the event, and
   not its actor's; nobody has rows in both roles. *)
EventRowsFit ==
    /\ \A k \in Keys : k.kind \in EventKinds /\ Exists(k) =>
          /\ k.about \in 1..Len(event) /\ k.about \notin Unread
          /\ k.task = event[k.about].task /\ k.member # event[k.about].actor
    /\ \A j, k \in Keys :
          /\ j.kind \in EventKinds /\ k.kind \in EventKinds
          /\ j.about = k.about /\ j.member = k.member /\ Exists(j) /\ Exists(k)
          => j.kind = k.kind

LEMMA SyncedExists ==
    ASSUME Tables, NEW k \in Keys, k.kind \in EventKinds
    PROVE  SyncedRows[k].status # "absent" <=> Exists(k) \/ (admitted /\ News(k))
<1>. DEFINE r == row[k]
<1>0. Good(r) /\ SyncedRows[k] = SyncRow(k, r)
  BY DEF Tables, Good, SyncedRows
<1>1. \A why \in Reasons : Cancelled(r, why).status = "cancelled"
  BY <1>0, CancelledRow DEF Good
<1>2. "policy" \in Reasons /\ "withdrawn" \in Reasons
  BY DEF Reasons
<1>3. Active(r) => r.status # "absent"
  BY DEF Active
<1>4. CASE ~admitted
  <2>1. SyncRow(k, r) = IF Active(r) THEN Cancelled(r, "withdrawn") ELSE r
    BY <1>4 DEF SyncRow
  <2>. QED
    BY <1>0, <1>1, <1>2, <1>3, <1>4, <2>1 DEF Exists
<1>5. CASE admitted /\ News(k)
  <2>0. k.kind = "event_admin" => k.member \in Alerted
    BY <1>5 DEF News, Told
  <2>1. SyncEvent(k, r) = Ensured(r, event[k.about].at)
    BY <1>5, <2>0 DEF SyncEvent, News
  <2>2. event[k.about].at \in Int
    BY <1>5, UnreadEvents DEF News
  <2>3. Ensured(r, event[k.about].at).status # "absent"
    BY <2>2, PlannedRow DEF Ensured
  <2>4. SyncRow(k, r) = SyncEvent(k, r)
    BY <1>5 DEF SyncRow, EventKinds
  <2>. QED
    BY <1>0, <1>5, <2>1, <2>3, <2>4
<1>6. CASE admitted /\ ~News(k)
  <2>1. SyncRow(k, r) = SyncEvent(k, r)
    BY <1>6 DEF SyncRow, EventKinds
  <2>2. SyncEvent(k, r) = r \/ (Active(r) /\ SyncEvent(k, r) = Cancelled(r, "policy"))
    BY <1>6 DEF SyncEvent, News
  <2>. QED
    BY <1>0, <1>1, <1>2, <1>3, <1>6, <2>1, <2>2 DEF Exists
<1>. QED
  BY <1>4, <1>5, <1>6

LEMMA ReadsExists ==
    ASSUME TypeOK, NEW k \in Keys, k.kind \in EventKinds,
           \/ \E w \in Workers, j \in Keys : TakesOne(w, j)
           \/ row' = ClaimableRows
           \/ row' = SyncedRows
    PROVE  Exists(k)' <=> Exists(k) \/ (admitted /\ News(k))
<1>0. Tables /\ now \in Int
  BY TypeOKTables, TimeAssumption DEF TypeOK, TimeAssumption
<1>1. Good(SyncedRows[k])
  BY <1>0, SyncPasses DEF Passes
<1>2. ClaimableRows[k].status # "absent" <=> SyncedRows[k].status # "absent"
  <2>1. ClaimableRows[k] = Recovered(SyncedRows[k])
    BY DEF ClaimableRows
  <2>. QED
    BY <1>0, <1>1, <2>1, RecoveredFit
<1>3. ASSUME NEW w \in Workers, NEW j \in Keys, TakesOne(w, j)
      PROVE  row'[k].status # "absent" <=> ClaimableRows[k].status # "absent"
  BY <1>3, TakenRow
<1>4. row'[k].status # "absent" <=> SyncedRows[k].status # "absent"
  BY <1>2, <1>3
<1>. QED
  BY <1>0, <1>4, SyncedExists DEF Exists

(* A step either reads all events, or tells nobody of any. *)
LEMMA EventRowsMove ==
    ASSUME TypeOK, HeldExist, [Next]_vars
    PROVE  \/ /\ Reads
              /\ \A k \in Keys : k.kind \in EventKinds =>
                    (Exists(k)' <=> Exists(k) \/ (admitted /\ News(k)))
           \/ /\ UNCHANGED <<cursor, deferred>>
              /\ \A k \in Keys : k.kind \in EventKinds => (Exists(k)' <=> Exists(k))
<1>0. Tables /\ \A k \in Keys : Good(row[k])
  BY TypeOKTables DEF TypeOK, Good
<1>1. CASE \/ \E w \in Workers, k \in Keys : TakesOne(w, k)
           \/ Reads /\ row' = ClaimableRows
           \/ Reads /\ row' = SyncedRows
  BY <1>1, ReadsExists DEF TakesOne
<1>2. ASSUME NEW w \in Workers, NEW s, Stores(w, s)
      PROVE  /\ UNCHANGED <<cursor, deferred>>
             /\ \A k \in Keys : Exists(k)' <=> Exists(k)
  <2>1. row[lease[w].key].status # "absent"
    BY <1>2 DEF Stores, HeldExist, Busy
  <2>2. \A k \in Keys : row'[k].status # "absent" <=> row[k].status # "absent"
    BY <1>2, <2>1, StoredRow
  <2>. QED
    BY <1>2, <2>2 DEF Stores, Exists
<1>3. CASE Plans
  <2>1. \A k \in Keys : k.kind \in EventKinds =>
            (row'[k].status # "absent" <=> row[k].status # "absent")
    BY <1>3 DEF Plans, Passes, Active
  <2>. QED
    BY <1>3, <2>1 DEF Plans, Exists
<1>4. CASE Rests
  BY <1>4 DEF Rests, Exists
<1>. QED
  BY <1>0, <1>1, <1>2, <1>3, <1>4, TableMoves

LEMMA UnreadAfterReading ==
    ASSUME TypeOK, Reads
    PROVE  Unread' = IF admitted THEN {} ELSE Unread
<1>. DEFINE n == Len(event)
<1>1. n \in Nat /\ cursor' = n /\ Len(event') = n /\ deferred' = StillDeferred
  BY DEF Reads, TypeOK
<1>2. Unread' = ((n + 1)..n) \cup StillDeferred
  BY <1>1 DEF Unread
<1>. HIDE DEF n
<1>3. (n + 1)..n = {}
  BY <1>1
<1>. QED
  BY <1>2, <1>3 DEF StillDeferred

LEMMA UnreadOtherwise ==
    ASSUME TypeOK, [Next]_vars, UNCHANGED <<cursor, deferred>>
    PROVE  /\ Len(event) <= Len(event') /\ Len(event) \in Nat /\ Len(event') \in Nat
           /\ \A e \in 1..Len(event) : event'[e] = event[e] /\ (e \in Unread' <=> e \in Unread)
           /\ \A e \in 1..Len(event') : e \notin Unread' => e \in 1..Len(event)
<1>. DEFINE n == Len(event)
            m == Len(event')
<1>1. n \in Nat /\ cursor \in 0..n /\ event \in Seq(Event)
  BY DEF TypeOK
<1>2. \/ event' = event /\ m = n
      \/ m = n + 1 /\ \A e \in 1..n : event'[e] = event[e]
  <2>1. ASSUME NEW e \in Event, event' = Append(event, e)
        PROVE  m = n + 1 /\ \A i \in 1..n : event'[i] = event[i]
    BY <1>1, <2>1
  <2>. QED
    BY <2>1, EventsMove
<1>3. /\ Unread = ((cursor + 1)..n) \cup deferred
      /\ Unread' = ((cursor + 1)..m) \cup deferred
  BY DEF Unread
<1>4. n <= m /\ m \in Nat
  <2>. HIDE DEF n, m
  <2>. QED  BY <1>1, <1>2
<1>5. \A e \in 1..n : event'[e] = event[e]
  BY <1>2
<1>. HIDE DEF n, m
<1>6. \A e \in 1..n : e \in (cursor + 1)..n <=> e \in (cursor + 1)..m
  BY <1>1, <1>4
<1>7. \A e \in 1..m : e \notin (cursor + 1)..m => e \in 1..n
  BY <1>1, <1>4
<1>8. \A e \in 1..n : e \in Unread' <=> e \in Unread
  BY <1>3, <1>6
<1>9. \A e \in 1..m : e \notin Unread' => e \in 1..n
  BY <1>3, <1>7
<1>. QED
  BY <1>1, <1>4, <1>5, <1>8, <1>9 DEF n, m

LEMMA EventRowsStep ==
    ASSUME TypeOK, HeldExist, EventRowsFit, [Next]_vars
    PROVE  EventRowsFit'
<1>1. CASE /\ Reads
           /\ \A k \in Keys : k.kind \in EventKinds =>
                 (Exists(k)' <=> Exists(k) \/ (admitted /\ News(k)))
  <2>0. /\ event' = event
        /\ Unread' = IF admitted THEN {} ELSE Unread
    BY <1>1, UnreadAfterReading DEF Reads
  <2>1. ASSUME NEW k \in Keys, k.kind \in EventKinds, Exists(k)'
        PROVE  /\ k.about \in 1..Len(event) /\ k.about \notin Unread'
               /\ k.task = event[k.about].task /\ k.member # event[k.about].actor
    <3>1. CASE Exists(k)
      BY <2>0, <2>1, <3>1 DEF EventRowsFit
    <3>2. CASE admitted /\ News(k)
      <4>1. k.about \in 1..Len(event)
        BY <3>2, UnreadEvents, TypeOKTables DEF News
      <4>2. k.member # event[k.about].actor
        BY <3>2 DEF News, Told
      <4>. QED
        BY <2>0, <3>2, <4>1, <4>2 DEF News
    <3>. QED
      BY <1>1, <2>1, <3>1, <3>2
  <2>2. ASSUME NEW j \in Keys, NEW k \in Keys,
               j.kind \in EventKinds, k.kind \in EventKinds,
               j.about = k.about, j.member = k.member, Exists(j)', Exists(k)'
        PROVE  j.kind = k.kind
    <3>1. CASE Exists(j) /\ Exists(k)
      BY <2>2, <3>1 DEF EventRowsFit
    <3>2. CASE News(j) /\ News(k)
      <4>1. k.member \in Told(k.about, j.kind) /\ k.member \in Told(k.about, k.kind)
        BY <2>2, <3>2 DEF News
      <4>. QED
        BY <2>2, <4>1 DEF Told, EventKinds
    <3>3. ~(Exists(j) /\ News(k)) /\ ~(Exists(k) /\ News(j))
      BY <2>2 DEF EventRowsFit, News
    <3>. QED
      BY <1>1, <2>2, <3>1, <3>2, <3>3
  <2>. QED
    BY <2>0, <2>1, <2>2 DEF EventRowsFit
<1>2. CASE /\ UNCHANGED <<cursor, deferred>>
           /\ \A k \in Keys : k.kind \in EventKinds => (Exists(k)' <=> Exists(k))
  <2>1. ASSUME NEW k \in Keys, k.kind \in EventKinds, Exists(k)'
        PROVE  /\ k.about \in 1..Len(event') /\ k.about \notin Unread'
               /\ k.task = event'[k.about].task /\ k.member # event'[k.about].actor
    <3>. DEFINE n == Len(event)
                m == Len(event')
    <3>1. /\ k.about \in 1..n /\ k.about \notin Unread
          /\ k.task = event[k.about].task /\ k.member # event[k.about].actor
      BY <1>2, <2>1 DEF EventRowsFit
    <3>2. n <= m /\ n \in Nat /\ m \in Nat
      BY <1>2, UnreadOtherwise
    <3>3. event'[k.about] = event[k.about] /\ k.about \notin Unread'
      BY <1>2, <3>1, UnreadOtherwise
    <3>. HIDE DEF n, m
    <3>4. k.about \in 1..m
      BY <3>1, <3>2
    <3>. QED
      BY <3>1, <3>3, <3>4 DEF m
  <2>2. \A j, k \in Keys :
            /\ j.kind \in EventKinds /\ k.kind \in EventKinds
            /\ j.about = k.about /\ j.member = k.member /\ Exists(j)' /\ Exists(k)'
            => j.kind = k.kind
    BY <1>2 DEF EventRowsFit
  <2>. QED
    BY <2>1, <2>2 DEF EventRowsFit
<1>. QED
  BY <1>1, <1>2, EventRowsMove

LEMMA AlwaysRead == Spec => [](Held /\ EventRowsFit)
<1>1. Init => EventRowsFit
  BY NoRowGood DEF Init, EventRowsFit, Exists
<1>2. Held /\ EventRowsFit /\ [Next]_vars => EventRowsFit'
  BY EventRowsStep DEF Held
<1>. QED
  BY <1>1, <1>2, AlwaysHeld, PTL DEF Spec

LEMMA OncePerEvent ==
    ASSUME TypeOK, EventRowsFit
    PROVE  ToldOnce
<1>. SUFFICES ASSUME NEW e \in 1..Len(event), NEW m \in Members
              PROVE  /\ Cardinality(RowsOf(e, m)) <= 1
                     /\ m = event[e].actor => RowsOf(e, m) = {}
  BY DEF ToldOnce
<1>1. \A k \in RowsOf(e, m) : /\ k \in Keys /\ k.kind \in EventKinds /\ k.about = e
                              /\ k.member = m /\ Exists(k)
  BY DEF RowsOf, EventKinds, Exists
<1>2. ASSUME NEW j \in RowsOf(e, m), NEW k \in RowsOf(e, m)
      PROVE  j = k
  <2>1. j.task = k.task /\ j.kind = k.kind /\ j.about = k.about /\ j.member = k.member
    BY <1>1 DEF EventRowsFit
  <2>2. /\ j = [task |-> j.task, member |-> j.member, kind |-> j.kind, about |-> j.about]
        /\ k = [task |-> k.task, member |-> k.member, kind |-> k.kind, about |-> k.about]
    BY <1>1, KeyParts
  <2>. QED
    BY <2>1, <2>2
<1>3. Cardinality(RowsOf(e, m)) <= 1
  <2>1. CASE RowsOf(e, m) = {}
    BY <2>1, FS_EmptySet
  <2>2. ASSUME NEW k \in RowsOf(e, m)
        PROVE  Cardinality(RowsOf(e, m)) <= 1
    <3>1. RowsOf(e, m) = {k}
      BY <1>2
    <3>2. Cardinality({k}) = 1
      BY FS_Singleton
    <3>. QED
      BY <3>1, <3>2
  <2>. QED
    BY <2>1, <2>2
<1>4. m = event[e].actor => RowsOf(e, m) = {}
  BY <1>1 DEF EventRowsFit
<1>. QED
  BY <1>3, <1>4

(* A member is told of one event in one role at most, and never of an action of his
   own, however late the event is read and whatever owners and administrators have
   become by then. *)
THEOREM ToldInOneRole == Spec => []ToldOnce
<1>1. Held /\ EventRowsFit => ToldOnce
  BY OncePerEvent DEF Held
<1>. QED
  BY <1>1, AlwaysRead, PTL

(* Who has a row about an event, by what exists. *)
LEMMA InformedOf ==
    ASSUME NEW e, NEW m \in Members
    PROVE  /\ m \in Informed(e) <=>
                \E k \in Keys : /\ k.kind \in EventKinds /\ k.about = e
                                /\ k.member = m /\ Exists(k)
           /\ m \in Informed(e)' <=>
                \E k \in Keys : /\ k.kind \in EventKinds /\ k.about = e
                                /\ k.member = m /\ Exists(k)'
<1>1. m \in Informed(e) <=> RowsOf(e, m) # {}
  BY DEF Informed
<1>2. m \in Informed(e)' <=> RowsOf(e, m)' # {}
  BY DEF Informed
<1>. QED
  BY <1>1, <1>2 DEF RowsOf, EventKinds, Exists

(* Everybody whom an unread event tells, in either role, has a key of his own. *)
LEMMA NewsOf ==
    ASSUME TypeOK, NEW e \in Unread, event[e].action # "merge", NEW m \in Members
    PROVE  m \in (Concerned(e) \cup Alerted) \ {event[e].actor} <=>
               \E k \in Keys : /\ k.kind \in EventKinds /\ k.about = e
                               /\ k.member = m /\ News(k)
<1>1. event[e] \in Event /\ e \in 1..Len(event)
  BY UnreadEvents, TypeOKTables
<1>2. e \in 1..MaxEvents
  <2>1. Len(event) \in Nat /\ Len(event) <= MaxEvents /\ MaxEvents \in Nat
    BY LimitAssumption DEF TypeOK, LimitAssumption
  <2>. QED
    BY <1>1, <2>1
<1>3. \A kind \in EventKinds :
          [task |-> event[e].task, member |-> m, kind |-> kind, about |-> e] \in Keys
  BY <1>1, <1>2 DEF Event, Keys, EventKinds
<1>4. ASSUME NEW kind \in EventKinds, m \in Told(e, kind)
      PROVE  \E k \in Keys : /\ k.kind \in EventKinds /\ k.about = e
                             /\ k.member = m /\ News(k)
  <2>. DEFINE k == [task |-> event[e].task, member |-> m, kind |-> kind, about |-> e]
  <2>1. k \in Keys /\ k.kind = kind /\ k.about = e /\ k.member = m /\ k.task = event[e].task
    BY <1>3
  <2>. HIDE DEF k
  <2>2. News(k)
    BY <1>4, <2>1 DEF News
  <2>. QED
    BY <2>1, <2>2
<1>5. m \in (Concerned(e) \cup Alerted) \ {event[e].actor} <=>
          \E kind \in EventKinds : m \in Told(e, kind)
  BY DEF Told, EventKinds
<1>. QED
  BY <1>4, <1>5 DEF News

LEMMA WaitsUntold ==
    ASSUME TypeOK, EventRowsFit, NEW e \in Unread
    PROVE  Informed(e) = {}
  BY DEF Informed, RowsOf, EventRowsFit, Exists, EventKinds

LEMMA ReadStep ==
    ASSUME TypeOK, HeldExist, EventRowsFit, [Next]_vars, NEW e \in 1..Len(event)
    PROVE  /\ e \in Unread => Informed(e) = {}
           /\ e \in Unread /\ e \notin Unread' =>
                 Informed(e)' = IF event[e].action = "merge" THEN {}
                                ELSE (Concerned(e) \cup Alerted) \ {event[e].actor}
           /\ e \notin Unread => e \notin Unread' /\ Informed(e)' = Informed(e)
<1>0. Informed(e) \subseteq Members /\ Informed(e)' \subseteq Members
  BY DEF Informed
<1>1. CASE /\ Reads
           /\ \A k \in Keys : k.kind \in EventKinds =>
                 (Exists(k)' <=> Exists(k) \/ (admitted /\ News(k)))
  <2>1. Unread' = IF admitted THEN {} ELSE Unread
    BY <1>1, UnreadAfterReading
  <2>2. CASE e \notin Unread
    <3>1. \A k \in Keys : k.kind \in EventKinds /\ k.about = e =>
              (Exists(k)' <=> Exists(k))
      BY <1>1, <2>2 DEF News
    <3>2. \A m \in Members : m \in Informed(e)' <=> m \in Informed(e)
      BY <3>1, InformedOf
    <3>. QED
      BY <1>0, <2>1, <2>2, <3>2
  <2>3. CASE e \in Unread
    <3>1. Informed(e) = {}
      BY <2>3, WaitsUntold
    <3>2. \A k \in Keys : k.kind \in EventKinds /\ k.about = e => ~Exists(k)
      BY <2>3 DEF EventRowsFit
    <3>3. ASSUME e \notin Unread'
          PROVE  Informed(e)' = IF event[e].action = "merge" THEN {}
                                ELSE (Concerned(e) \cup Alerted) \ {event[e].actor}
      <4>1. \A k \in Keys : k.kind \in EventKinds /\ k.about = e =>
                (Exists(k)' <=> News(k))
        BY <1>1, <2>1, <2>3, <3>2, <3>3
      <4>2. \A m \in Members : m \in Informed(e)' <=>
                \E k \in Keys : /\ k.kind \in EventKinds /\ k.about = e
                                /\ k.member = m /\ News(k)
        BY <4>1, InformedOf
      <4>3. CASE event[e].action = "merge"
        BY <1>0, <4>2, <4>3 DEF News
      <4>4. CASE event[e].action # "merge"
        <5>1. Concerned(e) \cup Alerted \subseteq Members
          <6>1. event[e] \in Event
            BY <2>3, UnreadEvents, TypeOKTables
          <6>2. /\ task[event[e].task].owners \subseteq Members
                /\ event[e].before \subseteq Members /\ event[e].after \subseteq Members
            BY <6>1 DEF TypeOK, TaskRow, Event
          <6>3. Alerted \subseteq Members
            BY DEF Alerted, TypeOK
          <6>. QED
            BY <6>2, <6>3 DEF Concerned
        <5>2. \A m \in Members : m \in Informed(e)' <=>
                  m \in (Concerned(e) \cup Alerted) \ {event[e].actor}
          BY <2>3, <4>2, <4>4, NewsOf
        <5>. QED
          BY <1>0, <4>4, <5>1, <5>2
      <4>. QED
        BY <4>3, <4>4
    <3>. QED
      BY <2>3, <3>1, <3>3
  <2>. QED
    BY <2>2, <2>3
<1>2. CASE /\ UNCHANGED <<cursor, deferred>>
           /\ \A k \in Keys : k.kind \in EventKinds => (Exists(k)' <=> Exists(k))
  <2>1. e \in Unread' <=> e \in Unread
    BY <1>2, UnreadOtherwise
  <2>2. \A m \in Members : m \in Informed(e)' <=> m \in Informed(e)
    BY <1>2, InformedOf
  <2>. QED
    BY <1>0, <2>1, <2>2, WaitsUntold
<1>. QED
  BY <1>1, <1>2, EventRowsMove

(* No event is passed over, however often a chat goes outside and comes back: what
   is read is planned in that step for everybody it concerns then and for those to
   alert, what waits for nobody, and what was read is told to nobody else later. *)
THEOREM NoEventPassedOver == Spec => ReadIsPlanned
<1>1. Held /\ EventRowsFit /\ [Next]_vars =>
          \A e \in 1..Len(event) :
             /\ e \in Unread => Informed(e) = {}
             /\ e \in Unread /\ e \notin Unread' =>
                   Informed(e)' = IF event[e].action = "merge" THEN {}
                                  ELSE (Concerned(e) \cup Alerted) \ {event[e].actor}
             /\ e \notin Unread => e \notin Unread' /\ Informed(e)' = Informed(e)
  BY ReadStep DEF Held
<1>. QED
  BY <1>1, AlwaysRead, PTL DEF Spec, ReadIsPlanned

-----------------------------------------------------------------------------
(* Merged duplicates are told nothing more, with one worker slot: with two, a late
   failure of one can revive a row that the other buried, after the merge. *)

MergedIsClosed == \A t \in Tasks : task[t].merged => task[t].status = "cancelled"

HeldAlive == \A w \in Workers : Busy(pc[w]) => row[lease[w].key].status # "dead"

Merges == MergedIsClosed /\ HeldAlive /\ MergedIsWithdrawn

(* An operation on one task either leaves it unmerged, or merges it and ends the
   rows planned for it. *)
OnTask(t) ==
    /\ \A u \in Tasks \ {t} : task'[u] = task[u]
    /\ \A k \in Keys : k.task # t => row'[k] = row[k]
    /\ \/ ~task'[t].merged
       \/ /\ task'[t].status = "cancelled"
          /\ \A k \in Keys : k.task = t => ~Active(row'[k])

LEMMA UnmergedOn ==
    ASSUME TypeOK, NEW t \in Tasks, NEW tk \in TaskRow, ~tk.merged,
           task' = [task EXCEPT ![t] = Written(tk)],
           \A k \in Keys : k.task # t => row'[k] = row[k]
    PROVE  OnTask(t)
<1>1. \A u \in Tasks : task'[u] = IF u = t THEN Written(tk) ELSE task[u]
  BY DEF TypeOK
<1>2. ~Written(tk).merged
  BY WrittenFits
<1>. QED
  BY <1>1, <1>2 DEF OnTask

LEMMA AssignedOn ==
    ASSUME NEW t, NEW tk, NEW about
    PROVE  \A k \in Keys : k.task # t => Assigned(row, t, tk, about)[k] = row[k]
  BY DEF Assigned

LEMMA TaskOn ==
    ASSUME TypeOK, MergedIsClosed, NEW t \in Tasks, TaskStep(t)
    PROVE  OnTask(t)
<1>0. task[t] \in TaskRow /\ now \in Nat
  BY TimeAssumption DEF TypeOK, TimeAssumption
<1>1. CASE Create(t)
  <2>1. PICK found \in Creations :
            LET tk == [status |-> found.status, deadline |-> found.deadline,
                       owners |-> found.owners, created |-> now, merged |-> FALSE]
            IN  /\ task' = [task EXCEPT ![t] = Written(tk)]
                /\ row' = Assigned(row, t, tk, Creation)
    BY <1>1 DEF Create
  <2>. DEFINE tk == [status |-> found.status, deadline |-> found.deadline,
                     owners |-> found.owners, created |-> now, merged |-> FALSE]
  <2>2. tk \in TaskRow
    <3>1. found \in [status : {"pending", "todo"}, deadline : Deadlines \cup {None},
                     owners : (SUBSET Members) \ {{}}]
      BY CreationAssumption DEF CreationAssumption
    <3>. QED
      BY <1>0, <3>1 DEF TaskRow
  <2>3. ~tk.merged
    OBVIOUS
  <2>4. task' = [task EXCEPT ![t] = Written(tk)] /\ row' = Assigned(row, t, tk, Creation)
    BY <2>1
  <2>. HIDE DEF tk
  <2>. QED
    BY <2>2, <2>3, <2>4, AssignedOn, UnmergedOn
<1>2. CASE Redetect(t)
  <2>1. /\ task[t].deadline \in Deadlines \cup {None}
        /\ task[t].status \in {"pending", "todo"} /\ ~task[t].merged
    BY <1>0, <1>2 DEF Redetect, MergedIsClosed, TaskRow
  <2>2. PICK d \in Deadlines \cup {None}, status \in {"pending", "todo"} :
            LET tk == [task[t] EXCEPT !.deadline = d, !.status = status]
            IN  /\ task' = [task EXCEPT ![t] = Written(tk)]
                /\ row' = IF status # task[t].status THEN Assigned(row, t, tk, Activation)
                                                     ELSE row
    BY <1>2, <2>1 DEF Redetect
  <2>. DEFINE a == [task[t] EXCEPT !.deadline = d]
              b == [a EXCEPT !.status = status]
  <2>3. a \in TaskRow /\ ~a.merged
    BY <1>0, <2>1, SetTask DEF TaskRow
  <2>4. b \in TaskRow /\ ~b.merged
    <3>. HIDE DEF a
    <3>. QED  BY <2>3, SetTask DEF TaskRow
  <2>5. b = [task[t] EXCEPT !.deadline = d, !.status = status]
    BY <1>0 DEF TaskRow
  <2>6. /\ task' = [task EXCEPT ![t] = Written(b)]
        /\ row' = row \/ row' = Assigned(row, t, b, Activation)
    <3>. HIDE DEF b
    <3>. QED  BY <2>2, <2>5
  <2>. HIDE DEF b
  <2>. QED
    BY <2>4, <2>6, AssignedOn, UnmergedOn
<1>3. CASE Confirm(t)
  <2>. DEFINE tk == [task[t] EXCEPT !.status = "todo"]
  <2>1. ~task[t].merged
    BY <1>3 DEF Confirm, MergedIsClosed
  <2>2. tk \in TaskRow /\ ~tk.merged
    BY <1>0, <2>1, SetTask DEF TaskRow
  <2>3. /\ task' = [task EXCEPT ![t] = Written(tk)]
        /\ row' = Assigned(row, t, Written(tk), Activation)
    BY <1>3 DEF Confirm
  <2>. HIDE DEF tk
  <2>. QED
    BY <2>2, <2>3, AssignedOn, UnmergedOn
<1>4. CASE FallDue(t)
  <2>1. ~task[t].merged
    BY <1>4 DEF FallDue, FallsDue, MergedIsClosed
  <2>. QED
    BY <1>0, <1>4, <2>1, UnmergedOn DEF FallDue
<1>5. ASSUME NEW action \in Actions \cap Tracked, NEW actor \in Members, Act(t, action, actor)
      PROVE  OnTask(t)
  <2>1. PICK tk \in Outcomes(action, task[t]) : task' = [task EXCEPT ![t] = Written(tk)]
    BY <1>5 DEF Act
  <2>2. /\ tk \in TaskRow
        /\ action # "merge" => ~tk.merged
        /\ action = "merge" => tk.status = "cancelled"
    BY <1>0, <1>5, <2>1, OutcomeFits DEF Act
  <2>3. row' = LeftBy(action, t)
    BY <1>5 DEF Act
  <2>4. \A k \in Keys : k.task # t => row'[k] = row[k]
    BY <2>3 DEF LeftBy
  <2>5. CASE action # "merge"
    BY <2>1, <2>2, <2>4, <2>5, UnmergedOn
  <2>6. CASE action = "merge"
    <3>1. task'[t] = Written(tk) /\ \A u \in Tasks \ {t} : task'[u] = task[u]
      BY <2>1 DEF TypeOK
    <3>2. Written(tk).status = "cancelled"
      BY <2>2, <2>6, WrittenFits
    <3>3. ASSUME NEW k \in Keys, k.task = t
          PROVE  ~Active(row'[k])
      <4>1. row'[k] = IF Active(row[k]) THEN Cancelled(row[k], "withdrawn") ELSE row[k]
        BY <2>3, <2>6, <3>3 DEF LeftBy
      <4>2. Good(row[k]) /\ "withdrawn" \in Reasons
        BY DEF TypeOK, Good, Reasons
      <4>. QED
        BY <4>1, <4>2, CancelledIsOver
    <3>. QED
      BY <2>4, <3>1, <3>2, <3>3 DEF OnTask
  <2>. QED
    BY <2>5, <2>6
<1>. QED
  BY <1>1, <1>2, <1>3, <1>4, <1>5 DEF TaskStep

(* Only a synchronization, or a process that is in hand of an unfinished row, leaves
   a row to be sent. *)
LEMMA ReadsWithdrawn ==
    ASSUME TypeOK, MergedIsClosed, MergedIsWithdrawn, NEW k \in Keys,
           k.kind \notin EventKinds, Active(SyncedRows[k])
    PROVE  ~task[k.task].merged
<1>1. Good(row[k]) /\ SyncedRows[k] = SyncRow(k, row[k]) /\ k.task \in Tasks
  BY KeyParts DEF TypeOK, Good, SyncedRows
<1>2. /\ admitted
      /\ k.kind \in {"missing_member", "missing_admin"} => MissingWanted(k)
      /\ k.kind = "overdue" => OverdueFor(k)
  BY <1>1, RowAuthorized
<1>3. CASE k.kind \in {"missing_member", "missing_admin"}
  BY <1>1, <1>2, <1>3 DEF MissingWanted, WithoutDeadline, MergedIsClosed
<1>4. CASE k.kind = "overdue"
  BY <1>1, <1>2, <1>4 DEF OverdueFor, MergedIsClosed
<1>5. CASE k.kind = "assigned"
  <2>1. Active(row[k])
    BY <1>1, <1>2, <1>5 DEF SyncRow
  <2>. QED
    BY <2>1 DEF MergedIsWithdrawn, EventKinds
<1>. QED
  BY <1>3, <1>4, <1>5, KeyParts DEF EventKinds

LEMMA WithdrawnStep ==
    ASSUME TypeOK, HeldExist, Merges, [Next]_vars
    PROVE  MergedIsClosed' /\ MergedIsWithdrawn'
<1>0. Tables
  BY TypeOKTables
<1>1. CASE \E t \in Tasks : TaskStep(t)
  <2>1. PICK t \in Tasks : OnTask(t)
    BY <1>1, TaskOn DEF Merges
  <2>2. MergedIsClosed'
    BY <2>1 DEF OnTask, Merges, MergedIsClosed
  <2>3. ASSUME NEW k \in Keys, task'[k.task].merged, Active(row'[k])
        PROVE  k.kind \in {"event_member", "event_admin"}
    <3>1. CASE k.task = t
      BY <2>1, <2>3, <3>1 DEF OnTask
    <3>2. CASE k.task # t
      BY <2>1, <2>3, <3>2, KeyParts DEF OnTask, Merges, MergedIsWithdrawn
    <3>. QED
      BY <3>1, <3>2
  <2>. QED
    BY <2>2, <2>3 DEF MergedIsWithdrawn, Active
<1>2. CASE ~\E t \in Tasks : TaskStep(t)
  <2>1. task' = task
    BY <1>2, WorkAfter DEF Next, vars, ChangeChat, SyncAll, Tick
  <2>2. ASSUME NEW k \in Keys, task[k.task].merged, k.kind \notin EventKinds
        PROVE  ~Active(row'[k])
    <3>0. ~Active(SyncedRows[k]) /\ ~Active(row[k]) /\ Good(row[k])
      BY <2>2, ReadsWithdrawn DEF Merges, MergedIsWithdrawn, EventKinds, TypeOK, Good
    <3>1. ~Active(ClaimableRows[k])
      BY <3>0 DEF ClaimableRows, Recovered, Active
    <3>2. ASSUME NEW w \in Workers, NEW j \in Keys, TakesOne(w, j)
          PROVE  ~Active(row'[k])
      BY <3>1, <3>2, TakenRow DEF Active
    <3>3. ASSUME NEW w \in Workers, NEW s, Stores(w, s)
          PROVE  ~Active(row'[k])
      <4>1. CASE lease[w].key # k
        BY <3>0, <3>3, <4>1, StoredRow
      <4>2. CASE lease[w].key = k
        <5>1. row[k].status # "dead" /\ row[k].status # "absent"
          BY <3>3, <4>2 DEF Stores, Merges, HeldAlive, HeldExist, Busy
        <5>2. row[k].status \in {"sent", "cancelled"}
          BY <3>0, <5>1 DEF Active, Good, Notification
        <5>3. /\ row'[k] = s /\ s.reason = row[k].reason /\ Good(s)
              /\ row[k].status = "sent" => s.status = "sent"
          BY <3>3, <4>2, StoredRow
        <5>. QED
          BY <3>0, <5>2, <5>3 DEF Active, Good, RowChecks
      <4>. QED
        BY <4>1, <4>2
    <3>4. CASE Plans
      <4>1. [Next]_vars /\ ~\E t \in Tasks : TaskStep(t)
        BY <1>2
      <4>2. \/ \E w \in Workers : Work(w) \/ Crash(w) \/ Restart(w)
            \/ row' = SyncedRows \/ Rests
        BY <4>1 DEF Next, vars, ChangeChat, SyncAll, Commit, Tick, Rests
      <4>3. \/ \E w \in Workers, j \in Keys : TakesOne(w, j)
            \/ row' = ClaimableRows \/ row' = SyncedRows
            \/ \E w \in Workers : \E s : Stores(w, s)
            \/ Rests
        BY <4>2, WorkerMoves
      <4>. QED
        BY <3>0, <3>1, <3>2, <3>3, <4>3 DEF Rests
    <3>. QED
      BY <3>0, <3>1, <3>2, <3>3, <3>4, <1>0, TableMoves DEF Rests
  <2>. QED
    BY <2>1, <2>2 DEF Merges, MergedIsClosed, MergedIsWithdrawn, EventKinds
<1>. QED
  BY <1>1, <1>2

LEMMA SyncedAlive ==
    ASSUME NEW r, Good(r), NEW s, Synced(r, s), s.status = "dead"
    PROVE  r.status = "dead"
<1>1. \A at \in Int : Planned(at).status # "dead"
  BY PlannedRow
<1>2. Active(r) => \A at \in Int : Moved(r, at).status # "dead"
  BY MovedRow
<1>3. \A why \in Reasons : Cancelled(r, why).status # "dead"
  BY CancelledRow DEF Good
<1>. QED
  BY <1>1, <1>2, <1>3 DEF Synced

LEMMA AliveStep ==
    ASSUME \A v, w \in Workers : v = w, TypeOK, HeldAlive, [Next]_vars
    PROVE  HeldAlive'
<1>. SUFFICES ASSUME NEW w \in Workers, Busy(pc'[w])
              PROVE  row'[lease'[w].key].status # "dead"
  BY DEF HeldAlive
<1>0. \A k \in Keys : Good(row[k])
  BY DEF TypeOK, Good
<1>1. CASE lease'[w].key \in Keys /\ row'[lease'[w].key].status = "leased"
  BY <1>1
<1>2. CASE Busy(pc[w]) /\ lease'[w].key = lease[w].key
  <2>. DEFINE k == lease[w].key
  <2>0. k \in Keys /\ row[k].status # "dead"
    BY <1>2 DEF TypeOK, HeldAlive, Busy
  <2>1. CASE Work(w) \/ Crash(w) \/ Restart(w)
    <3>1. row' = row
      <4>1. ~Claim(w) /\ ~Restart(w)
        BY <1>2 DEF Claim, Restart, Busy
      <4>2. Forget(w, "idle") \/ Forget(w, "down") => ~Busy(pc'[w])
        BY DEF Forget, TypeOK, Busy
      <4>3. ~Crash(w)
        BY <4>2 DEF Crash
      <4>4. MarkSentWrites(w) \/ FailWrites(w) => row' = row
        BY <4>2 DEF MarkSentWrites, FailWrites
      <4>. QED
        BY <2>1, <4>1, <4>3, <4>4 DEF Work, Deliver, MarkSentReads, FailReads
    <3>. QED
      BY <1>2, <2>0, <3>1
  <2>2. CASE ~(Work(w) \/ Crash(w) \/ Restart(w))
    <3>1. \A v \in Workers : ~(Work(v) \/ Crash(v) \/ Restart(v))
      <4>1. \A v \in Workers : v = w
        OBVIOUS
      <4>. QED
        BY <2>2, <4>1
    <3>2. Plans \/ row' = SyncedRows \/ row' = row
      BY <3>1, TaskPlans, TypeOKTables
         DEF Next, vars, ChangeChat, SyncAll, Commit, Tick, Rests
    <3>3. Synced(row[k], row'[k])
      BY <2>0, <3>2, SyncPasses, TypeOKTables DEF Plans, Synced
    <3>. QED
      BY <1>0, <1>2, <2>0, <3>3, SyncedAlive
  <2>. QED
    BY <2>1, <2>2
<1>. QED
  BY <1>1, <1>2, NextHolds DEF KeepsHold

(* A merged duplicate is told nothing more but the events about it, by one worker
   slot that crashes and restarts, while the chat, its administrators and its policy
   change: no synchronization plans it again, and no late failure revives a row that
   the merge withdrew. *)
THEOREM MergedWithdrawn ==
    ASSUME \A v, w \in Workers : v = w
    PROVE  Spec => []MergedIsWithdrawn
<1>1. Init => Merges
  <2>. SUFFICES ASSUME Init
                PROVE  Merges
    OBVIOUS
  <2>1. \A t \in Tasks : ~task[t].merged
    BY DEF Init, NoTask
  <2>2. \A w \in Workers : ~Busy(pc[w])
    BY DEF Init, Busy
  <2>3. \A k \in Keys : row[k].status = "absent"
    BY NoRowGood DEF Init
  <2>. QED
    BY <2>1, <2>2, <2>3 DEF Merges, MergedIsClosed, HeldAlive, MergedIsWithdrawn, Active
<1>2. Held /\ Merges /\ [Next]_vars => Merges'
  BY WithdrawnStep, AliveStep DEF Held, Merges
<1>3. Merges => MergedIsWithdrawn
  BY DEF Merges
<1>. QED
  BY <1>1, <1>2, <1>3, AlwaysHeld, PTL DEF Spec
=============================================================================
