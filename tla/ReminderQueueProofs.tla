------------------------ MODULE ReminderQueueProofs ------------------------
(***************************************************************************)
(* Proofs about ReminderQueue, for every value of its constants.           *)
(***************************************************************************)
EXTENDS ReminderQueue, TLAPS

-----------------------------------------------------------------------------
(* The operators on one row: each returns a row of the table, and which of its
   fields it changes. *)

(* Setting one field to a value of its column gives a row. *)
LEMMA SetField ==
    ASSUME NEW r \in Reminder
    PROVE  /\ \A x \in {"absent", "scheduled", "leased", "sent", "cancelled", "dead"} :
                  [r EXCEPT !.status = x] \in Reminder
           /\ \A x \in 0..MaxAttempts : [r EXCEPT !.attempt = x] \in Reminder
           /\ \A x \in WorkerIds \cup {None} : [r EXCEPT !.worker = x] \in Reminder
           /\ [r EXCEPT !.expires = 0] \in Reminder
           /\ \A x \in Int : [r EXCEPT !.expires = x] \in Reminder
           /\ \A x \in Int : [r EXCEPT !.due = x] \in Reminder
           /\ \A x \in Int : [r EXCEPT !.ready = x] \in Reminder
           /\ \A x \in {"superseded", "withdrawn", None} :
                  [r EXCEPT !.reason = x] \in Reminder
           /\ \A x \in {"private", "group", None} :
                  [r EXCEPT !.message = x] \in Reminder
  BY DEF Reminder

LEMMA UnleasedRow ==
    ASSUME NEW r \in Reminder
    PROVE  /\ Unleased(r) \in Reminder
           /\ Unleased(r).status = r.status /\ Unleased(r).attempt = r.attempt
           /\ Unleased(r).worker = None /\ Unleased(r).due = r.due
           /\ Unleased(r).reason = r.reason /\ Unleased(r).message = r.message
<1>. DEFINE a == [r EXCEPT !.worker = None]
            b == [a EXCEPT !.expires = 0]
<1>1. a \in Reminder
  BY SetField
<1>2. [a EXCEPT !.expires = 0] \in Reminder
  <2>. HIDE DEF a
  <2>. QED  BY <1>1, SetField
<1>3. Unleased(r) = b
  BY DEF Unleased, Reminder
<1>4. Unleased(r) \in Reminder
  BY <1>2, <1>3
<1>5. /\ Unleased(r).status = r.status /\ Unleased(r).attempt = r.attempt
      /\ Unleased(r).worker = None /\ Unleased(r).due = r.due
      /\ Unleased(r).reason = r.reason /\ Unleased(r).message = r.message
  BY DEF Unleased, Reminder
<1>. QED
  BY <1>4, <1>5

LEMMA DeadRow ==
    ASSUME NEW r \in Reminder
    PROVE  /\ Dead(r) \in Reminder
           /\ Dead(r).status = "dead" /\ Dead(r).attempt = r.attempt
           /\ Dead(r).worker = None /\ Dead(r).due = r.due
           /\ Dead(r).reason = r.reason /\ Dead(r).message = r.message
<1>. DEFINE a == [Unleased(r) EXCEPT !.status = "dead"]
<1>0. Unleased(r) \in Reminder
  BY UnleasedRow
<1>1. a \in Reminder
  BY <1>0, SetField
<1>2. Dead(r) = a
  BY DEF Dead, Unleased, Reminder
<1>3. Dead(r) \in Reminder
  BY <1>1, <1>2
<1>4. /\ Dead(r).status = "dead" /\ Dead(r).attempt = r.attempt
      /\ Dead(r).worker = None /\ Dead(r).due = r.due
      /\ Dead(r).reason = r.reason /\ Dead(r).message = r.message
  BY DEF Dead, Unleased, Reminder
<1>. QED
  BY <1>3, <1>4

LEMMA RetriedRow ==
    ASSUME NEW r \in Reminder, NEW at \in Int
    PROVE  /\ Retried(r, at) \in Reminder
           /\ Retried(r, at).status = "scheduled" /\ Retried(r, at).attempt = r.attempt
           /\ Retried(r, at).worker = None /\ Retried(r, at).due = r.due
           /\ Retried(r, at).reason = r.reason /\ Retried(r, at).message = r.message
<1>. DEFINE a == [Unleased(r) EXCEPT !.status = "scheduled"]
            b == [a EXCEPT !.ready = at]
<1>0. Unleased(r) \in Reminder
  BY UnleasedRow
<1>1. a \in Reminder
  BY <1>0, SetField
<1>2. [a EXCEPT !.ready = at] \in Reminder
  <2>. HIDE DEF a
  <2>. QED  BY <1>1, SetField
<1>3. Retried(r, at) = b
  BY DEF Retried, Unleased, Reminder
<1>4. Retried(r, at) \in Reminder
  BY <1>2, <1>3
<1>5. /\ Retried(r, at).status = "scheduled" /\ Retried(r, at).attempt = r.attempt
      /\ Retried(r, at).worker = None /\ Retried(r, at).due = r.due
      /\ Retried(r, at).reason = r.reason /\ Retried(r, at).message = r.message
  BY DEF Retried, Unleased, Reminder
<1>. QED
  BY <1>4, <1>5

LEMMA WithdrawnRow ==
    ASSUME NEW r \in Reminder, NEW why \in {"superseded", "withdrawn"}
    PROVE  /\ Withdrawn(r, why) \in Reminder
           /\ Withdrawn(r, why).status = "cancelled" /\ Withdrawn(r, why).attempt = r.attempt
           /\ Withdrawn(r, why).worker = None /\ Withdrawn(r, why).due = r.due
           /\ Withdrawn(r, why).reason = why /\ Withdrawn(r, why).message = r.message
<1>. DEFINE a == [Unleased(r) EXCEPT !.status = "cancelled"]
            b == [a EXCEPT !.reason = why]
<1>0. Unleased(r) \in Reminder
  BY UnleasedRow
<1>1. a \in Reminder
  BY <1>0, SetField
<1>2. [a EXCEPT !.reason = why] \in Reminder
  <2>. HIDE DEF a
  <2>. QED  BY <1>1, SetField
<1>3. Withdrawn(r, why) = b
  BY DEF Withdrawn, Unleased, Reminder
<1>4. Withdrawn(r, why) \in Reminder
  BY <1>2, <1>3
<1>5. /\ Withdrawn(r, why).status = "cancelled" /\ Withdrawn(r, why).attempt = r.attempt
      /\ Withdrawn(r, why).worker = None /\ Withdrawn(r, why).due = r.due
      /\ Withdrawn(r, why).reason = why /\ Withdrawn(r, why).message = r.message
  BY DEF Withdrawn, Unleased, Reminder
<1>. QED
  BY <1>4, <1>5

LEMMA RescheduledRow ==
    ASSUME NEW r \in Reminder, NEW moment \in Int
    PROVE  /\ Rescheduled(r, moment) \in Reminder
           /\ Rescheduled(r, moment).status = "scheduled" /\ Rescheduled(r, moment).attempt = r.attempt
           /\ Rescheduled(r, moment).worker = None /\ Rescheduled(r, moment).due = moment
           /\ Rescheduled(r, moment).reason = r.reason /\ Rescheduled(r, moment).message = r.message
<1>. DEFINE a == [Unleased(r) EXCEPT !.status = "scheduled"]
            b == [a EXCEPT !.due = moment]
            c == [b EXCEPT !.ready = moment]
<1>0. Unleased(r) \in Reminder
  BY UnleasedRow
<1>1. a \in Reminder
  BY <1>0, SetField
<1>2. [a EXCEPT !.due = moment] \in Reminder
  <2>. HIDE DEF a
  <2>. QED  BY <1>1, SetField
<1>3. [b EXCEPT !.ready = moment] \in Reminder
  <2>1. b \in Reminder
    BY <1>2
  <2>. HIDE DEF b
  <2>. QED  BY <2>1, SetField
<1>4. Rescheduled(r, moment) = c
  BY DEF Rescheduled, Unleased, Reminder
<1>5. Rescheduled(r, moment) \in Reminder
  BY <1>3, <1>4
<1>6. /\ Rescheduled(r, moment).status = "scheduled" /\ Rescheduled(r, moment).attempt = r.attempt
      /\ Rescheduled(r, moment).worker = None /\ Rescheduled(r, moment).due = moment
      /\ Rescheduled(r, moment).reason = r.reason /\ Rescheduled(r, moment).message = r.message
  BY DEF Rescheduled, Unleased, Reminder
<1>. QED
  BY <1>5, <1>6

LEMMA LeasedRow ==
    ASSUME NEW r \in Reminder, NEW id \in WorkerIds, NEW at \in Int
    PROVE  /\ r.attempt + 1 \in 0..MaxAttempts => Leased(r, id, at) \in Reminder
           /\ Leased(r, id, at).status = "leased" /\ Leased(r, id, at).attempt = r.attempt + 1
           /\ Leased(r, id, at).worker = id /\ Leased(r, id, at).due = r.due
           /\ Leased(r, id, at).reason = r.reason /\ Leased(r, id, at).message = r.message
<1>1. ASSUME r.attempt + 1 \in 0..MaxAttempts
      PROVE  Leased(r, id, at) \in Reminder
  <2>. DEFINE a == [r EXCEPT !.status = "leased"]
              b == [a EXCEPT !.attempt = r.attempt + 1]
              c == [b EXCEPT !.worker = id]
              d == [c EXCEPT !.expires = at + LeaseSeconds]
  <2>1. a \in Reminder
    BY SetField
  <2>2. [a EXCEPT !.attempt = r.attempt + 1] \in Reminder
    <3>. HIDE DEF a
    <3>. QED  BY <1>1, <2>1, SetField
  <2>3. [b EXCEPT !.worker = id] \in Reminder
    <3>1. b \in Reminder
      BY <2>2
    <3>. HIDE DEF b
    <3>. QED  BY <3>1, SetField
  <2>4. [c EXCEPT !.expires = at + LeaseSeconds] \in Reminder
    <3>1. c \in Reminder
      BY <2>3
    <3>2. at + LeaseSeconds \in Int
      BY LimitAssumption DEF LimitAssumption
    <3>. HIDE DEF c
    <3>. QED  BY <3>1, <3>2, SetField
  <2>5. Leased(r, id, at) = d
    BY DEF Leased, Reminder
  <2>. QED
    BY <2>4, <2>5
<1>2. /\ Leased(r, id, at).status = "leased" /\ Leased(r, id, at).attempt = r.attempt + 1
      /\ Leased(r, id, at).worker = id /\ Leased(r, id, at).due = r.due
      /\ Leased(r, id, at).reason = r.reason /\ Leased(r, id, at).message = r.message
  BY DEF Leased, Reminder
<1>. QED
  BY <1>1, <1>2

(* The row inserted, or reset, for a stage. *)
LEMMA PlannedRow ==
    ASSUME NEW moment \in Int
    PROVE  /\ Planned(moment) \in Reminder
           /\ Planned(moment).status = "scheduled" /\ Planned(moment).attempt = 0
           /\ Planned(moment).worker = None /\ Planned(moment).due = moment
           /\ Planned(moment).reason = None /\ Planned(moment).message = None
  BY LimitAssumption DEF LimitAssumption, Planned, Reminder

LEMMA NoReminderRow == NoReminder \in Reminder /\ RowChecks(NoReminder)
  BY LimitAssumption DEF LimitAssumption, NoReminder, Reminder, RowChecks

-----------------------------------------------------------------------------
(* The passes over a row: well-formed rows stay so, and what is leased or waits
   afterwards. *)

Good(r) == r \in Reminder /\ RowChecks(r)

(* A row that no synchronization, recovery or collapse touches any more. *)
Final(r) == r.status = "sent" \/ r.reason = "superseded"

(* The ranges are named so that a leaf sees numbers or records, never both. *)
LEMMA PolicyNumbers ==
    ASSUME NEW p \in ChatPolicy
    PROVE  p.first \in Int /\ p.second \in Int /\ p.dueHour \in Int /\ p.grace \in Int
<1>. DEFINE F == 2..720
            S == 1..719
            D == 0..23
            G == 0..1440
<1>1. p \in [enabled : SUBSET Kinds, first : F, second : S, dueHour : D, grace : G]
  BY DEF ChatPolicy
<1>2. F \subseteq Int /\ S \subseteq Int
  OBVIOUS
<1>3. D \subseteq Int /\ G \subseteq Int
  OBVIOUS
<1>. HIDE DEF F, S, D, G
<1>. QED
  BY <1>1, <1>2, <1>3

(* The moment of a stage is an instant, in test mode and out of it. *)
LEMMA MomentIsInt ==
    ASSUME NEW k \in Keys, NEW p \in Policies
    PROVE  Moment(k, p) \in Int
<1>1. k.deadline \in Int /\ k.kind \in Kinds
  BY TimeAssumption DEF TimeAssumption, Keys
<1>2. p.first \in Int /\ p.second \in Int /\ p.dueHour \in Int /\ p.grace \in Int
  BY PolicyNumbers, PolicyAssumption DEF PolicyAssumption
<1>3. ((k.deadline + 8 * Hour) % Day) \in Int
  BY <1>1 DEF Hour, Day
<1>4. DueToday(k.deadline, p.dueHour) \in Int
  BY <1>1, <1>2, <1>3 DEF DueToday, LocalMidnight, Hour
<1>5. CASE TestMode
  BY <1>1, <1>5 DEF Moment, Moments, Kinds, Minute
<1>6. CASE ~TestMode
  BY <1>1, <1>2, <1>4, <1>6 DEF Moment, Moments, Kinds, Minute, Hour
<1>. QED
  BY <1>5, <1>6

LEMMA SyncGood ==
    ASSUME NEW r, Good(r), NEW k \in Keys, NEW tk, NEW p \in Policies
    PROVE  LET s == SyncRow(r, k, tk, p)
           IN  /\ Good(s)
               /\ s.status \in {"scheduled", "leased"} =>
                      Wanted(k, tk, p) /\ s.due = Moment(k, p)
               /\ s.status = "leased" => s = r
               /\ Final(r) => s = r
               /\ s.status = "sent" => s = r
<1>. DEFINE m == Moment(k, p)
<1>1. m \in Int
  BY MomentIsInt
<1>2. Good(Planned(m)) /\ Planned(m).status = "scheduled" /\ Planned(m).due = m
  BY <1>1, PlannedRow, LimitAssumption DEF LimitAssumption, Good, RowChecks
<1>3. ASSUME r.status \in {"scheduled", "leased"}
      PROVE  /\ Good(Rescheduled(r, m)) /\ Good(Withdrawn(r, "withdrawn"))
             /\ Rescheduled(r, m).status = "scheduled" /\ Rescheduled(r, m).due = m
             /\ Withdrawn(r, "withdrawn").status = "cancelled"
  BY <1>1, <1>3, RescheduledRow, WithdrawnRow, NullAssumption
     DEF NullAssumption, Good, RowChecks
<1>. HIDE DEF m
<1>. QED
  BY <1>2, <1>3, NullAssumption
     DEF NullAssumption, SyncRow, Revivable, Final, Good, RowChecks, m

LEMMA RecoverGood ==
    ASSUME NEW r, Good(r), NEW at \in Int
    PROVE  LET s == RecoverLease(r, at)
           IN  /\ Good(s)
               /\ s.status \in {"scheduled", "leased"} =>
                      r.status \in {"scheduled", "leased"} /\ s.due = r.due
               /\ s.status = "leased" => s = r
               /\ Final(r) => s = r
               /\ s.status = "sent" => s = r
  BY DeadRow, RetriedRow, NullAssumption
     DEF NullAssumption, Good, RowChecks, RecoverLease, Final

LEMMA WithdrawGood ==
    ASSUME NEW r, Good(r), r.status \in {"scheduled", "leased"},
           NEW why \in {"superseded", "withdrawn"}
    PROVE  Good(Withdrawn(r, why))
  BY WithdrawnRow, NullAssumption DEF NullAssumption, Good, RowChecks

-----------------------------------------------------------------------------
(* The whole table after each transaction. *)

Table(rows) == rows \in [Keys -> Reminder] /\ \A k \in Keys : Good(rows[k])

(* Every row that waits or is leased belongs to the plan of tks under p, and no
   row was leased or recorded as sent on the way from the table "old". *)
FitTable(old, rows, tks, p) ==
    /\ Table(rows)
    /\ \A k \in Keys :
          /\ rows[k].status \in {"scheduled", "leased"} =>
                Wanted(k, tks[k.task], p) /\ rows[k].due = Moment(k, p)
          /\ rows[k].status = "leased" => rows[k] = old[k]
          /\ rows[k].status = "sent" => rows[k] = old[k]
          /\ Final(old[k]) => rows[k] = old[k]

LEMMA SyncedTable ==
    ASSUME Table(rem), NEW p \in Policies, NEW tks
    PROVE  FitTable(rem, SyncedRows(tks, p), tks, p)
<1>. DEFINE rows == SyncedRows(tks, p)
<1>1. \A k \in Keys : rows[k] = SyncRow(rem[k], k, tks[k.task], p)
  BY DEF SyncedRows
<1>2. \A k \in Keys :
        /\ Good(rows[k])
        /\ rows[k].status \in {"scheduled", "leased"} =>
              Wanted(k, tks[k.task], p) /\ rows[k].due = Moment(k, p)
        /\ rows[k].status = "leased" => rows[k] = rem[k]
        /\ Final(rem[k]) => rows[k] = rem[k]
        /\ rows[k].status = "sent" => rows[k] = rem[k]
  BY <1>1, SyncGood DEF Table
<1>3. rows \in [Keys -> Reminder]
  BY <1>2 DEF SyncedRows, Good
<1>. HIDE DEF rows
<1>. QED
  BY <1>2, <1>3 DEF FitTable, Table, rows

LEMMA RecoveredTable ==
    ASSUME NEW old, NEW rows, NEW tks, NEW p, FitTable(old, rows, tks, p),
           NEW at \in Int
    PROVE  FitTable(old, RecoveredRows(rows, at), tks, p)
<1>. DEFINE new == RecoveredRows(rows, at)
<1>1. \A k \in Keys : new[k] = RecoverLease(rows[k], at)
  BY DEF RecoveredRows
<1>2. \A k \in Keys :
        /\ Good(new[k])
        /\ new[k].status \in {"scheduled", "leased"} =>
              rows[k].status \in {"scheduled", "leased"} /\ new[k].due = rows[k].due
        /\ new[k].status = "leased" => new[k] = rows[k]
        /\ Final(rows[k]) => new[k] = rows[k]
        /\ new[k].status = "sent" => new[k] = rows[k]
  BY <1>1, RecoverGood DEF FitTable, Table
<1>3. new \in [Keys -> Reminder]
  BY <1>2 DEF RecoveredRows, Good
<1>. HIDE DEF new
<1>. QED
  BY <1>2, <1>3 DEF FitTable, Table, new

LEMMA CollapsedTable ==
    ASSUME NEW old, NEW rows, NEW tks, NEW p, FitTable(old, rows, tks, p),
           NEW at \in Int
    PROVE  FitTable(old, CollapsedRows(rows, at), tks, p)
<1>. DEFINE new == CollapsedRows(rows, at)
<1>1. ASSUME NEW k \in Keys
      PROVE  \/ new[k] = rows[k]
             \/ rows[k].status = "scheduled" /\ new[k] = Withdrawn(rows[k], "superseded")
  <2>1. new[k] = IF Superseded(rows, k, at)
                 THEN Withdrawn(rows[k], "superseded")
                 ELSE rows[k]
    BY DEF CollapsedRows
  <2>2. Superseded(rows, k, at) => rows[k].status = "scheduled"
    BY DEF Superseded, DueNow
  <2>. QED
    BY <2>1, <2>2
<1>2. ASSUME NEW k \in Keys
      PROVE  /\ Good(new[k])
             /\ \/ new[k] = rows[k]
                \/ /\ rows[k].status = "scheduled" /\ ~Final(rows[k])
                   /\ new[k].status = "cancelled"
  <2>1. Good(rows[k])
    BY DEF FitTable, Table
  <2>2. rows[k].status = "scheduled" =>
            /\ Good(Withdrawn(rows[k], "superseded"))
            /\ Withdrawn(rows[k], "superseded").status = "cancelled"
    BY <2>1, WithdrawGood, WithdrawnRow DEF Good
  <2>3. \/ new[k] = rows[k]
        \/ rows[k].status = "scheduled" /\ new[k] = Withdrawn(rows[k], "superseded")
    BY <1>1
  <2>4. rows[k].status = "scheduled" => ~Final(rows[k])
    BY <2>1, NullAssumption DEF NullAssumption, Good, RowChecks, Final
  <2>. HIDE DEF new
  <2>. QED
    BY <2>1, <2>2, <2>3, <2>4
<1>3. new \in [Keys -> Reminder]
  BY <1>2 DEF CollapsedRows, Good
<1>. HIDE DEF new
<1>. QED
  BY <1>2, <1>3 DEF FitTable, Table, new

LEMMA ClaimableTable ==
    ASSUME Table(rem), policy \in Policies, NEW at \in Int
    PROVE  FitTable(rem, ClaimableRows(at), SyncedTasks(at), policy)
<1>. DEFINE tks == SyncedTasks(at)
            a == SyncedRows(tks, policy)
            b == RecoveredRows(a, at)
<1>1. FitTable(rem, a, tks, policy)
  BY SyncedTable
<1>2. FitTable(rem, b, tks, policy)
  <2>. HIDE DEF tks, a
  <2>. QED  BY <1>1, RecoveredTable
<1>3. FitTable(rem, CollapsedRows(b, at), tks, policy)
  <2>. HIDE DEF tks, b
  <2>. QED  BY <1>2, CollapsedTable
<1>. QED
  BY <1>3 DEF ClaimableRows

-----------------------------------------------------------------------------
(* The inductive invariant.  SentWasAccepted is not inductive: a process may
   record as sent a row it was handed long before, so the invariant also says
   that a receipt in a process's memory is one Feishu gave. *)

ReceiptWasAccepted ==
    \A w \in Workers : pc[w] \in {"receipt", "mark"} =>
        /\ lease[w].channel \in {"private", "group"}
        /\ <<lease[w].key, lease[w].channel>> \in accepted

Inv == TypeOK /\ LeasedFitsPlan /\ SentWasAccepted /\ ReceiptWasAccepted

LEMMA TypeOKTable == TypeOK => Table(rem)
  BY DEF TypeOK, Table, Good

LEMMA OverdueTask ==
    ASSUME NEW tk \in TaskRow, NEW at
    PROVE  /\ MarkOverdue(tk, at) \in TaskRow
           /\ MarkOverdue(tk, at).deadline = tk.deadline
           /\ MarkOverdue(tk, at) # tk => tk.deadline \in Deadlines
           /\ MarkOverdue(tk, at) # tk => tk.status = "todo"
  BY DEF MarkOverdue, TaskRow

(* A transaction of the rest of the program, seen from the queue. *)
LEMMA Replanned ==
    ASSUME Inv, policy' \in Policies, task' \in [Tasks -> TaskRow], Table(rem'),
           \A k \in Keys : rem'[k].status = "leased" =>
               Wanted(k, task'[k.task], policy') /\ rem'[k].due = Moment(k, policy'),
           \A k \in Keys : rem'[k].status = "sent" => rem'[k] = rem[k],
           overdueLog' \subseteq Tasks \X Deadlines,
           UNCHANGED <<now, pc, run, lease, accepted>>
    PROVE  Inv'
<1>1. TypeOK'
  BY DEF Inv, TypeOK, Table, Good
<1>2. LeasedFitsPlan'
  BY DEF LeasedFitsPlan, Moment, Wanted, DesiredKinds
<1>3. SentWasAccepted'
  BY DEF Inv, SentWasAccepted
<1>4. ReceiptWasAccepted'
  BY DEF Inv, ReceiptWasAccepted
<1>. QED
  BY <1>1, <1>2, <1>3, <1>4 DEF Inv

(* Committing the tasks marked overdue keeps the log well formed. *)
LEMMA SyncedTasksType ==
    ASSUME TypeOK, NEW at
    PROVE  /\ SyncedTasks(at) \in [Tasks -> TaskRow]
           /\ OverdueEvents(task, SyncedTasks(at)) \subseteq Tasks \X Deadlines
<1>1. \A t \in Tasks : SyncedTasks(at)[t] = MarkOverdue(task[t], at)
  BY DEF SyncedTasks
<1>2. \A t \in Tasks : task[t] \in TaskRow
  BY DEF TypeOK
<1>3. SyncedTasks(at) \in [Tasks -> TaskRow]
  BY <1>2, OverdueTask DEF SyncedTasks
<1>4. \A t \in Tasks : SyncedTasks(at)[t] # task[t] =>
                           SyncedTasks(at)[t].deadline \in Deadlines
  BY <1>1, <1>2, OverdueTask
<1>. QED
  BY <1>3, <1>4 DEF OverdueEvents

LEMMA FindNothingStep ==
    ASSUME Inv, FindNothing(ClaimableRows(now), SyncedTasks(now)),
           UNCHANGED <<now, policy, accepted>>
    PROVE  Inv'
<1>1. now \in Int /\ policy \in Policies /\ Table(rem)
  BY TypeOKTable, TimeAssumption DEF Inv, TypeOK, TimeAssumption
<1>2. FitTable(rem, ClaimableRows(now), SyncedTasks(now), policy)
  BY <1>1, ClaimableTable
<1>3. /\ task' = SyncedTasks(now) /\ rem' = ClaimableRows(now)
      /\ overdueLog' = overdueLog \cup OverdueEvents(task, SyncedTasks(now))
      /\ UNCHANGED <<now, policy, accepted, pc, run, lease>>
  BY DEF FindNothing, Commit, workerVars
<1>4. /\ task' \in [Tasks -> TaskRow]
      /\ overdueLog' \subseteq Tasks \X Deadlines
  BY <1>3, SyncedTasksType DEF Inv, TypeOK
<1>. QED
  BY <1>1, <1>2, <1>3, <1>4, Replanned DEF FitTable

LEMMA TakeStep ==
    ASSUME Inv, NEW w \in Workers, pc[w] = "idle",
           NEW k \in Claimable(ClaimableRows(now), SyncedTasks(now), now),
           Take(w, k, ClaimableRows(now), SyncedTasks(now)),
           UNCHANGED <<now, policy, accepted>>
    PROVE  Inv'
<1>. DEFINE rows == ClaimableRows(now)
            tks == SyncedTasks(now)
            row == Leased(rows[k], WorkerId(w), now)
<1>1. now \in Int /\ policy \in Policies /\ Table(rem)
  BY TypeOKTable, TimeAssumption DEF Inv, TypeOK, TimeAssumption
<1>2. FitTable(rem, rows, tks, policy)
  BY <1>1, ClaimableTable
<1>3. k \in Keys /\ rows[k].status = "scheduled"
  BY DEF Claimable, DueNow
<1>4. WorkerId(w) \in WorkerIds
  BY DEF WorkerId, WorkerIds, Inv, TypeOK
<1>5. CASE RowChecks(row)
  <2>1. /\ task' = tks /\ rem' = [rows EXCEPT ![k] = row]
        /\ overdueLog' = overdueLog \cup OverdueEvents(task, tks)
        /\ lease' = [lease EXCEPT ![w] = HeldAt(k, row.attempt)]
        /\ pc' = [pc EXCEPT ![w] = "private"]
        /\ UNCHANGED <<now, policy, accepted, run>>
    BY <1>5 DEF Take, Commit
  <2>2. /\ row \in Reminder /\ row.status = "leased" /\ row.due = rows[k].due
        /\ row.attempt \in 0..MaxAttempts /\ row.attempt >= 1
    <3>1. rows[k] \in Reminder
      BY <1>2, <1>3 DEF FitTable, Table
    <3>2. row.attempt \in 0..MaxAttempts
      BY <1>5 DEF RowChecks
    <3>3. row.attempt = rows[k].attempt + 1
      BY <1>1, <1>4, <3>1, LeasedRow
    <3>4. row.attempt >= 1
      BY <3>1, <3>3 DEF Reminder
    <3>. QED
      BY <1>1, <1>4, <3>1, <3>2, <3>3, <3>4, LeasedRow
  <2>. HIDE DEF rows, tks, row
  <2>3. \A j \in Keys : rem'[j] = IF j = k THEN row ELSE rows[j]
    BY <1>2, <1>3, <2>1 DEF FitTable, Table
  <2>4. Table(rem')
    BY <1>2, <1>3, <1>5, <2>1, <2>2, <2>3 DEF FitTable, Table, Good
  <2>5. /\ task' \in [Tasks -> TaskRow]
        /\ overdueLog' \subseteq Tasks \X Deadlines
    BY <2>1, SyncedTasksType DEF Inv, TypeOK, tks
  <2>6. /\ pc' \in [Workers -> WorkerPlaces]
        /\ pc'[w] = "private"
        /\ \A v \in Workers \ {w} : pc'[v] = pc[v] /\ lease'[v] = lease[v]
    BY <2>1 DEF Inv, TypeOK, WorkerPlaces
  <2>7. /\ lease' \in [Workers -> HeldLease]
        /\ lease'[w].key = k /\ lease'[w].attempt >= 1
    <3>1. /\ HeldAt(k, row.attempt) \in HeldLease /\ HeldAt(k, row.attempt).key = k
          /\ HeldAt(k, row.attempt).attempt = row.attempt
      BY <1>3, <2>2 DEF HeldAt, HeldLease
    <3>. QED
      BY <2>1, <2>2, <3>1 DEF Inv, TypeOK
  <2>8. TypeOK'
    BY <1>1, <2>1, <2>4, <2>5, <2>6, <2>7, <1>3 DEF Inv, TypeOK, Table, Good
  <2>9. LeasedFitsPlan'
    BY <1>2, <1>3, <2>1, <2>2, <2>3
       DEF FitTable, LeasedFitsPlan, Wanted, DesiredKinds, Moment
  <2>10. SentWasAccepted'
    BY <1>2, <2>1, <2>2, <2>3 DEF FitTable, Inv, SentWasAccepted
  <2>11. ReceiptWasAccepted'
    BY <2>1, <2>6 DEF Inv, ReceiptWasAccepted
  <2>. QED
    BY <2>8, <2>9, <2>10, <2>11 DEF Inv
<1>6. CASE ~RowChecks(row)
  <2>1. /\ UNCHANGED <<now, task, overdueLog, policy, rem, accepted, run>>
        /\ pc' = [pc EXCEPT ![w] = "down"] /\ UNCHANGED lease
    BY <1>6 DEF Take
  <2>2. TypeOK'
    BY <2>1 DEF Inv, TypeOK, WorkerPlaces
  <2>3. LeasedFitsPlan' /\ SentWasAccepted'
    BY <2>1 DEF Inv, LeasedFitsPlan, SentWasAccepted, Wanted, DesiredKinds, Moment
  <2>4. ReceiptWasAccepted'
    BY <2>1 DEF Inv, ReceiptWasAccepted, TypeOK
  <2>. QED
    BY <2>2, <2>3, <2>4 DEF Inv
<1>. QED
  BY <1>5, <1>6

-----------------------------------------------------------------------------
(* The steps of one worker process after the claim. *)

(* A process moves to place q with l in memory; rows stay as they are. *)
LEMMA Moved ==
    ASSUME Inv, NEW w \in Workers, NEW q \in WorkerPlaces, NEW l \in HeldLease,
           UNCHANGED <<now, task, overdueLog, policy, rem>>,
           run' \in [Workers -> 1..MaxRuns],
           accepted \subseteq accepted', accepted' \subseteq Keys \X {"private", "group"},
           pc' = [pc EXCEPT ![w] = q], lease' = [lease EXCEPT ![w] = l],
           IF q \in {"idle", "down"} THEN l = NoLease
                                    ELSE l.key \in Keys /\ l.attempt >= 1,
           q \in {"receipt", "mark"} =>
               l.channel \in {"private", "group"} /\ <<l.key, l.channel>> \in accepted'
    PROVE  Inv'
<1>1. /\ pc' \in [Workers -> WorkerPlaces] /\ lease' \in [Workers -> HeldLease]
      /\ pc'[w] = q /\ lease'[w] = l
      /\ \A v \in Workers \ {w} : pc'[v] = pc[v] /\ lease'[v] = lease[v]
  BY DEF Inv, TypeOK
<1>2. TypeOK'
  BY <1>1 DEF Inv, TypeOK
<1>3. LeasedFitsPlan'
  BY DEF Inv, LeasedFitsPlan, Wanted, DesiredKinds, Moment
<1>4. SentWasAccepted'
  BY DEF Inv, SentWasAccepted
<1>5. ReceiptWasAccepted'
  BY <1>1 DEF Inv, ReceiptWasAccepted
<1>. QED
  BY <1>2, <1>3, <1>4, <1>5 DEF Inv

LEMMA NoLeaseType == NoLease \in HeldLease
  BY LimitAssumption DEF LimitAssumption, NoLease, HeldAt, HeldLease

(* Goto and Forget in those terms. *)
LEMMA GotoStep ==
    ASSUME Inv, NEW w \in Workers, NEW q \in WorkerPlaces, Goto(w, q),
           pc[w] \notin {"idle", "down"}, q \notin {"idle", "down"},
           q = "receipt" => FALSE, q = "mark" => pc[w] = "receipt",
           accepted \subseteq accepted', accepted' \subseteq Keys \X {"private", "group"},
           UNCHANGED <<now, task, overdueLog, policy, rem>>
    PROVE  Inv'
<1>1. /\ lease[w] \in HeldLease /\ lease[w].key \in Keys /\ lease[w].attempt >= 1
      /\ lease' = [lease EXCEPT ![w] = lease[w]]
      /\ run' \in [Workers -> 1..MaxRuns]
  BY DEF Goto, Inv, TypeOK
<1>2. q = "mark" => /\ lease[w].channel \in {"private", "group"}
                    /\ <<lease[w].key, lease[w].channel>> \in accepted'
  BY DEF Inv, ReceiptWasAccepted
<1>. QED
  BY <1>1, <1>2, Moved DEF Goto

LEMMA ForgetStep ==
    ASSUME Inv, NEW w \in Workers, NEW q \in {"idle", "down"}, Forget(w, q),
           UNCHANGED <<now, task, overdueLog, policy, rem, accepted>>
    PROVE  Inv'
<1>1. run' \in [Workers -> 1..MaxRuns] /\ accepted' \subseteq Keys \X {"private", "group"}
  BY DEF Forget, Inv, TypeOK
<1>. QED
  BY <1>1, NoLeaseType, Moved DEF Forget, WorkerPlaces

(* An UPDATE that commits: the row leaves the lease, and is recorded as sent only
   with a receipt. *)
LEMMA StoredStep ==
    ASSUME Inv, NEW w \in Workers, lease[w].key \in Keys,
           NEW row \in Reminder, Stores(w, row), row.status # "leased",
           row.status = "sent" => <<lease[w].key, row.message>> \in accepted,
           UNCHANGED <<now, task, overdueLog, policy, accepted>>
    PROVE  Inv'
<1>. DEFINE key == lease[w].key
<1>1. \A k \in Keys : rem'[k] = IF k = key THEN row ELSE rem[k]
  BY DEF Stores, Inv, TypeOK
<1>2. /\ rem' \in [Keys -> Reminder]
      /\ \A k \in Keys : RowChecks(rem'[k])
  BY <1>1 DEF Stores, Inv, TypeOK
<1>3. /\ pc' = [pc EXCEPT ![w] = "idle"] /\ lease' = [lease EXCEPT ![w] = NoLease]
      /\ UNCHANGED run
  BY DEF Stores, Forget
<1>4. /\ pc' \in [Workers -> WorkerPlaces] /\ lease' \in [Workers -> HeldLease]
      /\ pc'[w] = "idle" /\ lease'[w] = NoLease
      /\ \A v \in Workers \ {w} : pc'[v] = pc[v] /\ lease'[v] = lease[v]
  BY <1>3, NoLeaseType DEF Inv, TypeOK, WorkerPlaces
<1>5. TypeOK'
  BY <1>2, <1>3, <1>4 DEF Inv, TypeOK
<1>6. LeasedFitsPlan'
  BY <1>1 DEF Inv, LeasedFitsPlan, Wanted, DesiredKinds, Moment
<1>7. SentWasAccepted'
  BY <1>1 DEF Inv, SentWasAccepted
<1>8. ReceiptWasAccepted'
  BY <1>4 DEF Inv, ReceiptWasAccepted
<1>. QED
  BY <1>5, <1>6, <1>7, <1>8 DEF Inv

LEMMA SentRowType ==
    ASSUME NEW r \in Reminder, NEW channel \in {"private", "group"}
    PROVE  LET s == [Unleased(r) EXCEPT !.status = "sent", !.message = channel]
           IN  /\ s \in Reminder /\ s.status = "sent" /\ s.message = channel
               /\ s.reason = r.reason
<1>. DEFINE a == [Unleased(r) EXCEPT !.status = "sent"]
            s == [Unleased(r) EXCEPT !.status = "sent", !.message = channel]
<1>0. Unleased(r) \in Reminder
  BY UnleasedRow
<1>1. a \in Reminder
  BY <1>0, SetField
<1>2. [a EXCEPT !.message = channel] \in Reminder
  <2>. HIDE DEF a
  <2>. QED  BY <1>1, SetField
<1>3. s = [a EXCEPT !.message = channel]
  BY DEF Unleased, Reminder
<1>4. s.status = "sent" /\ s.message = channel /\ s.reason = r.reason
  BY DEF Unleased, Reminder
<1>. QED
  BY <1>2, <1>3, <1>4

LEMMA MarkSentWritesStep ==
    ASSUME Inv, NEW w \in Workers, MarkSentWrites(w)
    PROVE  Inv'
<1>1. /\ lease[w].key \in Keys /\ rem[lease[w].key] \in Reminder
      /\ lease[w].channel \in {"private", "group"}
      /\ <<lease[w].key, lease[w].channel>> \in accepted
  BY DEF MarkSentWrites, Inv, TypeOK, ReceiptWasAccepted
<1>2. /\ SentRow(w) \in Reminder /\ SentRow(w).status = "sent"
      /\ SentRow(w).message = lease[w].channel
  BY <1>1, SentRowType DEF SentRow
<1>3. CASE Stores(w, SentRow(w))
  BY <1>1, <1>2, <1>3, StoredStep DEF MarkSentWrites
<1>4. CASE Goto(w, "failed") /\ UNCHANGED rem
  BY <1>4, GotoStep DEF MarkSentWrites, WorkerPlaces, Inv, TypeOK
<1>. QED
  BY <1>3, <1>4 DEF MarkSentWrites

LEMMA FailWritesStep ==
    ASSUME Inv, NEW w \in Workers, FailWrites(w)
    PROVE  Inv'
<1>1. /\ lease[w].key \in Keys /\ rem[lease[w].key] \in Reminder
      /\ lease[w].retryAt \in Int
  BY DEF FailWrites, Inv, TypeOK, HeldLease
<1>2. FailedRow(w) \in Reminder /\ FailedRow(w).status \in {"dead", "scheduled"}
  BY <1>1, DeadRow, RetriedRow DEF FailedRow
<1>3. CASE Stores(w, FailedRow(w))
  BY <1>1, <1>2, <1>3, StoredStep DEF FailWrites
<1>4. CASE Forget(w, "down") /\ UNCHANGED rem
  BY <1>4, ForgetStep DEF FailWrites
<1>. QED
  BY <1>3, <1>4 DEF FailWrites

LEMMA SucceedsStep ==
    ASSUME Inv, NEW w \in Workers, NEW channel \in {"private", "group"},
           Succeeds(w, channel)
    PROVE  Inv'
<1>. DEFINE l == [lease[w] EXCEPT !.channel = channel]
<1>1. lease[w] \in HeldLease /\ lease[w].key \in Keys /\ lease[w].attempt >= 1
  BY DEF Succeeds, Inv, TypeOK
<1>2. /\ l \in HeldLease /\ l.key = lease[w].key /\ l.attempt = lease[w].attempt
      /\ l.channel = channel
  BY <1>1 DEF HeldLease
<1>3. /\ lease' = [lease EXCEPT ![w] = l]
      /\ pc' = [pc EXCEPT ![w] = "receipt"]
      /\ UNCHANGED <<now, task, overdueLog, policy, rem>>
      /\ run' \in [Workers -> 1..MaxRuns]
  BY DEF Succeeds, Inv, TypeOK
<1>4. /\ <<l.key, l.channel>> \in accepted'
      /\ accepted \subseteq accepted'
      /\ accepted' \subseteq Keys \X {"private", "group"}
  BY <1>1, <1>2 DEF Succeeds, Reaches, Inv, TypeOK
<1>. HIDE DEF l
<1>. QED
  BY <1>1, <1>2, <1>3, <1>4, Moved DEF WorkerPlaces

LEMMA FailsStep ==
    ASSUME Inv, NEW w \in Workers, NEW channel \in {"private", "group"},
           Fails(w, channel)
    PROVE  Inv'
<1>1. pc[w] \notin {"idle", "down"} /\ lease[w].key \in Keys
  BY DEF Fails, Inv, TypeOK
<1>2. /\ accepted \subseteq accepted'
      /\ accepted' \subseteq Keys \X {"private", "group"}
  BY <1>1 DEF Fails, Reaches, Inv, TypeOK
<1>3. Goto(w, "group") \/ Goto(w, "failed")
  BY DEF Fails
<1>. QED
  BY <1>1, <1>2, <1>3, GotoStep DEF Fails, WorkerPlaces

LEMMA InterruptStep ==
    ASSUME Inv, NEW w \in Workers, Interrupt(w)
    PROVE  Inv'
<1>1. pc[w] \in {"private", "group"} /\ lease[w].key \in Keys
  BY DEF Interrupt, Inv, TypeOK
<1>2. /\ accepted \subseteq accepted'
      /\ accepted' \subseteq Keys \X {"private", "group"}
  BY <1>1 DEF Interrupt, Reaches, Inv, TypeOK
<1>. QED
  BY <1>1, <1>2, GotoStep DEF Interrupt, WorkerPlaces

LEMMA MarkSentReadsStep ==
    ASSUME Inv, NEW w \in Workers, MarkSentReads(w) \/ MarkSentFails(w)
    PROVE  Inv'
<1>1. /\ UNCHANGED <<now, task, overdueLog, policy, rem, accepted>>
      /\ accepted' \subseteq Keys \X {"private", "group"}
      /\ pc[w] \notin {"idle", "down"}
  BY DEF MarkSentReads, MarkSentFails, Inv, TypeOK
<1>2. Goto(w, "failed") \/ (Goto(w, "mark") /\ pc[w] = "receipt")
  BY DEF MarkSentReads, MarkSentFails
<1>. QED
  BY <1>1, <1>2, GotoStep DEF WorkerPlaces

LEMMA BackoffIsInt ==
    ASSUME NEW attempt \in Int, attempt >= 1
    PROVE  Backoff(attempt) \in Int
  BY LimitAssumption DEF LimitAssumption, Backoff

LEMMA FailReadsStep ==
    ASSUME Inv, NEW w \in Workers, FailReads(w)
    PROVE  Inv'
<1>1. /\ UNCHANGED <<now, task, overdueLog, policy, rem, accepted>>
      /\ accepted' \subseteq Keys \X {"private", "group"}
      /\ pc[w] = "failed" /\ lease[w].key \in Keys /\ lease[w] \in HeldLease
      /\ lease[w].attempt >= 1
  BY DEF FailReads, Inv, TypeOK
<1>2. CASE Forget(w, "down")
  BY <1>1, <1>2, ForgetStep
<1>3. CASE Goto(w, "bury")
  BY <1>1, <1>3, GotoStep DEF WorkerPlaces
<1>4. CASE /\ pc' = [pc EXCEPT ![w] = "retry"]
           /\ lease' = [lease EXCEPT ![w].retryAt = now + Backoff(lease[w].attempt)]
           /\ UNCHANGED run
  <2>. DEFINE l == [lease[w] EXCEPT !.retryAt = now + Backoff(lease[w].attempt)]
  <2>1. now + Backoff(lease[w].attempt) \in Int
    <3>1. Backoff(lease[w].attempt) \in Int
      BY <1>1, BackoffIsInt DEF HeldLease
    <3>. QED
      BY <3>1, TimeAssumption DEF TimeAssumption, Inv, TypeOK
  <2>2. l \in HeldLease /\ l.key = lease[w].key /\ l.attempt = lease[w].attempt
    BY <1>1, <2>1 DEF HeldLease
  <2>3. lease' = [lease EXCEPT ![w] = l] /\ run' \in [Workers -> 1..MaxRuns]
    BY <1>4 DEF Inv, TypeOK
  <2>. HIDE DEF l
  <2>. QED
    BY <1>1, <1>4, <2>2, <2>3, Moved DEF WorkerPlaces
<1>. QED
  BY <1>2, <1>3, <1>4 DEF FailReads

LEMMA CrashStep ==
    ASSUME Inv, NEW w \in Workers, Crash(w)
    PROVE  Inv'
  BY ForgetStep DEF Crash

LEMMA RestartStep ==
    ASSUME Inv, NEW w \in Workers, Restart(w)
    PROVE  Inv'
<1>1. /\ lease[w] = NoLease /\ lease' = [lease EXCEPT ![w] = NoLease]
      /\ pc' = [pc EXCEPT ![w] = "idle"]
      /\ accepted' \subseteq Keys \X {"private", "group"}
  BY DEF Restart, Inv, TypeOK
<1>2. run' \in [Workers -> 1..MaxRuns]
  BY LimitAssumption DEF LimitAssumption, Restart, Inv, TypeOK
<1>. QED
  BY <1>1, <1>2, NoLeaseType, Moved DEF Restart, WorkerPlaces

LEMMA ClaimStep ==
    ASSUME Inv, NEW w \in Workers,
           Claim(w) \/ \E k \in Keys : ClaimTargeted(w, k)
    PROVE  Inv'
<1>. DEFINE rows == ClaimableRows(now)
            tks == SyncedTasks(now)
<1>1. pc[w] = "idle" /\ UNCHANGED <<now, policy, accepted>>
  BY DEF Claim, ClaimTargeted
<1>2. \/ FindNothing(rows, tks)
      \/ \E k \in Claimable(rows, tks, now) : Take(w, k, rows, tks)
  BY DEF Claim, ClaimTargeted
<1>. QED
  BY <1>1, <1>2, FindNothingStep, TakeStep

LEMMA WorkerStepInv ==
    ASSUME Inv, NEW w \in Workers, WorkerStep(w)
    PROVE  Inv'
  BY ClaimStep, SucceedsStep, FailsStep, InterruptStep, MarkSentReadsStep,
     MarkSentWritesStep, FailReadsStep, FailWritesStep, CrashStep, RestartStep
     DEF WorkerStep, Work

-----------------------------------------------------------------------------
(* The transactions of the rest of the program. *)

LEMMA WriteStep ==
    ASSUME Inv, NEW t \in Tasks, NEW tk \in TaskRow, Write(t, tk)
    PROVE  Inv'
<1>. DEFINE synced == MarkOverdue(tk, now)
<1>1. /\ synced \in TaskRow /\ (synced # tk => synced.deadline \in Deadlines)
  BY OverdueTask
<1>2. /\ task' = [task EXCEPT ![t] = synced]
      /\ rem' = SyncTask(rem, t, synced, policy)
      /\ overdueLog' = overdueLog \cup
             OverdueEvents([task EXCEPT ![t] = tk], [task EXCEPT ![t] = synced])
      /\ UNCHANGED <<now, policy, pc, run, lease, accepted>>
  BY DEF Write
<1>. HIDE DEF synced
<1>3. /\ task' \in [Tasks -> TaskRow] /\ task'[t] = synced
      /\ \A u \in Tasks \ {t} : task'[u] = task[u]
  BY <1>1, <1>2 DEF Inv, TypeOK
<1>4. OverdueEvents([task EXCEPT ![t] = tk], [task EXCEPT ![t] = synced])
          \subseteq Tasks \X Deadlines
  <2>1. ASSUME NEW u \in Tasks,
               [task EXCEPT ![t] = synced][u] # [task EXCEPT ![t] = tk][u]
        PROVE  [task EXCEPT ![t] = synced][u].deadline \in Deadlines
    BY <1>1, <2>1 DEF Inv, TypeOK
  <2>. QED
    BY <2>1 DEF OverdueEvents
<1>5. Table(rem) /\ policy \in Policies
  BY TypeOKTable DEF Inv, TypeOK
<1>6. \A k \in Keys : rem'[k] = IF k.task = t THEN SyncRow(rem[k], k, synced, policy)
                                              ELSE rem[k]
  BY <1>2 DEF SyncTask
<1>7. ASSUME NEW k \in Keys
      PROVE  /\ Good(rem'[k])
             /\ rem'[k].status = "leased" =>
                    Wanted(k, task'[k.task], policy) /\ rem'[k].due = Moment(k, policy)
             /\ rem'[k].status = "sent" => rem'[k] = rem[k]
  <2>1. k.task \in Tasks /\ Good(rem[k])
    BY <1>5 DEF Keys, Table
  <2>2. CASE k.task = t
    BY <1>3, <1>5, <1>6, <2>1, <2>2, SyncGood
  <2>3. CASE k.task # t
    BY <1>3, <1>6, <2>1, <2>3 DEF Inv, LeasedFitsPlan
  <2>. QED
    BY <2>2, <2>3
<1>8. Table(rem')
  <2>1. rem' \in [Keys -> Reminder]
    BY <1>2, <1>7 DEF SyncTask, Good
  <2>. QED
    BY <1>7, <2>1 DEF Table
<1>9. overdueLog' \subseteq Tasks \X Deadlines
  BY <1>2, <1>4 DEF Inv, TypeOK
<1>. QED
  BY <1>2, <1>3, <1>5, <1>7, <1>8, <1>9, Replanned

TaskStatuses == {"absent", "pending", "todo", "overdue", "done", "cancelled", "merged"}

LEMMA TaskStepInv ==
    ASSUME Inv, NEW t \in Tasks, TaskStep(t)
    PROVE  Inv'
<1>0. task[t] \in TaskRow
  BY DEF Inv, TypeOK
<1>1. \A status \in TaskStatuses : [task[t] EXCEPT !.status = status] \in TaskRow
  BY <1>0 DEF TaskRow, TaskStatuses
<1>2. CASE CreateTask(t)
  <2>1. PICK status \in {"pending", "todo"}, d \in Deadlines \cup {None},
             owners \in (SUBSET Members) \ {{}} :
               Write(t, [status |-> status, deadline |-> d, owners |-> owners])
    BY <1>2 DEF CreateTask
  <2>2. [status |-> status, deadline |-> d, owners |-> owners] \in TaskRow
    BY DEF TaskRow
  <2>. QED
    BY <2>1, <2>2, WriteStep
<1>3. CASE RedetectTask(t)
  <2>1. PICK d \in Deadlines \cup {None}, status \in TaskStatuses :
            Write(t, [task[t] EXCEPT !.deadline = d, !.status = status])
    BY <1>0, <1>3 DEF RedetectTask, TaskRow, TaskStatuses
  <2>2. [task[t] EXCEPT !.deadline = d, !.status = status] \in TaskRow
    BY <1>0 DEF TaskRow, TaskStatuses
  <2>. QED
    BY <2>1, <2>2, WriteStep
<1>4. CASE \/ ConfirmTask(t) \/ CompleteTask(t) \/ CancelTask(t)
           \/ MergeTask(t) \/ RestoreTask(t)
  <2>1. PICK status \in TaskStatuses :
            Write(t, [task[t] EXCEPT !.status = status])
    BY <1>4 DEF ConfirmTask, CompleteTask, CancelTask, MergeTask, RestoreTask, TaskStatuses
  <2>. QED
    BY <1>1, <2>1, WriteStep
<1>5. CASE RescheduleTask(t)
  <2>1. PICK d \in Deadlines :
            Write(t, [task[t] EXCEPT !.status = "todo", !.deadline = d])
    BY <1>5 DEF RescheduleTask
  <2>2. [task[t] EXCEPT !.status = "todo", !.deadline = d] \in TaskRow
    BY <1>0 DEF TaskRow
  <2>. QED
    BY <2>1, <2>2, WriteStep
<1>6. CASE ReassignTask(t)
  <2>1. PICK owners \in (SUBSET Members) \ {{}, task[t].owners} :
            Write(t, [task[t] EXCEPT !.owners = owners])
    BY <1>6 DEF ReassignTask
  <2>2. [task[t] EXCEPT !.owners = owners] \in TaskRow
    BY <1>0 DEF TaskRow
  <2>. QED
    BY <2>1, <2>2, WriteStep
<1>. QED
  BY <1>2, <1>3, <1>4, <1>5, <1>6 DEF TaskStep

(* Only the open tasks are re-planned, and only they have leased rows. *)
LEMMA SavePolicyStep ==
    ASSUME Inv, SavePolicy
    PROVE  Inv'
<1>. DEFINE tks == SyncedTasks(now)
<1>1. PICK p \in Policies \ {policy} :
        /\ policy' = p
        /\ task' = tks
        /\ rem' = [k \in Keys |-> IF task[k.task].status \in OpenStatuses
                                  THEN SyncRow(rem[k], k, tks[k.task], p)
                                  ELSE rem[k]]
        /\ overdueLog' = overdueLog \cup OverdueEvents(task, tks)
        /\ UNCHANGED <<now, pc, run, lease, accepted>>
  BY DEF SavePolicy, Commit
<1>2. Table(rem)
  BY TypeOKTable DEF Inv
<1>3. /\ task' \in [Tasks -> TaskRow]
      /\ overdueLog' \subseteq Tasks \X Deadlines
  BY <1>1, SyncedTasksType DEF Inv, TypeOK
<1>. HIDE DEF tks
<1>4. ASSUME NEW k \in Keys
      PROVE  /\ Good(rem'[k])
             /\ rem'[k].status = "leased" =>
                    Wanted(k, task'[k.task], policy') /\ rem'[k].due = Moment(k, policy')
             /\ rem'[k].status = "sent" => rem'[k] = rem[k]
  <2>1. Good(rem[k])
    BY <1>2 DEF Table
  <2>2. CASE task[k.task].status \in OpenStatuses
    <3>1. rem'[k] = SyncRow(rem[k], k, tks[k.task], p)
      BY <1>1, <2>2
    <3>. QED
      BY <1>1, <2>1, <3>1, SyncGood
  <2>3. CASE task[k.task].status \notin OpenStatuses
    <3>1. rem'[k] = rem[k]
      BY <1>1, <2>3
    <3>2. ~Wanted(k, task[k.task], policy)
      BY <2>3 DEF OpenStatuses, Wanted, DesiredKinds
    <3>3. rem[k].status # "leased"
      BY <3>2 DEF Inv, LeasedFitsPlan
    <3>. QED
      BY <2>1, <3>1, <3>3
  <2>. QED
    BY <2>2, <2>3
<1>5. Table(rem')
  <2>1. rem' \in [Keys -> Reminder]
    BY <1>1, <1>4 DEF Good
  <2>. QED
    BY <1>4, <2>1 DEF Table
<1>. QED
  BY <1>1, <1>3, <1>4, <1>5, Replanned

LEMMA SyncAllStep ==
    ASSUME Inv, SyncAll
    PROVE  Inv'
<1>. DEFINE tks == SyncedTasks(now)
<1>1. /\ task' = tks /\ rem' = SyncedRows(tks, policy)
      /\ overdueLog' = overdueLog \cup OverdueEvents(task, tks)
      /\ UNCHANGED <<now, policy, pc, run, lease, accepted>>
  BY DEF SyncAll, Commit
<1>2. /\ task' \in [Tasks -> TaskRow]
      /\ overdueLog' \subseteq Tasks \X Deadlines
  BY <1>1, SyncedTasksType DEF Inv, TypeOK
<1>3. policy \in Policies /\ FitTable(rem, SyncedRows(tks, policy), tks, policy)
  BY TypeOKTable, SyncedTable DEF Inv, TypeOK
<1>. HIDE DEF tks
<1>. QED
  BY <1>1, <1>2, <1>3, Replanned DEF FitTable

LEMMA TickStep ==
    ASSUME Inv, Tick
    PROVE  Inv'
<1>1. now' \in Instants /\ UNCHANGED <<task, overdueLog, policy, rem, pc, run, lease, accepted>>
  BY DEF Tick
<1>2. TypeOK'
  BY <1>1 DEF Inv, TypeOK
<1>3. LeasedFitsPlan'
  BY <1>1 DEF Inv, LeasedFitsPlan, Wanted, DesiredKinds, Moment
<1>4. SentWasAccepted' /\ ReceiptWasAccepted'
  BY <1>1 DEF Inv, SentWasAccepted, ReceiptWasAccepted
<1>. QED
  BY <1>2, <1>3, <1>4 DEF Inv

LEMMA InitInv == Init => Inv
<1>. SUFFICES ASSUME Init PROVE Inv
  OBVIOUS
<1>1. TypeOK
  <2>1. task \in [Tasks -> TaskRow]
    BY DEF Init, TaskRow
  <2>2. rem \in [Keys -> Reminder] /\ \A k \in Keys : RowChecks(rem[k])
    BY NoReminderRow DEF Init
  <2>3. run \in [Workers -> 1..MaxRuns]
    BY LimitAssumption DEF LimitAssumption, Init
  <2>4. /\ pc \in [Workers -> WorkerPlaces] /\ lease \in [Workers -> HeldLease]
        /\ \A w \in Workers : pc[w] = "idle" /\ lease[w] = NoLease
    BY NoLeaseType DEF Init, WorkerPlaces
  <2>5. now \in Instants /\ overdueLog = {} /\ accepted = {} /\ policy \in Policies
    BY DEF Init
  <2>. QED
    BY <2>1, <2>2, <2>3, <2>4, <2>5 DEF TypeOK
<1>2. \A k \in Keys : rem[k].status = "absent"
  BY DEF Init, NoReminder
<1>3. \A w \in Workers : pc[w] = "idle"
  BY DEF Init
<1>. QED
  BY <1>1, <1>2, <1>3 DEF Inv, LeasedFitsPlan, SentWasAccepted, ReceiptWasAccepted

LEMMA NextInv == Inv /\ [Next]_vars => Inv'
<1>. SUFFICES ASSUME Inv, [Next]_vars PROVE Inv'
  OBVIOUS
<1>1. CASE UNCHANGED vars
  <2>1. UNCHANGED <<now, task, overdueLog, policy, rem, pc, run, lease, accepted>>
    BY <1>1 DEF vars
  <2>2. TypeOK'
    BY <2>1 DEF Inv, TypeOK
  <2>3. LeasedFitsPlan' /\ SentWasAccepted' /\ ReceiptWasAccepted'
    BY <2>1 DEF Inv, LeasedFitsPlan, Wanted, DesiredKinds, Moment,
                SentWasAccepted, ReceiptWasAccepted
  <2>. QED
    BY <2>2, <2>3 DEF Inv
<1>2. CASE \E w \in Workers : WorkerStep(w)
  BY <1>2, WorkerStepInv
<1>3. CASE \E t \in Tasks : TaskStep(t)
  BY <1>3, TaskStepInv
<1>. QED
  BY <1>1, <1>2, <1>3, SavePolicyStep, SyncAllStep, TickStep DEF Next

LEMMA Invariance == Spec => []Inv
  BY InitInv, NextInv, PTL DEF Spec

(* Every reachable state is well formed: among it, every row of task_reminders
   that a transaction commits satisfies the table's CHECK constraints. *)
THEOREM TypeCorrect == Spec => []TypeOK
<1>1. Inv => TypeOK
  BY DEF Inv
<1>. QED
  BY <1>1, Invariance, PTL

(* A row is leased only while it is part of the current plan: every transaction
   that changes a task or the policy re-plans, and so takes the lease away, in
   the same commit. *)
THEOREM LeasedFits == Spec => []LeasedFitsPlan
<1>1. Inv => LeasedFitsPlan
  BY DEF Inv
<1>. QED
  BY <1>1, Invariance, PTL

(* A row that says sent was taken by Feishu on the channel it names, although
   mark_sent writes by primary key after it has checked the lease. *)
THEOREM SentAccepted == Spec => []SentWasAccepted
<1>1. Inv => SentWasAccepted
  BY DEF Inv
<1>. QED
  BY <1>1, Invariance, PTL

-----------------------------------------------------------------------------
(* What becomes of a final row in one step. *)

KeepsFinal ==
    \A k \in Keys :
        /\ rem[k].status = "sent" => rem'[k].status = "sent"
        /\ rem[k].reason = "superseded" => rem'[k] = rem[k]

LEMMA FitTableKeeps ==
    ASSUME NEW tks, NEW p, FitTable(rem, rem', tks, p)
    PROVE  KeepsFinal
  BY DEF FitTable, KeepsFinal, Final

(* An UPDATE by primary key cannot touch a final row, whoever holds it now: the
   row it would write breaks a CHECK constraint. *)
LEMMA StoredKeeps ==
    ASSUME Inv, NEW w \in Workers, lease[w].key \in Keys,
           NEW row \in Reminder, Stores(w, row),
           LET r == rem[lease[w].key]
           IN  /\ row.reason = r.reason /\ row.status \in {"sent", "dead", "scheduled"}
               /\ row.status # "sent" => row.message = r.message
    PROVE  KeepsFinal
<1>. DEFINE r == rem[lease[w].key]
<1>1. \A k \in Keys : rem'[k] = IF k = lease[w].key THEN row ELSE rem[k]
  BY DEF Stores, Inv, TypeOK
<1>2. RowChecks(row) /\ RowChecks(r)
  BY DEF Stores, Inv, TypeOK
<1>3. r.status = "sent" => row.status = "sent"
  BY <1>2 DEF RowChecks
<1>4. r.reason # "superseded"
  BY <1>2, NullAssumption DEF NullAssumption, RowChecks
<1>. QED
  BY <1>1, <1>3, <1>4 DEF KeepsFinal

LEMMA TakeKeeps ==
    ASSUME Inv, NEW w \in Workers,
           NEW k \in Claimable(ClaimableRows(now), SyncedTasks(now), now),
           Take(w, k, ClaimableRows(now), SyncedTasks(now))
    PROVE  KeepsFinal
<1>. DEFINE rows == ClaimableRows(now)
            row == Leased(rows[k], WorkerId(w), now)
<1>1. FitTable(rem, rows, SyncedTasks(now), policy)
  BY ClaimableTable, TypeOKTable, TimeAssumption DEF Inv, TypeOK, TimeAssumption
<1>2. k \in Keys /\ rows[k].status = "scheduled"
  BY DEF Claimable, DueNow
<1>3. rem' = [rows EXCEPT ![k] = row] \/ rem' = rem
  BY DEF Take, Commit
<1>. HIDE DEF rows, row
<1>4. ~Final(rem[k])
  BY <1>1, <1>2, NullAssumption
     DEF NullAssumption, FitTable, Table, Good, RowChecks, Final
<1>5. rows \in [Keys -> Reminder]
  BY <1>1 DEF FitTable, Table
<1>. QED
  BY <1>1, <1>2, <1>3, <1>4, <1>5 DEF FitTable, KeepsFinal, Final

LEMMA WorkerKeeps ==
    ASSUME Inv, NEW w \in Workers, WorkerStep(w)
    PROVE  KeepsFinal
<1>1. CASE Claim(w) \/ \E k \in Keys : ClaimTargeted(w, k)
  <2>. DEFINE rows == ClaimableRows(now)
              tks == SyncedTasks(now)
  <2>1. \/ FindNothing(rows, tks)
        \/ \E k \in Claimable(rows, tks, now) : Take(w, k, rows, tks)
    BY <1>1 DEF Claim, ClaimTargeted
  <2>2. CASE FindNothing(rows, tks)
    <3>1. FitTable(rem, rows, tks, policy) /\ rem' = rows
      BY <2>2, ClaimableTable, TypeOKTable, TimeAssumption
         DEF FindNothing, Commit, Inv, TypeOK, TimeAssumption
    <3>. HIDE DEF rows, tks
    <3>. QED
      BY <3>1, FitTableKeeps
  <2>. QED
    BY <2>1, <2>2, TakeKeeps
<1>2. CASE MarkSentWrites(w)
  <2>1. /\ lease[w].key \in Keys /\ rem[lease[w].key] \in Reminder
        /\ lease[w].channel \in {"private", "group"}
    BY <1>2 DEF MarkSentWrites, Inv, TypeOK, ReceiptWasAccepted
  <2>2. /\ SentRow(w) \in Reminder /\ SentRow(w).status = "sent"
        /\ SentRow(w).reason = rem[lease[w].key].reason
    BY <2>1, SentRowType DEF SentRow
  <2>3. Stores(w, SentRow(w)) \/ UNCHANGED rem
    BY <1>2 DEF MarkSentWrites
  <2>. QED
    BY <2>1, <2>2, <2>3, StoredKeeps DEF KeepsFinal
<1>3. CASE FailWrites(w)
  <2>1. /\ lease[w].key \in Keys /\ rem[lease[w].key] \in Reminder
        /\ lease[w].retryAt \in Int
    BY <1>3 DEF FailWrites, Inv, TypeOK, HeldLease
  <2>2. /\ FailedRow(w) \in Reminder /\ FailedRow(w).status \in {"dead", "scheduled"}
        /\ FailedRow(w).reason = rem[lease[w].key].reason
        /\ FailedRow(w).message = rem[lease[w].key].message
    BY <2>1, DeadRow, RetriedRow DEF FailedRow
  <2>3. Stores(w, FailedRow(w)) \/ UNCHANGED rem
    BY <1>3 DEF FailWrites
  <2>. QED
    BY <2>1, <2>2, <2>3, StoredKeeps DEF KeepsFinal
<1>4. CASE \/ \E channel \in {"private", "group"} : Succeeds(w, channel) \/ Fails(w, channel)
           \/ MarkSentReads(w) \/ MarkSentFails(w) \/ FailReads(w)
           \/ Interrupt(w) \/ Crash(w) \/ Restart(w)
  <2>1. UNCHANGED rem
    BY <1>4 DEF Succeeds, Fails, MarkSentReads, MarkSentFails, FailReads,
                Interrupt, Crash, Restart
  <2>. QED
    BY <2>1 DEF KeepsFinal
<1>. QED
  BY <1>1, <1>2, <1>3, <1>4 DEF WorkerStep, Work

LEMMA WriteKeeps ==
    ASSUME Inv, NEW t, NEW tk, Write(t, tk)
    PROVE  KeepsFinal
<1>1. /\ rem' = SyncTask(rem, t, MarkOverdue(tk, now), policy)
      /\ policy \in Policies /\ \A k \in Keys : Good(rem[k])
  BY DEF Write, Inv, TypeOK, Good
<1>2. \A k \in Keys :
        \/ rem'[k] = rem[k]
        \/ rem'[k] = SyncRow(rem[k], k, MarkOverdue(tk, now), policy)
  BY <1>1 DEF SyncTask
<1>. QED
  BY <1>1, <1>2, SyncGood DEF KeepsFinal, Final

LEMMA NextKeeps == Inv /\ [Next]_vars => KeepsFinal
<1>. SUFFICES ASSUME Inv, [Next]_vars PROVE KeepsFinal
  OBVIOUS
<1>1. CASE UNCHANGED vars
  BY <1>1 DEF vars, KeepsFinal
<1>2. CASE \E w \in Workers : WorkerStep(w)
  BY <1>2, WorkerKeeps
<1>3. CASE \E t \in Tasks : TaskStep(t)
  BY <1>3, WriteKeeps
     DEF TaskStep, CreateTask, RedetectTask, ConfirmTask, CompleteTask, CancelTask,
         MergeTask, RestoreTask, RescheduleTask, ReassignTask
<1>4. CASE SavePolicy
  <2>1. PICK p \in Policies :
            \A k \in Keys : \/ rem'[k] = rem[k]
                            \/ rem'[k] = SyncRow(rem[k], k, SyncedTasks(now)[k.task], p)
    BY <1>4 DEF SavePolicy, Commit
  <2>2. \A k \in Keys : Good(rem[k])
    BY DEF Inv, TypeOK, Good
  <2>. QED
    BY <2>1, <2>2, SyncGood DEF KeepsFinal, Final
<1>5. CASE SyncAll
  <2>. DEFINE tks == SyncedTasks(now)
  <2>1. FitTable(rem, SyncedRows(tks, policy), tks, policy)
    BY TypeOKTable, SyncedTable DEF Inv, TypeOK
  <2>2. rem' = SyncedRows(tks, policy)
    BY <1>5 DEF SyncAll, Commit
  <2>. HIDE DEF tks
  <2>. QED
    BY <2>1, <2>2, FitTableKeeps
<1>6. CASE Tick
  BY <1>6 DEF Tick, KeepsFinal
<1>. QED
  BY <1>1, <1>2, <1>3, <1>4, <1>5, <1>6 DEF Next

(* A reminder recorded as sent is never sent again: no synchronization, lease
   recovery, late mark_sent or late fail takes the row back. *)
THEOREM SentFinal == Spec => SentIsFinal
<1>1. KeepsFinal => \A k \in Keys : rem[k].status = "sent" => rem'[k].status = "sent"
  BY DEF KeepsFinal
<1>. QED
  BY <1>1, Invariance, NextKeeps, PTL DEF Spec, SentIsFinal

(* A stage collapsed into a more urgent one by claim_due never comes back, for
   any number of workers. *)
THEOREM SupersededFinal == Spec => SupersededIsFinal
<1>1. KeepsFinal => \A k \in Keys : rem[k].reason = "superseded" => rem'[k] = rem[k]
  BY DEF KeepsFinal
<1>. QED
  BY <1>1, Invariance, NextKeeps, PTL DEF Spec, SupersededIsFinal
=============================================================================
