------------------------- MODULE ReminderPlanProofs -------------------------
(***************************************************************************)
(* What the reminder queue plans and in which order it leases, for every   *)
(* value of its constants: that claim_due leases the most urgent of the    *)
(* stages that were missed, and, with one worker slot, that no stage of a  *)
(* live plan is lost and none waits outside it.                            *)
(***************************************************************************)
EXTENDS ReminderOutboxProofs

-----------------------------------------------------------------------------
(* The rows before the collapse, and what they have in common with the table. *)

Recovered(at) == RecoveredRows(SyncedRows(SyncedTasks(at), policy), at)

(* A row that a pass before the collapse touches is not left superseded by it, and
   is leased only if its process had it already. *)
LEMMA SyncSources ==
    ASSUME NEW r, Good(r), NEW k \in Keys, NEW tk, NEW p \in Policies
    PROVE  LET s == SyncRow(r, k, tk, p)
           IN  /\ s.reason = "superseded" => r.reason = "superseded"
               /\ s.status = "dead" => s = r
<1>. DEFINE m == Moment(k, p)
            s == SyncRow(r, k, tk, p)
<1>1. m \in Int
  BY MomentIsInt
<1>2. Planned(m).status = "scheduled" /\ Planned(m).reason = None
  BY DEF Planned
<1>3. /\ Rescheduled(r, m).status = "scheduled" /\ Rescheduled(r, m).reason = r.reason
      /\ Withdrawn(r, "withdrawn").status = "cancelled"
      /\ Withdrawn(r, "withdrawn").reason = "withdrawn"
  BY <1>1, RescheduledRow, WithdrawnRow DEF Good
<1>. HIDE DEF m
<1>4. \/ s = r \/ s = Withdrawn(r, "withdrawn")
      \/ s = Rescheduled(r, m) \/ s = Planned(m)
  BY DEF SyncRow, m
<1>. HIDE DEF s
<1>5. None # "superseded"
  BY NullAssumption DEF NullAssumption
<1>6. /\ s.reason = "superseded" => r.reason = "superseded"
      /\ s.status = "dead" => s = r
  BY <1>2, <1>3, <1>4, <1>5
<1>. QED
  BY <1>6 DEF s

LEMMA RecoveredSources ==
    ASSUME Table(rem), policy \in Policies, NEW at \in Int
    PROVE  /\ FitTable(rem, Recovered(at), SyncedTasks(at), policy)
           /\ \A k \in Keys : Recovered(at)[k].reason = "superseded" =>
                                  rem[k].reason = "superseded"
<1>. DEFINE tks == SyncedTasks(at)
            a == SyncedRows(tks, policy)
            b == RecoveredRows(a, at)
<1>1. FitTable(rem, a, tks, policy)
  BY SyncedTable
<1>2. FitTable(rem, b, tks, policy)
  <2>. HIDE DEF tks, a
  <2>. QED  BY <1>1, RecoveredTable
<1>3. ASSUME NEW k \in Keys, b[k].reason = "superseded"
      PROVE  rem[k].reason = "superseded"
  <2>1. a[k] = SyncRow(rem[k], k, tks[k.task], policy) /\ Good(rem[k]) /\ Good(a[k])
    BY <1>1 DEF SyncedRows, FitTable, Table
  <2>2. b[k] = RecoverLease(a[k], at)
    BY DEF RecoveredRows
  <2>. HIDE DEF a, b, tks
  <2>3. a[k].reason = "superseded"
    BY <1>3, <2>1, <2>2, DeadRow, RetriedRow DEF RecoverLease, Good
  <2>. QED
    BY <2>1, <2>3, SyncSources
<1>. QED
  BY <1>2, <1>3 DEF Recovered

-----------------------------------------------------------------------------
(* The most urgent stage first. *)

(* Whatever j is, no row k that survives the collapse of "rows" as due is less
   urgent than a row j of its plan that was due before. *)
LEMMA CollapseKeepsUrgent ==
    ASSUME NEW rows, Table(rows), NEW at, NEW k \in Keys, NEW j \in Keys,
           DueNow(CollapsedRows(rows, at)[k], at),
           SamePlan(j, k), Priority[j.kind] > Priority[k.kind]
    PROVE  ~DueNow(rows[j], at) /\ CollapsedRows(rows, at)[j] = rows[j]
<1>. DEFINE new == CollapsedRows(rows, at)
<1>1. \A i \in Keys : new[i] = IF Superseded(rows, i, at)
                               THEN Withdrawn(rows[i], "superseded") ELSE rows[i]
  BY DEF CollapsedRows
<1>2. Withdrawn(rows[k], "superseded").status = "cancelled"
  BY WithdrawnRow DEF Table
<1>. HIDE DEF new
<1>3. DueNow(new[k], at)
  BY DEF new
<1>4. new[k] = rows[k] /\ ~Superseded(rows, k, at)
  BY <1>1, <1>2, <1>3 DEF DueNow
<1>5. ~DueNow(rows[j], at)
  BY <1>3, <1>4 DEF Superseded
<1>6. new[j] = rows[j]
  BY <1>1, <1>5 DEF Superseded
<1>. QED
  BY <1>5, <1>6 DEF new

(* What the property asks of one step. *)
LeasesMostUrgent ==
    \A k \in Keys :
        rem'[k].status = "leased" /\ rem'[k].worker # rem[k].worker =>
            ~\E j \in Keys :
                /\ SamePlan(j, k) /\ Priority[j.kind] > Priority[k.kind]
                /\ \/ DueNow(rem'[j], now)
                   \/ rem[j].reason # "superseded" /\ rem'[j].reason = "superseded"

(* A step that leases nothing satisfies it. *)
LeasesNothing ==
    \A k \in Keys : rem'[k].status = "leased" => rem'[k] = rem[k]

LEMMA NothingLeased ==
    ASSUME LeasesNothing
    PROVE  LeasesMostUrgent
  BY DEF LeasesNothing, LeasesMostUrgent

LEMMA TakeUrgent ==
    ASSUME Inv, NEW w \in Workers,
           NEW k \in Claimable(ClaimableRows(now), SyncedTasks(now), now),
           Take(w, k, ClaimableRows(now), SyncedTasks(now))
    PROVE  LeasesMostUrgent
<1>. DEFINE rows == ClaimableRows(now)
            before == Recovered(now)
            row == Leased(rows[k], WorkerId(w), now)
<1>0. now \in Int /\ policy \in Policies /\ Table(rem)
  BY TypeOKTable, TimeAssumption DEF Inv, TypeOK, TimeAssumption
<1>1. FitTable(rem, rows, SyncedTasks(now), policy)
  BY <1>0, ClaimableTable
<1>2. /\ FitTable(rem, before, SyncedTasks(now), policy)
      /\ \A j \in Keys : before[j].reason = "superseded" => rem[j].reason = "superseded"
  BY <1>0, RecoveredSources
<1>3. rows = CollapsedRows(before, now)
  BY DEF ClaimableRows, Recovered
<1>4. k \in Keys /\ DueNow(rows[k], now)
  BY DEF Claimable
<1>5. rem' = [rows EXCEPT ![k] = row] \/ rem' = rem
  BY DEF Take, Commit
<1>. HIDE DEF rows, before, row
<1>6. CASE rem' = rem
  BY <1>6, NothingLeased DEF LeasesNothing
<1>7. CASE rem' = [rows EXCEPT ![k] = row]
  <2>1. \A j \in Keys : rem'[j] = IF j = k THEN row ELSE rows[j]
    BY <1>1, <1>7 DEF FitTable, Table
  <2>2. SUFFICES ASSUME NEW i \in Keys, rem'[i].status = "leased",
                        rem'[i].worker # rem[i].worker,
                        NEW j \in Keys, SamePlan(j, i), Priority[j.kind] > Priority[i.kind]
                 PROVE  ~ \/ DueNow(rem'[j], now)
                          \/ rem[j].reason # "superseded" /\ rem'[j].reason = "superseded"
    BY DEF LeasesMostUrgent
  <2>3. i = k
    BY <1>1, <2>1, <2>2 DEF FitTable
  <2>4. j # k
    <3>1. Priority[k.kind] \in Int
      BY <1>4 DEF Keys, Kinds, Priority
    <3>. QED
      BY <2>2, <2>3, <3>1
  <2>5. Table(before)
    BY <1>2 DEF FitTable
  <2>6. ~DueNow(before[j], now) /\ rows[j] = before[j]
    BY <1>3, <1>4, <2>2, <2>3, <2>5, CollapseKeepsUrgent
  <2>. QED
    BY <1>2, <2>1, <2>4, <2>6
<1>. QED
  BY <1>5, <1>6, <1>7

(* The two ways a worker's commit changes the table outside claim_due. *)
LEMMA StoredLeasesNothing ==
    ASSUME Inv, NEW w \in Workers, NEW row, row.status # "leased", Stores(w, row)
    PROVE  LeasesNothing
<1>1. \A k \in Keys : rem'[k] = row \/ rem'[k] = rem[k]
  BY DEF Stores, Inv, TypeOK
<1>. QED
  BY <1>1 DEF LeasesNothing

LEMMA SyncLeasesNothing ==
    ASSUME Inv, NEW tks, NEW p \in Policies,
           \A k \in Keys : rem'[k] = rem[k] \/ rem'[k] = SyncRow(rem[k], k, tks[k.task], p)
    PROVE  LeasesNothing
<1>1. \A k \in Keys : Good(rem[k])
  BY DEF Inv, TypeOK, Good
<1>. QED
  BY <1>1, SyncGood DEF LeasesNothing

LEMMA WorkerUrgent ==
    ASSUME Inv, NEW w \in Workers, WorkerStep(w)
    PROVE  LeasesMostUrgent
<1>1. CASE Claim(w) \/ \E k \in Keys : ClaimTargeted(w, k)
  <2>. DEFINE rows == ClaimableRows(now)
              tks == SyncedTasks(now)
  <2>1. \/ FindNothing(rows, tks)
        \/ \E k \in Claimable(rows, tks, now) : Take(w, k, rows, tks)
    BY <1>1 DEF Claim, ClaimTargeted
  <2>2. CASE FindNothing(rows, tks)
    <3>1. FitTable(rem, rows, tks, policy) /\ rem' = rows
      BY <2>2, ClaimableTable, TypeOKTable, TimeAssumption
         DEF FindNothing, Commit, Inv, TypeOK, TimeAssumption
    <3>. HIDE DEF rows, tks
    <3>. QED
      BY <3>1, NothingLeased DEF FitTable, LeasesNothing
  <2>. QED
    BY <2>1, <2>2, TakeUrgent
<1>2. CASE MarkSentWrites(w)
  <2>1. /\ rem[lease[w].key] \in Reminder /\ lease[w].channel \in {"private", "group"}
    BY <1>2 DEF MarkSentWrites, Inv, TypeOK, ReceiptWasAccepted
  <2>2. SentRow(w).status = "sent"
    BY <2>1, SentRowType DEF SentRow
  <2>3. Stores(w, SentRow(w)) \/ UNCHANGED rem
    BY <1>2 DEF MarkSentWrites
  <2>. QED
    BY <2>2, <2>3, StoredLeasesNothing, NothingLeased DEF LeasesNothing
<1>3. CASE FailWrites(w)
  <2>1. rem[lease[w].key] \in Reminder /\ lease[w].retryAt \in Int
    BY <1>3 DEF FailWrites, Inv, TypeOK, HeldLease
  <2>2. FailedRow(w).status \in {"dead", "scheduled"}
    BY <2>1, DeadRow, RetriedRow DEF FailedRow
  <2>3. Stores(w, FailedRow(w)) \/ UNCHANGED rem
    BY <1>3 DEF FailWrites
  <2>. QED
    BY <2>2, <2>3, StoredLeasesNothing, NothingLeased DEF LeasesNothing
<1>4. CASE \/ \E channel \in {"private", "group"} : Succeeds(w, channel) \/ Fails(w, channel)
           \/ MarkSentReads(w) \/ MarkSentFails(w) \/ FailReads(w)
           \/ Interrupt(w) \/ Crash(w) \/ Restart(w)
  <2>1. UNCHANGED rem
    BY <1>4 DEF Succeeds, Fails, MarkSentReads, MarkSentFails, FailReads,
                Interrupt, Crash, Restart
  <2>. QED
    BY <2>1, NothingLeased DEF LeasesNothing
<1>. QED
  BY <1>1, <1>2, <1>3, <1>4 DEF WorkerStep, Work

(* A step that is no worker's synchronizes rows, or leaves them. *)
OnlySyncs ==
    \E p \in Policies : \E tks \in [Tasks -> TaskRow] :
        \A k \in Keys : rem'[k] = rem[k] \/ rem'[k] = SyncRow(rem[k], k, tks[k.task], p)

LEMMA WriteSyncs ==
    ASSUME Inv, NEW t \in Tasks, NEW tk, Write(t, tk), task' \in [Tasks -> TaskRow]
    PROVE  OnlySyncs
<1>1. /\ rem' = SyncTask(rem, t, MarkOverdue(tk, now), policy)
      /\ task' = [task EXCEPT ![t] = MarkOverdue(tk, now)]
      /\ policy \in Policies
  BY DEF Write, Inv, TypeOK
<1>2. task'[t] = MarkOverdue(tk, now)
  BY <1>1 DEF Inv, TypeOK
<1>3. \A k \in Keys : \/ rem'[k] = rem[k]
                      \/ rem'[k] = SyncRow(rem[k], k, task'[k.task], policy)
  BY <1>1, <1>2 DEF SyncTask
<1>. QED
  BY <1>1, <1>3 DEF OnlySyncs

LEMMA OthersSync ==
    ASSUME Inv, Inv', [Next]_vars, ~\E w \in Workers : WorkerStep(w)
    PROVE  OnlySyncs
<1>0. task' \in [Tasks -> TaskRow] /\ task \in [Tasks -> TaskRow] /\ policy \in Policies
  BY DEF Inv, TypeOK
<1>1. CASE UNCHANGED rem
  BY <1>0, <1>1 DEF OnlySyncs
<1>2. ASSUME NEW t \in Tasks, TaskStep(t)
      PROVE  OnlySyncs
  <2>1. \E tk : Write(t, tk)
    BY <1>2 DEF TaskStep, CreateTask, RedetectTask, ConfirmTask, CompleteTask, CancelTask,
       MergeTask, RestoreTask, RescheduleTask, ReassignTask
  <2>. QED
    BY <1>0, <2>1, WriteSyncs
<1>3. CASE SavePolicy
  <2>1. /\ policy' \in Policies /\ task' = SyncedTasks(now)
        /\ \A k \in Keys : \/ rem'[k] = rem[k]
                           \/ rem'[k] = SyncRow(rem[k], k, SyncedTasks(now)[k.task], policy')
    BY <1>3 DEF SavePolicy, Commit
  <2>. QED
    BY <1>0, <2>1 DEF OnlySyncs
<1>4. CASE SyncAll
  <2>1. /\ task' = SyncedTasks(now)
        /\ \A k \in Keys : rem'[k] = SyncRow(rem[k], k, SyncedTasks(now)[k.task], policy)
    BY <1>4 DEF SyncAll, Commit, SyncedRows
  <2>. QED
    BY <1>0, <2>1 DEF OnlySyncs
<1>. QED
  BY <1>1, <1>2, <1>3, <1>4 DEF Next, Tick, vars

LEMMA NextUrgent == Inv /\ Inv' /\ [Next]_vars => LeasesMostUrgent
<1>. SUFFICES ASSUME Inv, Inv', [Next]_vars PROVE LeasesMostUrgent
  OBVIOUS
<1>1. CASE \E w \in Workers : WorkerStep(w)
  BY <1>1, WorkerUrgent
<1>2. CASE ~\E w \in Workers : WorkerStep(w)
  BY <1>2, OthersSync, SyncLeasesNothing, NothingLeased DEF OnlySyncs
<1>. QED
  BY <1>1, <1>2

(* A member who missed several stages of a deadline is reminded of the most urgent
   one: claim_due never leases a row while a more urgent stage of the same deadline
   and member is due, and never gives a more urgent stage up for the one it leases,
   whichever worker claims and whichever row a command names. *)
THEOREM MostUrgentFirst == Spec => ClaimsMostUrgent
<1>1. LeasesMostUrgent =>
        \A k \in Keys :
          rem'[k].status = "leased" /\ rem'[k].worker # rem[k].worker =>
              ~\E j \in Keys :
                  /\ SamePlan(j, k) /\ Priority[j.kind] > Priority[k.kind]
                  /\ \/ DueNow(rem'[j], now)
                     \/ rem[j].reason # "superseded" /\ rem'[j].reason = "superseded"
  BY DEF LeasesMostUrgent
<1>. QED
  BY <1>1, Invariance, NextUrgent, PTL DEF Spec, ClaimsMostUrgent

-----------------------------------------------------------------------------
(* The plan and the queue, row by row. *)

(* Row r of key k is where the plan of tk under p wants it. *)
RowCovered(r, k, tk, p) ==
    /\ Wanted(k, tk, p) => \/ r.status \in {"scheduled", "leased", "sent", "dead"}
                           \/ r.reason = "superseded"
    /\ r.status = "scheduled" => Wanted(k, tk, p) /\ r.due = Moment(k, p)

Covers(rows, tks, p) == \A k \in Keys : RowCovered(rows[k], k, tks[k.task], p)

(* A process in hand of a lease works on a row that nobody buried.  With a second
   slot this is false: one process may recover and bury what the other retries. *)
HeldAlive ==
    \A w \in Workers : Busy(pc[w]) => rem[lease[w].key].status # "dead"

(* A synchronization alone establishes it. *)
LEMMA SyncCovers ==
    ASSUME NEW r, Good(r), NEW k \in Keys, NEW tk, NEW p \in Policies
    PROVE  RowCovered(SyncRow(r, k, tk, p), k, tk, p)
<1>. DEFINE m == Moment(k, p)
            s == SyncRow(r, k, tk, p)
<1>1. m \in Int
  BY MomentIsInt
<1>2. Planned(m).status = "scheduled"
  BY DEF Planned
<1>3. Rescheduled(r, m).status = "scheduled"
  BY <1>1, RescheduledRow DEF Good
<1>. HIDE DEF m
<1>4. ASSUME Wanted(k, tk, p)
      PROVE  \/ s.status \in {"scheduled", "leased", "sent", "dead"}
             \/ s.reason = "superseded"
  <2>1. CASE r.status \in {"scheduled", "leased"}
    BY <1>3, <1>4, <2>1 DEF SyncRow, m, Revivable
  <2>2. CASE Revivable(r)
    BY <1>2, <1>4, <2>2 DEF SyncRow, m, Revivable
  <2>3. CASE ~Revivable(r) /\ r.status \notin {"scheduled", "leased"}
    <3>1. s = r
      BY <2>3 DEF SyncRow
    <3>2. r.status \in {"sent", "dead"} \/ r.reason = "superseded"
      BY <2>3 DEF Revivable, Good, Reminder
    <3>. QED
      BY <3>1, <3>2
  <2>. QED
    BY <2>1, <2>2, <2>3
<1>5. s.status = "scheduled" => Wanted(k, tk, p) /\ s.due = Moment(k, p)
  BY SyncGood
<1>. QED
  BY <1>4, <1>5 DEF RowCovered

LEMMA RecoverCovers ==
    ASSUME NEW r, Good(r), NEW k, NEW tk, NEW p, RowCovered(r, k, tk, p),
           r.status = "leased" => Wanted(k, tk, p) /\ r.due = Moment(k, p),
           NEW at \in Int
    PROVE  RowCovered(RecoverLease(r, at), k, tk, p)
  BY DeadRow, RetriedRow DEF RecoverLease, RowCovered, Good

(* The three passes of claim_due keep it. *)
LEMMA ClaimCovers ==
    ASSUME Table(rem), policy \in Policies, NEW at \in Int
    PROVE  Covers(ClaimableRows(at), SyncedTasks(at), policy)
<1>. DEFINE tks == SyncedTasks(at)
            a == SyncedRows(tks, policy)
            b == RecoveredRows(a, at)
            c == CollapsedRows(b, at)
<1>1. FitTable(rem, a, tks, policy)
  BY SyncedTable
<1>2. FitTable(rem, b, tks, policy)
  <2>. HIDE DEF tks, a
  <2>. QED  BY <1>1, RecoveredTable
<1>3. c = ClaimableRows(at)
  BY DEF ClaimableRows
<1>4. ASSUME NEW k \in Keys
      PROVE  RowCovered(c[k], k, tks[k.task], policy)
  <2>1. Good(rem[k]) /\ Good(a[k]) /\ Good(b[k])
    BY <1>1, <1>2 DEF FitTable, Table
  <2>2. a[k] = SyncRow(rem[k], k, tks[k.task], policy)
    BY DEF SyncedRows
  <2>3. b[k] = RecoverLease(a[k], at)
    BY DEF RecoveredRows
  <2>4. c[k] = IF Superseded(b, k, at) THEN Withdrawn(b[k], "superseded") ELSE b[k]
    BY DEF CollapsedRows
  <2>5. a[k].status = "leased" =>
            Wanted(k, tks[k.task], policy) /\ a[k].due = Moment(k, policy)
    BY <1>1 DEF FitTable
  <2>6. /\ Withdrawn(b[k], "superseded").status = "cancelled"
        /\ Withdrawn(b[k], "superseded").reason = "superseded"
    BY <2>1, WithdrawnRow DEF Good
  <2>. HIDE DEF a, b, c, tks
  <2>7. RowCovered(a[k], k, tks[k.task], policy)
    BY <2>1, <2>2, SyncCovers
  <2>8. RowCovered(b[k], k, tks[k.task], policy)
    BY <2>1, <2>3, <2>5, <2>7, RecoverCovers
  <2>. QED
    BY <2>4, <2>6, <2>8 DEF RowCovered
<1>. HIDE DEF a, b, c, tks
<1>. QED
  BY <1>3, <1>4 DEF Covers, tks

(* An UPDATE of a late or timely process keeps the plan covered: the row it writes
   was waiting or leased, because any other breaks a CHECK constraint. *)
LEMMA StoredCovers ==
    ASSUME Inv, HeldExist, HeldAlive, Covers(rem, task, policy),
           NEW w \in Workers, Busy(pc[w]), lease[w].key \in Keys,
           NEW row, row \in Reminder, Stores(w, row),
           LET r == rem[lease[w].key]
           IN  /\ row.reason = r.reason /\ row.status \in {"sent", "dead", "scheduled"}
               /\ row.status = "scheduled" => row.message = r.message /\ row.due = r.due
    PROVE  Covers(rem', task, policy)
<1>. DEFINE key == lease[w].key
            r == rem[key]
<1>1. \A k \in Keys : rem'[k] = IF k = key THEN row ELSE rem[k]
  BY DEF Stores, Inv, TypeOK
<1>2. RowChecks(row) /\ RowChecks(r) /\ r \in Reminder
  BY DEF Stores, Inv, TypeOK
<1>3. r.status \notin {"absent", "dead"}
  BY DEF HeldExist, HeldAlive, Busy
<1>4. RowCovered(r, key, task[key.task], policy)
  BY DEF Covers
<1>5. r.status = "leased" => Wanted(key, task[key.task], policy) /\ r.due = Moment(key, policy)
  BY DEF Inv, LeasedFitsPlan
<1>6. /\ row.reason = r.reason /\ row.status \in {"sent", "dead", "scheduled"}
      /\ row.status = "scheduled" => row.message = r.message /\ row.due = r.due
  OBVIOUS
<1>. HIDE DEF key, r
<1>7. row.status = "scheduled" => r.status \in {"scheduled", "leased"}
  BY <1>2, <1>3, <1>6 DEF RowChecks, Reminder
<1>8. RowCovered(row, key, task[key.task], policy)
  BY <1>4, <1>5, <1>6, <1>7 DEF RowCovered
<1>. QED
  BY <1>1, <1>8 DEF Covers

LEMMA TakeCovers ==
    ASSUME Inv, Covers(rem, task, policy), NEW w \in Workers,
           NEW k \in Claimable(ClaimableRows(now), SyncedTasks(now), now),
           Take(w, k, ClaimableRows(now), SyncedTasks(now))
    PROVE  Covers(rem', task', policy)
<1>. DEFINE rows == ClaimableRows(now)
            tks == SyncedTasks(now)
            row == Leased(rows[k], WorkerId(w), now)
<1>1. FitTable(rem, rows, tks, policy) /\ Covers(rows, tks, policy)
  BY ClaimableTable, ClaimCovers, TypeOKTable, TimeAssumption
     DEF Inv, TypeOK, TimeAssumption
<1>2. k \in Keys /\ rows[k].status = "scheduled"
  BY DEF Claimable, DueNow
<1>3. row.status = "leased"
  BY <1>1, <1>2 DEF Leased, FitTable, Table, Reminder
<1>4. \/ task' = tks /\ rem' = [rows EXCEPT ![k] = row]
      \/ UNCHANGED <<task, rem>>
  BY DEF Take, Commit
<1>. HIDE DEF rows, tks, row
<1>5. CASE UNCHANGED <<task, rem>>
  BY <1>5 DEF Covers
<1>6. CASE task' = tks /\ rem' = [rows EXCEPT ![k] = row]
  <2>1. \A j \in Keys : rem'[j] = IF j = k THEN row ELSE rows[j]
    BY <1>1, <1>6 DEF FitTable, Table
  <2>. QED
    BY <1>1, <1>3, <1>6, <2>1 DEF Covers, RowCovered
<1>. QED
  BY <1>4, <1>5, <1>6

LEMMA WorkerCovers ==
    ASSUME Inv, HeldExist, HeldAlive, Covers(rem, task, policy),
           NEW w \in Workers, WorkerStep(w)
    PROVE  Covers(rem', task', policy')
<1>1. CASE Claim(w) \/ \E k \in Keys : ClaimTargeted(w, k)
  <2>. DEFINE rows == ClaimableRows(now)
              tks == SyncedTasks(now)
  <2>1. /\ policy' = policy
        /\ \/ FindNothing(rows, tks)
           \/ \E k \in Claimable(rows, tks, now) : Take(w, k, rows, tks)
    BY <1>1 DEF Claim, ClaimTargeted
  <2>2. CASE FindNothing(rows, tks)
    <3>1. Covers(rows, tks, policy) /\ rem' = rows /\ task' = tks
      BY <2>2, ClaimCovers, TypeOKTable, TimeAssumption
         DEF FindNothing, Commit, Inv, TypeOK, TimeAssumption
    <3>. HIDE DEF rows, tks
    <3>. QED
      BY <2>1, <3>1
  <2>. QED
    BY <2>1, <2>2, TakeCovers
<1>2. CASE MarkSentWrites(w)
  <2>1. /\ lease[w].key \in Keys /\ rem[lease[w].key] \in Reminder
        /\ lease[w].channel \in {"private", "group"} /\ Busy(pc[w])
    BY <1>2 DEF MarkSentWrites, Inv, TypeOK, ReceiptWasAccepted, Busy
  <2>2. /\ SentRow(w) \in Reminder /\ SentRow(w).status = "sent"
        /\ SentRow(w).reason = rem[lease[w].key].reason
    BY <2>1, SentRowType DEF SentRow
  <2>3. UNCHANGED <<task, policy>> /\ (Stores(w, SentRow(w)) \/ UNCHANGED rem)
    BY <1>2 DEF MarkSentWrites
  <2>. QED
    BY <2>1, <2>2, <2>3, StoredCovers
<1>3. CASE FailWrites(w)
  <2>1. /\ lease[w].key \in Keys /\ rem[lease[w].key] \in Reminder
        /\ lease[w].retryAt \in Int /\ Busy(pc[w])
    BY <1>3 DEF FailWrites, Inv, TypeOK, HeldLease, Busy
  <2>2. /\ FailedRow(w) \in Reminder /\ FailedRow(w).status \in {"dead", "scheduled"}
        /\ FailedRow(w).reason = rem[lease[w].key].reason
        /\ FailedRow(w).message = rem[lease[w].key].message
        /\ FailedRow(w).due = rem[lease[w].key].due
    BY <2>1, DeadRow, RetriedRow DEF FailedRow
  <2>3. UNCHANGED <<task, policy>> /\ (Stores(w, FailedRow(w)) \/ UNCHANGED rem)
    BY <1>3 DEF FailWrites
  <2>. QED
    BY <2>1, <2>2, <2>3, StoredCovers
<1>4. CASE \/ \E channel \in {"private", "group"} : Succeeds(w, channel) \/ Fails(w, channel)
           \/ MarkSentReads(w) \/ MarkSentFails(w) \/ FailReads(w)
           \/ Interrupt(w) \/ Crash(w) \/ Restart(w)
  <2>1. UNCHANGED <<rem, task, policy>>
    BY <1>4 DEF Succeeds, Fails, MarkSentReads, MarkSentFails, FailReads,
                Interrupt, Crash, Restart
  <2>. QED
    BY <2>1
<1>. QED
  BY <1>1, <1>2, <1>3, <1>4 DEF WorkerStep, Work

LEMMA WriteCovers ==
    ASSUME Inv, Covers(rem, task, policy), NEW t \in Tasks, NEW tk, Write(t, tk)
    PROVE  Covers(rem', task', policy')
<1>. DEFINE synced == MarkOverdue(tk, now)
<1>1. /\ rem' = SyncTask(rem, t, synced, policy) /\ policy' = policy
      /\ \A u \in Tasks : task'[u] = IF u = t THEN synced ELSE task[u]
      /\ policy \in Policies /\ \A k \in Keys : Good(rem[k]) /\ k.task \in Tasks
  BY DEF Write, Inv, TypeOK, Good, Keys
<1>2. \A k \in Keys : rem'[k] = IF k.task = t THEN SyncRow(rem[k], k, synced, policy)
                                             ELSE rem[k]
  BY <1>1 DEF SyncTask
<1>. HIDE DEF synced
<1>3. ASSUME NEW k \in Keys
      PROVE  RowCovered(rem'[k], k, task'[k.task], policy)
  BY <1>1, <1>2, SyncCovers DEF Covers
<1>. QED
  BY <1>1, <1>3 DEF Covers

(* Saving a policy re-plans the open tasks only; the rows of the others are neither
   wanted nor waiting under any policy. *)
LEMMA SavePolicyCovers ==
    ASSUME Inv, Covers(rem, task, policy), SavePolicy
    PROVE  Covers(rem', task', policy')
<1>1. /\ policy' \in Policies /\ task' = SyncedTasks(now)
      /\ rem' = [k \in Keys |-> IF task[k.task].status \in OpenStatuses
                                THEN SyncRow(rem[k], k, SyncedTasks(now)[k.task], policy')
                                ELSE rem[k]]
  BY DEF SavePolicy, Commit
<1>2. ASSUME NEW k \in Keys
      PROVE  RowCovered(rem'[k], k, task'[k.task], policy')
  <2>1. Good(rem[k]) /\ k.task \in Tasks
    BY DEF Inv, TypeOK, Good, Keys
  <2>2. CASE task[k.task].status \in OpenStatuses
    BY <1>1, <2>1, <2>2, SyncCovers
  <2>3. CASE task[k.task].status \notin OpenStatuses
    <3>1. rem'[k] = rem[k]
      BY <1>1, <2>3
    <3>2. task'[k.task] = task[k.task]
      BY <1>1, <2>1, <2>3 DEF SyncedTasks, MarkOverdue, OpenStatuses
    <3>3. ~Wanted(k, task[k.task], policy) /\ ~Wanted(k, task[k.task], policy')
      BY <2>3 DEF OpenStatuses, Wanted, DesiredKinds
    <3>4. rem[k].status # "scheduled"
      BY <3>3 DEF Covers, RowCovered
    <3>. QED
      BY <3>1, <3>2, <3>3, <3>4 DEF RowCovered
  <2>. QED
    BY <2>2, <2>3
<1>. QED
  BY <1>2 DEF Covers

LEMMA NextCovers ==
    ASSUME Inv, HeldExist, HeldAlive, Covers(rem, task, policy), [Next]_vars
    PROVE  Covers(rem', task', policy')
<1>1. CASE UNCHANGED <<rem, task, policy>>
  BY <1>1
<1>2. CASE \E w \in Workers : WorkerStep(w)
  BY <1>2, WorkerCovers
<1>3. ASSUME NEW t \in Tasks, TaskStep(t)
      PROVE  Covers(rem', task', policy')
  <2>1. \E tk : Write(t, tk)
    BY <1>3 DEF TaskStep, CreateTask, RedetectTask, ConfirmTask, CompleteTask, CancelTask,
       MergeTask, RestoreTask, RescheduleTask, ReassignTask
  <2>. QED
    BY <2>1, WriteCovers
<1>4. CASE SavePolicy
  BY <1>4, SavePolicyCovers
<1>5. CASE SyncAll
  <2>1. /\ policy' = policy /\ task' = SyncedTasks(now)
        /\ \A k \in Keys : rem'[k] = SyncRow(rem[k], k, SyncedTasks(now)[k.task], policy)
    BY <1>5 DEF SyncAll, Commit, SyncedRows
  <2>2. policy \in Policies /\ \A k \in Keys : Good(rem[k])
    BY DEF Inv, TypeOK, Good
  <2>. QED
    BY <2>1, <2>2, SyncCovers DEF Covers
<1>. QED
  BY <1>1, <1>2, <1>3, <1>4, <1>5 DEF Next, Tick, vars

-----------------------------------------------------------------------------
(* One slot: what its process holds is not buried. *)

LEMMA NextAlive ==
    ASSUME \A v, w \in Workers : v = w, Inv, Inv', HeldAlive, [Next]_vars
    PROVE  HeldAlive'
<1>. SUFFICES ASSUME NEW w \in Workers, Busy(pc'[w])
              PROVE  rem'[lease'[w].key].status # "dead"
  BY DEF HeldAlive
<1>1. CASE lease'[w].key \in Keys /\ rem'[lease'[w].key].status = "leased"
  BY <1>1
<1>2. CASE Busy(pc[w]) /\ lease'[w].key = lease[w].key
  <2>. DEFINE key == lease[w].key
  <2>1. key \in Keys /\ rem[key].status # "dead"
    BY <1>2 DEF Inv, TypeOK, HeldAlive, Busy
  <2>2. CASE UNCHANGED rem
    BY <1>2, <2>1, <2>2
  <2>3. CASE \E v \in Workers : WorkerStep(v)
    <3>1. WorkerStep(w)
      BY <2>3
    <3>2. UNCHANGED rem
      <4>1. ~Claim(w) /\ ~\E k \in Keys : ClaimTargeted(w, k)
        BY <1>2 DEF Claim, ClaimTargeted, Busy
      <4>2. \A row : ~Stores(w, row)
        <5>1. ASSUME NEW row, Stores(w, row)
              PROVE  pc'[w] = "idle"
          BY <5>1 DEF Stores, Forget, Inv, TypeOK
        <5>. QED
          BY <5>1 DEF Busy
      <4>. QED
        BY <3>1, <4>1, <4>2
           DEF WorkerStep, Work, MarkSentWrites, FailWrites, Succeeds, Fails,
               MarkSentReads, MarkSentFails, FailReads, Interrupt, Crash, Restart
    <3>. QED
      BY <2>2, <3>2
  <2>4. CASE ~\E v \in Workers : WorkerStep(v)
    <3>1. PICK p \in Policies, tks \in [Tasks -> TaskRow] :
              rem'[key] = rem[key] \/ rem'[key] = SyncRow(rem[key], key, tks[key.task], p)
      BY <2>1, <2>4, OthersSync DEF OnlySyncs
    <3>2. Good(rem[key])
      BY <2>1 DEF Inv, TypeOK, Good
    <3>. QED
      BY <1>2, <2>1, <3>1, <3>2, SyncSources
  <2>. QED
    BY <2>3, <2>4
<1>. QED
  BY <1>1, <1>2, NextHolds DEF KeepsHold

(* No stage of a live plan is lost and none waits outside it: one worker slot,
   whose processes crash, lose leases and write late, while tasks are closed,
   reopened, moved and handed over and policies change. *)
THEOREM PlanCovered ==
    ASSUME \A v, w \in Workers : v = w
    PROVE  Spec => []PlanIsCovered
<1>. DEFINE Held == Inv /\ HeldExist
            Plan == HeldAlive /\ Covers(rem, task, policy)
<1>1. Init => Plan
  <2>. SUFFICES ASSUME Init PROVE Plan
    OBVIOUS
  <2>1. \A w \in Workers : ~Busy(pc[w])
    BY DEF Init, Busy
  <2>2. \A k \in Keys : /\ rem[k].status = "absent"
                        /\ task[k.task].status = "absent"
    BY DEF Init, NoReminder, Keys
  <2>3. \A k \in Keys : ~Wanted(k, task[k.task], policy)
    BY <2>2 DEF Wanted, DesiredKinds
  <2>. QED
    BY <2>1, <2>2, <2>3 DEF HeldAlive, Covers, RowCovered
<1>2. Held /\ Held' /\ Plan /\ [Next]_vars => Plan'
  BY NextAlive, NextCovers DEF Covers
<1>3. Plan => PlanIsCovered
  BY DEF Covers, RowCovered, PlanIsCovered
<1>4. Spec => []Held
  BY AlwaysHeld
<1>. HIDE DEF Held, Plan
<1>5. QED
  BY <1>1, <1>2, <1>3, <1>4, PTL DEF Spec
=============================================================================
