------------------------ MODULE ReminderOutboxProofs ------------------------
(***************************************************************************)
(* The proof that the reminder queue implements the durable outbox, for    *)
(* every value of its constants: a step of the queue delivers one message, *)
(* commits rows that move as the outbox allows, or changes nothing that    *)
(* the outbox can see.                                                     *)
(***************************************************************************)
EXTENDS ReminderQueueProofs

(* What a transaction may make of a row that is not final. *)
MayBecome(r, s) ==
    /\ r.status # "absent" => s.status # "absent"
    /\ r.status = "dead" => s.status \in {"dead", "scheduled", "leased", "sent"}
    /\ Phase(r) = "none" => Phase(s) \in {"none", "pending", "dropped"}

RowsMove == \A k \in Keys : MayBecome(rem[k], rem'[k])

(* A process past claim_due works on a row that exists: without this, a late
   UPDATE could bring a row into being as sent. *)
HeldExist ==
    \A w \in Workers : pc[w] \notin {"idle", "down"} => rem[lease[w].key].status # "absent"

-----------------------------------------------------------------------------
(* The passes of planning and claiming, row by row. *)

LEMMA SameRow ==
    ASSUME NEW r
    PROVE  MayBecome(r, r)
  BY DEF MayBecome, Phase

LEMMA SyncBecomes ==
    ASSUME NEW r, Good(r), NEW k \in Keys, NEW tk, NEW p \in Policies
    PROVE  LET s == SyncRow(r, k, tk, p)
           IN  /\ MayBecome(r, s)
               /\ r.status \in {"dead", "sent"} => s = r
               /\ Phase(r) = "none" => s = r \/ s.status = "scheduled"
<1>. DEFINE m == Moment(k, p)
            s == SyncRow(r, k, tk, p)
<1>1. m \in Int
  BY MomentIsInt
<1>2. Planned(m).status = "scheduled"
  BY DEF Planned
<1>3. /\ Rescheduled(r, m).status = "scheduled"
      /\ Withdrawn(r, "withdrawn").status = "cancelled"
  BY <1>1, RescheduledRow, WithdrawnRow DEF Good
<1>. HIDE DEF m
<1>4. \/ s = r
      \/ r.status \in {"scheduled", "leased"} /\ s = Withdrawn(r, "withdrawn")
      \/ r.status \in {"scheduled", "leased"} /\ s = Rescheduled(r, m)
      \/ Revivable(r) /\ s = Planned(m)
  BY DEF SyncRow, m
<1>5. Revivable(r) => r.status \in {"absent", "cancelled"}
  BY DEF Revivable
<1>6. \/ s = r
      \/ r.status \in {"scheduled", "leased"} /\ s.status \in {"cancelled", "scheduled"}
      \/ r.status \in {"absent", "cancelled"} /\ s.status = "scheduled"
  BY <1>2, <1>3, <1>4, <1>5
<1>. HIDE DEF s
<1>7. Phase(r) = "none" => r.status \in {"absent", "cancelled"}
  BY DEF Phase, Good, Reminder
<1>. QED
  BY <1>6, <1>7 DEF MayBecome, Phase, s

LEMMA RecoverBecomes ==
    ASSUME NEW r, Good(r), NEW at \in Int
    PROVE  LET s == RecoverLease(r, at)
           IN  /\ r.status # "leased" => s = r
               /\ r.status # "absent" => s.status # "absent"
  BY DeadRow, RetriedRow DEF RecoverLease, Good

(* The three passes of claim_due over one row. *)
LEMMA ClaimBecomes ==
    ASSUME Table(rem), policy \in Policies, NEW at \in Int, NEW k \in Keys
    PROVE  MayBecome(rem[k], ClaimableRows(at)[k])
<1>. DEFINE tks == SyncedTasks(at)
            a == SyncedRows(tks, policy)
            b == RecoveredRows(a, at)
            c == CollapsedRows(b, at)
<1>1. FitTable(rem, a, tks, policy)
  BY SyncedTable
<1>2. FitTable(rem, b, tks, policy)
  <2>. HIDE DEF tks, a
  <2>. QED  BY <1>1, RecoveredTable
<1>3. Good(rem[k]) /\ Good(a[k]) /\ Good(b[k])
  BY <1>1, <1>2 DEF FitTable, Table
<1>4. /\ MayBecome(rem[k], a[k])
      /\ rem[k].status \in {"dead", "sent"} => a[k] = rem[k]
      /\ Phase(rem[k]) = "none" => a[k] = rem[k] \/ a[k].status = "scheduled"
  <2>1. a[k] = SyncRow(rem[k], k, tks[k.task], policy)
    BY DEF SyncedRows
  <2>. HIDE DEF a, tks
  <2>. QED
    BY <1>3, <2>1, SyncBecomes
<1>5. /\ a[k].status # "leased" => b[k] = a[k]
      /\ a[k].status # "absent" => b[k].status # "absent"
  <2>1. b[k] = RecoverLease(a[k], at)
    BY DEF RecoveredRows
  <2>. HIDE DEF a, b
  <2>. QED
    BY <1>3, <2>1, RecoverBecomes
<1>6. \/ c[k] = b[k]
      \/ b[k].status = "scheduled" /\ c[k].status = "cancelled" /\ c[k].reason = "superseded"
  <2>1. c[k] = IF Superseded(b, k, at) THEN Withdrawn(b[k], "superseded") ELSE b[k]
    BY DEF CollapsedRows
  <2>2. Superseded(b, k, at) => b[k].status = "scheduled"
    BY DEF Superseded, DueNow
  <2>3. /\ Withdrawn(b[k], "superseded").status = "cancelled"
        /\ Withdrawn(b[k], "superseded").reason = "superseded"
    BY <1>3, WithdrawnRow DEF Good
  <2>. HIDE DEF b, c
  <2>. QED
    BY <2>1, <2>2, <2>3
<1>7. c = ClaimableRows(at)
  BY DEF ClaimableRows
<1>8. Phase(rem[k]) = "none" => rem[k].status \in {"absent", "cancelled"}
  BY <1>3 DEF Phase, Good, Reminder
<1>. HIDE DEF a, b, c, tks
<1>9. rem[k].status # "absent" => c[k].status # "absent"
  BY <1>4, <1>5, <1>6 DEF MayBecome
<1>10. rem[k].status = "dead" => c[k].status = "dead"
  BY <1>4, <1>5, <1>6
<1>11. Phase(rem[k]) = "none" => Phase(c[k]) \in {"none", "pending", "dropped"}
  <2>. SUFFICES ASSUME Phase(rem[k]) = "none"
                PROVE  Phase(c[k]) \in {"none", "pending", "dropped"}
    OBVIOUS
  <2>1. a[k] = rem[k] \/ a[k].status = "scheduled"
    BY <1>4
  <2>2. b[k] = a[k]
    BY <1>5, <1>8, <2>1
  <2>3. CASE c[k] = b[k]
    BY <2>1, <2>2, <2>3 DEF Phase
  <2>4. CASE c[k].status = "cancelled" /\ c[k].reason = "superseded"
    BY <2>4 DEF Phase
  <2>. QED
    BY <1>6, <2>3, <2>4
<1>. QED
  BY <1>7, <1>9, <1>10, <1>11 DEF MayBecome

-----------------------------------------------------------------------------
(* Every step moves rows so. *)

LEMMA SyncStepMoves ==
    ASSUME Inv, NEW tks, NEW p \in Policies,
           \A k \in Keys : rem'[k] = rem[k] \/ rem'[k] = SyncRow(rem[k], k, tks[k.task], p)
    PROVE  RowsMove
<1>1. \A k \in Keys : Good(rem[k])
  BY DEF Inv, TypeOK, Good
<1>. QED
  BY <1>1, SyncBecomes, SameRow DEF RowsMove

LEMMA StoredMoves ==
    ASSUME Inv, NEW w \in Workers, lease[w].key \in Keys,
           rem[lease[w].key].status # "absent",
           NEW row \in Reminder, Stores(w, row),
           LET r == rem[lease[w].key]
           IN  /\ row.reason = r.reason /\ row.status \in {"sent", "dead", "scheduled"}
               /\ row.status # "sent" => row.message = r.message
    PROVE  RowsMove
<1>. DEFINE r == rem[lease[w].key]
<1>1. \A k \in Keys : rem'[k] = IF k = lease[w].key THEN row ELSE rem[k]
  BY DEF Stores, Inv, TypeOK
<1>2. RowChecks(row) /\ RowChecks(r)
  BY DEF Stores, Inv, TypeOK
<1>3. r.status # "cancelled"
  BY <1>2 DEF RowChecks
<1>4. r \in Reminder /\ r.status # "absent"
  BY DEF Inv, TypeOK
<1>. HIDE DEF r
<1>5. Phase(r) # "none"
  BY <1>3, <1>4 DEF Phase, Reminder
<1>6. row.status # "absent"
  OBVIOUS
<1>7. MayBecome(r, row)
  BY <1>4, <1>5, <1>6 DEF MayBecome
<1>. QED
  BY <1>1, <1>7, SameRow DEF RowsMove, r

LEMMA WorkerMoves ==
    ASSUME Inv, HeldExist, NEW w \in Workers, WorkerStep(w)
    PROVE  RowsMove
<1>0. now \in Int /\ policy \in Policies /\ Table(rem)
  BY TypeOKTable, TimeAssumption DEF Inv, TypeOK, TimeAssumption
<1>1. CASE Claim(w) \/ \E k \in Keys : ClaimTargeted(w, k)
  <2>. DEFINE rows == ClaimableRows(now)
              tks == SyncedTasks(now)
  <2>0. /\ \A k \in Keys : MayBecome(rem[k], rows[k])
        /\ FitTable(rem, rows, tks, policy)
    BY <1>0, ClaimBecomes, ClaimableTable
  <2>1. \/ FindNothing(rows, tks)
        \/ \E k \in Claimable(rows, tks, now) : Take(w, k, rows, tks)
    BY <1>1 DEF Claim, ClaimTargeted
  <2>2. CASE FindNothing(rows, tks)
    BY <2>0, <2>2 DEF FindNothing, Commit, RowsMove
  <2>3. ASSUME NEW k \in Claimable(rows, tks, now), Take(w, k, rows, tks)
        PROVE  RowsMove
    <3>. DEFINE row == Leased(rows[k], WorkerId(w), now)
    <3>1. rem' = [rows EXCEPT ![k] = row] \/ rem' = rem
      BY <2>3 DEF Take, Commit
    <3>2. k \in Keys /\ rows[k].status = "scheduled" /\ rows \in [Keys -> Reminder]
      BY <2>0, <2>3 DEF Claimable, DueNow, FitTable, Table
    <3>3. row.status = "leased"
      BY <3>2 DEF Leased, Reminder
    <3>. HIDE DEF rows, tks, row
    <3>4. MayBecome(rem[k], row)
      <4>1. MayBecome(rem[k], rows[k])
        BY <2>0, <3>2
      <4>. QED
        BY <3>2, <3>3, <4>1 DEF MayBecome, Phase
    <3>5. CASE rem' = [rows EXCEPT ![k] = row]
      <4>1. \A j \in Keys : rem'[j] = IF j = k THEN row ELSE rows[j]
        BY <3>2, <3>5
      <4>. QED
        BY <2>0, <3>4, <4>1 DEF RowsMove
    <3>. QED
      BY <3>1, <3>5, SameRow DEF RowsMove
  <2>. QED
    BY <2>1, <2>2, <2>3
<1>2. CASE MarkSentWrites(w)
  <2>1. /\ lease[w].key \in Keys /\ rem[lease[w].key] \in Reminder
        /\ lease[w].channel \in {"private", "group"}
        /\ rem[lease[w].key].status # "absent"
    BY <1>2 DEF MarkSentWrites, Inv, TypeOK, ReceiptWasAccepted, HeldExist
  <2>2. /\ SentRow(w) \in Reminder /\ SentRow(w).status = "sent"
        /\ SentRow(w).reason = rem[lease[w].key].reason
    BY <2>1, SentRowType DEF SentRow
  <2>3. Stores(w, SentRow(w)) \/ UNCHANGED rem
    BY <1>2 DEF MarkSentWrites
  <2>. QED
    BY <2>1, <2>2, <2>3, StoredMoves, SameRow DEF RowsMove
<1>3. CASE FailWrites(w)
  <2>1. /\ lease[w].key \in Keys /\ rem[lease[w].key] \in Reminder
        /\ lease[w].retryAt \in Int
        /\ rem[lease[w].key].status # "absent"
    BY <1>3 DEF FailWrites, Inv, TypeOK, HeldLease, HeldExist
  <2>2. /\ FailedRow(w) \in Reminder /\ FailedRow(w).status \in {"dead", "scheduled"}
        /\ FailedRow(w).reason = rem[lease[w].key].reason
        /\ FailedRow(w).message = rem[lease[w].key].message
    BY <2>1, DeadRow, RetriedRow DEF FailedRow
  <2>3. Stores(w, FailedRow(w)) \/ UNCHANGED rem
    BY <1>3 DEF FailWrites
  <2>. QED
    BY <2>1, <2>2, <2>3, StoredMoves, SameRow DEF RowsMove
<1>4. CASE \/ \E channel \in {"private", "group"} : Succeeds(w, channel) \/ Fails(w, channel)
           \/ MarkSentReads(w) \/ MarkSentFails(w) \/ FailReads(w)
           \/ Interrupt(w) \/ Crash(w) \/ Restart(w)
  <2>1. UNCHANGED rem
    BY <1>4 DEF Succeeds, Fails, MarkSentReads, MarkSentFails, FailReads,
                Interrupt, Crash, Restart
  <2>. QED
    BY <2>1, SameRow DEF RowsMove
<1>. QED
  BY <1>1, <1>2, <1>3, <1>4 DEF WorkerStep, Work

LEMMA WriteMoves ==
    ASSUME Inv, NEW t \in Tasks, NEW tk, Write(t, tk)
    PROVE  RowsMove
<1>. DEFINE synced == MarkOverdue(tk, now)
            tks == [u \in Tasks |-> synced]
<1>1. rem' = SyncTask(rem, t, synced, policy) /\ policy \in Policies
  BY DEF Write, Inv, TypeOK
<1>2. \A k \in Keys : tks[k.task] = synced
  BY DEF Keys
<1>3. \A k \in Keys : \/ rem'[k] = rem[k]
                      \/ rem'[k] = SyncRow(rem[k], k, tks[k.task], policy)
  BY <1>1, <1>2 DEF SyncTask
<1>. HIDE DEF tks
<1>. QED
  BY <1>1, <1>3, SyncStepMoves

LEMMA NextMoves ==
    ASSUME Inv, HeldExist, [Next]_vars
    PROVE  RowsMove
<1>1. CASE UNCHANGED vars
  BY <1>1, SameRow DEF vars, RowsMove
<1>2. CASE \E w \in Workers : WorkerStep(w)
  BY <1>2, WorkerMoves
<1>3. CASE \E t \in Tasks : TaskStep(t)
  BY <1>3, WriteMoves
     DEF TaskStep, CreateTask, RedetectTask, ConfirmTask, CompleteTask, CancelTask,
         MergeTask, RestoreTask, RescheduleTask, ReassignTask
<1>4. CASE SavePolicy
  <2>1. PICK p \in Policies :
            \A k \in Keys : \/ rem'[k] = rem[k]
                            \/ rem'[k] = SyncRow(rem[k], k, SyncedTasks(now)[k.task], p)
    BY <1>4 DEF SavePolicy, Commit
  <2>. QED
    BY <2>1, SyncStepMoves
<1>5. CASE SyncAll
  <2>1. \A k \in Keys : rem'[k] = SyncRow(rem[k], k, SyncedTasks(now)[k.task], policy)
    BY <1>5 DEF SyncAll, Commit, SyncedRows
  <2>2. policy \in Policies
    BY DEF Inv, TypeOK
  <2>. QED
    BY <2>1, <2>2, SyncStepMoves
<1>6. CASE Tick
  BY <1>6, SameRow DEF Tick, RowsMove
<1>. QED
  BY <1>1, <1>2, <1>3, <1>4, <1>5, <1>6 DEF Next

-----------------------------------------------------------------------------
(* A process in hand of a lease works on a row that exists. *)

Busy(place) == place \notin {"idle", "down"}

(* A process is past claim_due with the row it had, or with one just leased. *)
KeepsHold ==
    \A w \in Workers : Busy(pc'[w]) =>
        \/ Busy(pc[w]) /\ lease'[w].key = lease[w].key
        \/ lease'[w].key \in Keys /\ rem'[lease'[w].key].status = "leased"

(* How each step of a process leaves its place and its lease. *)
LEMMA StaysPut ==
    ASSUME UNCHANGED <<pc, lease>>
    PROVE  KeepsHold
  BY DEF KeepsHold

LEMMA OneMoves ==
    ASSUME Inv, NEW w \in Workers, NEW q, NEW l,
           pc' = [pc EXCEPT ![w] = q], lease' = [lease EXCEPT ![w] = l],
           Busy(q) => \/ Busy(pc[w]) /\ l.key = lease[w].key
                      \/ l.key \in Keys /\ rem'[l.key].status = "leased"
    PROVE  KeepsHold
<1>1. /\ pc'[w] = q /\ lease'[w] = l
      /\ \A v \in Workers \ {w} : pc'[v] = pc[v] /\ lease'[v] = lease[v]
  BY DEF Inv, TypeOK
<1>. QED
  BY <1>1 DEF KeepsHold

LEMMA GotoHolds ==
    ASSUME Inv, NEW w \in Workers, NEW q, Goto(w, q), Busy(pc[w])
    PROVE  KeepsHold
<1>1. lease' = [lease EXCEPT ![w] = lease[w]] /\ pc' = [pc EXCEPT ![w] = q]
  BY DEF Goto, Inv, TypeOK
<1>. QED
  BY <1>1, OneMoves

LEMMA ForgetHolds ==
    ASSUME Inv, NEW w \in Workers, NEW q \in {"idle", "down"}, Forget(w, q)
    PROVE  KeepsHold
<1>1. lease' = [lease EXCEPT ![w] = NoLease] /\ pc' = [pc EXCEPT ![w] = q] /\ ~Busy(q)
  BY DEF Forget, Busy
<1>. QED
  BY <1>1, OneMoves

LEMMA TakeHolds ==
    ASSUME Inv, NEW w \in Workers, NEW rows, NEW tks, rows \in [Keys -> Reminder],
           NEW k \in Keys, Take(w, k, rows, tks)
    PROVE  KeepsHold
<1>. DEFINE row == Leased(rows[k], WorkerId(w), now)
<1>1. row.status = "leased"
  BY DEF Leased, Reminder
<1>2. CASE RowChecks(row)
  <2>1. /\ rem' = [rows EXCEPT ![k] = row]
        /\ lease' = [lease EXCEPT ![w] = HeldAt(k, row.attempt)]
        /\ pc' = [pc EXCEPT ![w] = "private"]
    BY <1>2 DEF Take, Commit
  <2>. HIDE DEF row
  <2>2. rem'[k].status = "leased" /\ HeldAt(k, row.attempt).key = k
    BY <1>1, <2>1 DEF HeldAt
  <2>. QED
    BY <2>1, <2>2, OneMoves
<1>3. CASE ~RowChecks(row)
  <2>1. /\ lease' = [lease EXCEPT ![w] = lease[w]]
        /\ pc' = [pc EXCEPT ![w] = "down"] /\ ~Busy("down")
    BY <1>3 DEF Take, Inv, TypeOK, Busy
  <2>. QED
    BY <2>1, OneMoves
<1>. QED
  BY <1>2, <1>3

LEMMA WorkerHolds ==
    ASSUME Inv, NEW w \in Workers, WorkerStep(w)
    PROVE  KeepsHold
<1>1. CASE Claim(w) \/ \E k \in Keys : ClaimTargeted(w, k)
  <2>. DEFINE rows == ClaimableRows(now)
              tks == SyncedTasks(now)
  <2>1. rows \in [Keys -> Reminder]
    <3>1. now \in Int /\ policy \in Policies /\ Table(rem)
      BY TypeOKTable, TimeAssumption DEF Inv, TypeOK, TimeAssumption
    <3>. QED
      BY <3>1, ClaimableTable DEF FitTable, Table
  <2>2. \/ FindNothing(rows, tks)
        \/ \E k \in Claimable(rows, tks, now) : Take(w, k, rows, tks)
    BY <1>1 DEF Claim, ClaimTargeted
  <2>3. \A k \in Claimable(rows, tks, now) : k \in Keys
    BY DEF Claimable
  <2>. HIDE DEF rows, tks
  <2>4. CASE FindNothing(rows, tks)
    BY <2>4, StaysPut DEF FindNothing, workerVars
  <2>5. ASSUME NEW k \in Claimable(rows, tks, now), Take(w, k, rows, tks)
        PROVE  KeepsHold
    BY <2>1, <2>3, <2>5, TakeHolds
  <2>. QED
    BY <2>2, <2>4, <2>5
<1>2. ASSUME NEW c \in {"private", "group"}, Succeeds(w, c)
      PROVE  KeepsHold
  <2>. DEFINE l == [lease[w] EXCEPT !.channel = c]
  <2>1. lease[w] \in HeldLease
    BY DEF Inv, TypeOK
  <2>2. l.key = lease[w].key
    BY <2>1 DEF HeldLease
  <2>3. /\ lease' = [lease EXCEPT ![w] = l] /\ pc' = [pc EXCEPT ![w] = "receipt"]
        /\ Busy(pc[w])
    BY <1>2 DEF Succeeds, Busy
  <2>. HIDE DEF l
  <2>. QED
    BY <2>2, <2>3, OneMoves
<1>3. ASSUME NEW c \in {"private", "group"}, Fails(w, c)
      PROVE  KeepsHold
  BY <1>3, GotoHolds DEF Fails, Busy
<1>4. CASE MarkSentReads(w) \/ MarkSentFails(w) \/ Interrupt(w)
  BY <1>4, GotoHolds DEF MarkSentReads, MarkSentFails, Interrupt, Busy
<1>5. CASE MarkSentWrites(w) \/ FailWrites(w)
  BY <1>5, GotoHolds, ForgetHolds DEF MarkSentWrites, FailWrites, Stores, Busy
<1>6. CASE FailReads(w)
  <2>1. CASE Goto(w, "bury") \/ Forget(w, "down")
    BY <1>6, <2>1, GotoHolds, ForgetHolds DEF FailReads, Busy
  <2>2. CASE /\ pc' = [pc EXCEPT ![w] = "retry"]
             /\ lease' = [lease EXCEPT ![w].retryAt = now + Backoff(lease[w].attempt)]
    <3>. DEFINE l == [lease[w] EXCEPT !.retryAt = now + Backoff(lease[w].attempt)]
    <3>1. lease[w] \in HeldLease
      BY DEF Inv, TypeOK
    <3>2. l.key = lease[w].key
      BY <3>1 DEF HeldLease
    <3>3. lease' = [lease EXCEPT ![w] = l] /\ Busy(pc[w])
      BY <1>6, <2>2 DEF FailReads, Busy
    <3>. HIDE DEF l
    <3>. QED
      BY <2>2, <3>2, <3>3, OneMoves
  <2>. QED
    BY <1>6, <2>1, <2>2 DEF FailReads
<1>7. CASE Crash(w)
  BY <1>7, ForgetHolds DEF Crash
<1>8. CASE Restart(w)
  <2>1. lease' = [lease EXCEPT ![w] = lease[w]] /\ ~Busy("idle")
    BY <1>8 DEF Restart, Inv, TypeOK, Busy
  <2>. QED
    BY <1>8, <2>1, OneMoves DEF Restart
<1>. QED
  BY <1>1, <1>2, <1>3, <1>4, <1>5, <1>6, <1>7, <1>8 DEF WorkerStep, Work

(* The transactions of the rest of the program, and time, leave the processes
   and what Feishu took alone. *)
LEMMA OthersStayPut ==
    ASSUME [Next]_vars, ~\E w \in Workers : WorkerStep(w)
    PROVE  UNCHANGED <<pc, lease, accepted>>
<1>1. CASE UNCHANGED vars
  BY <1>1 DEF vars
<1>2. ASSUME NEW t \in Tasks, TaskStep(t)
      PROVE  UNCHANGED <<pc, lease, accepted>>
  <2>1. \E tk : Write(t, tk)
    BY <1>2 DEF TaskStep, CreateTask, RedetectTask, ConfirmTask, CompleteTask, CancelTask,
       MergeTask, RestoreTask, RescheduleTask, ReassignTask
  <2>. QED
    BY <2>1 DEF Write
<1>3. CASE SavePolicy \/ SyncAll \/ Tick
  BY <1>3 DEF SavePolicy, SyncAll, Tick
<1>. QED
  BY <1>1, <1>2, <1>3 DEF Next

LEMMA NextHolds ==
    ASSUME Inv, [Next]_vars
    PROVE  KeepsHold
<1>1. CASE \E w \in Workers : WorkerStep(w)
  BY <1>1, WorkerHolds
<1>2. CASE ~\E w \in Workers : WorkerStep(w)
  BY <1>2, OthersStayPut, StaysPut
<1>. QED
  BY <1>1, <1>2

LEMMA InitHeld == Init => HeldExist
  BY DEF Init, HeldExist

LEMMA NextHeld == Inv /\ HeldExist /\ [Next]_vars => HeldExist'
<1>. SUFFICES ASSUME Inv, HeldExist, [Next]_vars, NEW w \in Workers, Busy(pc'[w])
              PROVE  rem'[lease'[w].key].status # "absent"
  BY DEF HeldExist, Busy
<1>1. RowsMove
  BY NextMoves
<1>2. CASE Busy(pc[w]) /\ lease'[w].key = lease[w].key
  <2>1. lease[w].key \in Keys /\ rem[lease[w].key].status # "absent"
    BY <1>2 DEF Inv, TypeOK, HeldExist, Busy
  <2>. QED
    BY <1>1, <1>2, <2>1 DEF RowsMove, MayBecome
<1>. QED
  BY <1>2, NextHolds DEF KeepsHold

LEMMA AlwaysHeld == Spec => [](Inv /\ HeldExist)
<1>1. Init => Inv /\ HeldExist
  BY InitInv, InitHeld
<1>2. Inv /\ HeldExist /\ [Next]_vars => Inv' /\ HeldExist'
  BY NextInv, NextHeld
<1>. QED
  BY <1>1, <1>2, PTL DEF Spec

-----------------------------------------------------------------------------
(* The refinement. *)

Chans == {"private", "group"}

(* What Feishu took changes by one message at a time, and then no row moves. *)
LEMMA TakenOneByOne ==
    ASSUME Inv, [Next]_vars
    PROVE  \/ UNCHANGED accepted
           \/ /\ UNCHANGED rem
              /\ \E k \in Keys, c \in Chans : accepted' = accepted \cup {<<k, c>>}
<1>1. ASSUME NEW w \in Workers, NEW c \in Chans, Succeeds(w, c) \/ Fails(w, c)
      PROVE  \/ UNCHANGED accepted
             \/ UNCHANGED rem /\ accepted' = accepted \cup {<<lease[w].key, c>>}
  BY <1>1 DEF Succeeds, Fails, Reaches
<1>2. ASSUME NEW w \in Workers, Interrupt(w)
      PROVE  \/ UNCHANGED accepted
             \/ UNCHANGED rem /\ accepted' = accepted \cup {<<lease[w].key, pc[w]>>}
  BY <1>2 DEF Interrupt, Reaches
<1>3. ASSUME NEW w \in Workers, pc[w] \in Chans
      PROVE  lease[w].key \in Keys
  BY <1>3 DEF Inv, TypeOK, Chans
<1>4. ASSUME NEW w \in Workers,
             \/ Claim(w) \/ \E k \in Keys : ClaimTargeted(w, k)
             \/ MarkSentReads(w) \/ MarkSentWrites(w) \/ MarkSentFails(w)
             \/ FailReads(w) \/ FailWrites(w) \/ Crash(w) \/ Restart(w)
      PROVE  UNCHANGED accepted
  BY <1>4 DEF Claim, ClaimTargeted, MarkSentReads, MarkSentWrites, MarkSentFails,
     FailReads, FailWrites, Crash, Restart
<1>5. ASSUME NEW w \in Workers, WorkerStep(w)
      PROVE  \/ UNCHANGED accepted
             \/ \E c \in Chans : /\ pc[w] \in Chans
                                 /\ UNCHANGED rem
                                 /\ accepted' = accepted \cup {<<lease[w].key, c>>}
  <2>1. ASSUME NEW c \in Chans, Succeeds(w, c) \/ Fails(w, c)
        PROVE  pc[w] \in Chans
    BY <2>1 DEF Succeeds, Fails
  <2>2. Interrupt(w) => pc[w] \in Chans
    BY DEF Interrupt, Chans
  <2>. QED
    BY <1>1, <1>2, <1>4, <1>5, <2>1, <2>2 DEF WorkerStep, Work, Chans
<1>. QED
  BY <1>3, <1>5, OthersStayPut

(* A row that a transaction moves, moves as an item of the outbox may. *)
LEMMA RowsAsItems ==
    ASSUME Inv, RowsMove, KeepsFinal, NEW k \in Keys, rem'[k] \in Reminder
    PROVE  <<Phase(rem[k]), Phase(rem'[k])>> \in Outbox!Moves
<1>. DEFINE r == rem[k]
            s == rem'[k]
<1>1. Good(r) /\ s \in Reminder
  BY DEF Inv, TypeOK, Good
<1>2. MayBecome(r, s)
  BY DEF RowsMove
<1>3. (r.status = "sent" => s.status = "sent") /\ (r.reason = "superseded" => s = r)
  BY DEF KeepsFinal
<1>. HIDE DEF r, s
<1>4. Phase(r) \in Outbox!States /\ Phase(s) \in Outbox!States
  BY <1>1 DEF Phase, Good, Reminder, Outbox!States
<1>5. Phase(r) = "sent" => Phase(s) = "sent"
  BY <1>1, <1>3 DEF Phase, Good, Reminder
<1>6. Phase(r) = "dropped" => Phase(s) = "dropped"
  BY <1>1, <1>3 DEF Phase, Good, Reminder
<1>7. Phase(r) = "dead" => Phase(s) \in {"dead", "pending", "sent"}
  BY <1>1, <1>2 DEF Phase, Good, Reminder, MayBecome
<1>8. Phase(r) = "none" => Phase(s) \in {"none", "pending", "dropped"}
  BY <1>2 DEF MayBecome
<1>9. <<Phase(r), Phase(s)>> \in Outbox!Moves
  BY <1>4, <1>5, <1>6, <1>7, <1>8 DEF Outbox!Moves, Outbox!States
<1>. QED
  BY <1>9 DEF r, s

LEMMA StepRefines ==
    ASSUME Inv, Inv', HeldExist, [Next]_vars
    PROVE  [Outbox!Next]_(Outbox!outbox)
<1>1. RowsMove /\ KeepsFinal
  BY NextMoves, NextKeeps
<1>2. CASE UNCHANGED rem /\ \E k \in Keys, c \in Chans : accepted' = accepted \cup {<<k, c>>}
  BY <1>2 DEF Outbox!Next, Outbox!Deliver, Chans
<1>3. CASE UNCHANGED accepted
  <2>1. \A k \in Keys : rem'[k] \in Reminder
    BY DEF Inv, TypeOK
  <2>2. \A k \in Keys : <<Phase(rem[k]), Phase(rem'[k])>> \in Outbox!Moves
    BY <1>1, <2>1, RowsAsItems
  <2>3. \A k \in Keys : Phase(rem'[k]) \in Outbox!States
    BY <2>1 DEF Phase, Reminder, Outbox!States
  <2>4. ASSUME NEW k \in Keys, Phase(rem'[k]) = "sent"
        PROVE  \E c \in Chans : <<k, c>> \in accepted
    <3>1. rem'[k].status = "sent"
      BY <2>1, <2>4 DEF Phase, Reminder
    <3>2. <<k, rem'[k].message>> \in accepted
      BY <1>3, <3>1 DEF Inv, SentWasAccepted
    <3>. QED
      BY <3>2 DEF Inv, TypeOK, Chans
  <2>5. Outbox!Commit
    BY <1>3, <2>2, <2>3, <2>4 DEF Outbox!Commit, Chans
  <2>. QED
    BY <2>5 DEF Outbox!Next
<1>. QED
  BY <1>2, <1>3, TakenOneByOne

(* The reminder queue is a durable outbox, whatever the number of its workers,
   tasks and members, the leases that expire, the writes that come late and the
   processes that die: sent and superseded rows are final, a row becomes sent
   only when Feishu took its message, and nothing moves otherwise. *)
THEOREM QueueImplementsOutbox == Spec => ImplementsOutbox
<1>1. Init => Outbox!Init
  BY DEF Init, Outbox!Init, Phase, NoReminder
<1>2. (Inv /\ HeldExist) /\ (Inv /\ HeldExist)' /\ [Next]_vars => [Outbox!Next]_(Outbox!outbox)
  BY StepRefines
<1>. QED
  BY <1>1, <1>2, AlwaysHeld, PTL DEF Spec, ImplementsOutbox, Outbox!Spec
=============================================================================
