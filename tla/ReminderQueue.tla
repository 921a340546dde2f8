--------------------------- MODULE ReminderQueue ---------------------------
(***************************************************************************)
(* The durable reminder queue of one chat (src/app/reminders): the plan    *)
(* kept in task_reminders, the worker processes that lease, deliver and    *)
(* record one reminder at a time, and the transactions of the rest of the  *)
(* program that change a task or the chat's policy and re-plan in the same *)
(* commit.                                                                 *)
(*                                                                         *)
(* Atomicity is that of the code.  A transaction opened with BEGIN         *)
(* IMMEDIATE is one step.  mark_sent and fail read the row first, outside  *)
(* any write transaction, and update it by primary key afterwards: they    *)
(* are two steps each, and anything may commit in between.                 *)
(***************************************************************************)
EXTENDS ReminderSchedule, FiniteSets

CONSTANTS
    Tasks,           \* tasks of the chat
    Members,         \* open_ids that can be responsible for a task
    Deadlines,       \* deadlines a task can be given (seconds)
    Policies,        \* policies an administrator can save
    Workers,         \* supervised worker slots; each run of one is a process
    Instants,        \* the instants the clock visits: the bound on time
    MaxAttempts,     \* REMINDER_MAX_ATTEMPTS
    LeaseSeconds,    \* REMINDER_WORKER_LEASE_SECONDS
    RetryBase,       \* REMINDER_WORKER_RETRY_BASE_SECONDS
    MaxRuns,         \* bound: processes started per worker slot
    Operations,      \* which task operations the instance exercises
    None             \* SQL NULL

ASSUME TimeAssumption   == Deadlines \subseteq Int /\ Instants \subseteq Int
ASSUME PolicyAssumption == Policies \subseteq ChatPolicy
ASSUME LimitAssumption  ==
    /\ MaxAttempts \in 1..10
    /\ LeaseSeconds \in 10..3600 /\ RetryBase \in 1..3600
    /\ MaxRuns \in Nat \ {0}
ASSUME NullAssumption ==
    /\ None \notin Deadlines /\ None \notin Workers \X (1..MaxRuns)
    /\ None \notin {"superseded", "withdrawn", "private", "group"}

VARIABLES
    now,        \* the clock every process of the host reads
    task,       \* tasks: status, deadline and responsible members
    overdueLog, \* (task, deadline) pairs with a system overdue event
    policy,     \* the chat's row of chat_settings
    rem,        \* task_reminders, by its unique key
    pc,         \* where each worker process is
    run,        \* number of the process in each slot: part of its worker_id
    lease,      \* the ReminderLease the process holds in memory
    accepted    \* messages Feishu took, by (row, channel): the delivery uuid

vars == <<now, task, overdueLog, policy, rem, pc, run, lease, accepted>>
workerVars == <<pc, run, lease>>

-----------------------------------------------------------------------------
(* Tasks and rows. *)

Keys == [task : Tasks, member : Members, kind : Kinds, deadline : Deadlines]

OpenStatuses == {"todo", "overdue"}
TaskRow == [status : {"absent", "pending", "todo", "overdue", "done",
                      "cancelled", "merged"},
            deadline : Deadlines \cup {None},
            owners : SUBSET Members]

WorkerIds == Workers \X (1..MaxRuns)

Reminder ==
    [status  : {"absent", "scheduled", "leased", "sent", "cancelled", "dead"},
     attempt : 0..MaxAttempts,
     worker  : WorkerIds \cup {None},
     expires : Int,                                \* 0 when not leased
     due     : Int,                                \* scheduled_for
     ready   : Int,                                \* available_at
     reason  : {"superseded", "withdrawn", None},  \* cancel_reason
     message : {"private", "group", None}]         \* delivery target

NoReminder == [status |-> "absent", attempt |-> 0, worker |-> None,
               expires |-> 0, due |-> 0, ready |-> 0,
               reason |-> None, message |-> None]

(* The CHECK constraints of task_reminders. *)
RowChecks(r) ==
    /\ r.attempt \in 0..MaxAttempts
    /\ (r.status = "leased") <=> (r.worker # None)
    /\ (r.status = "sent") <=> (r.message # None)
    /\ (r.status = "cancelled") <=> (r.reason # None)

\* Mutant: the worker that held the lease stays in the row.
UnleasedKeepingWorker(r) == [r EXCEPT !.expires = 0]

Unleased(r) == [r EXCEPT !.worker = None, !.expires = 0]

Planned(moment) ==
    [status |-> "scheduled", attempt |-> 0, worker |-> None,
     expires |-> 0, due |-> moment, ready |-> moment,
     reason |-> None, message |-> None]

Rescheduled(r, moment) ==
    [Unleased(r) EXCEPT !.status = "scheduled", !.due = moment, !.ready = moment]

Withdrawn(r, why) == [Unleased(r) EXCEPT !.status = "cancelled", !.reason = why]

Dead(r) == [Unleased(r) EXCEPT !.status = "dead"]

Retried(r, at) == [Unleased(r) EXCEPT !.status = "scheduled", !.ready = at]

-----------------------------------------------------------------------------
(* Planning: sync_task_reminders_in_session and what it calls. *)

MarkOverdue(tk, at) ==
    IF tk.status = "todo" /\ tk.deadline # None /\ tk.deadline <= at
    THEN [tk EXCEPT !.status = "overdue"]
    ELSE tk

DesiredKinds(tk, p) ==
    {kind \in p.enabled : \/ tk.status = "todo"
                          \/ tk.status = "overdue" /\ kind = "overdue"}

(* Row k belongs to the plan of its task. *)
Wanted(k, tk, p) ==
    /\ k.deadline = tk.deadline
    /\ k.member \in tk.owners
    /\ k.kind \in DesiredKinds(tk, p)

Moment(k, p) == Moments(k.deadline, p)[k.kind]

\* Mutants: a sent row, a superseded row, or no withdrawn row is planned again.
RevivableWhenSent(r) == r.status \in {"absent", "sent"}
RevivableForAnyReason(r) == r.status \in {"absent", "cancelled"}
RevivableNever(r) == r.status = "absent"

Revivable(r) ==
    \/ r.status = "absent"
    \/ r.status = "cancelled" /\ r.reason # "superseded"

\* Mutant: rows in flight are left to their worker.
SyncWaitingRow(r, k, tk, p) ==
    CASE r.status = "scheduled" /\ ~Wanted(k, tk, p) -> Withdrawn(r, "withdrawn")
      [] r.status = "scheduled" /\ Wanted(k, tk, p) -> Rescheduled(r, Moment(k, p))
      [] Revivable(r) /\ Wanted(k, tk, p) -> Planned(Moment(k, p))
      [] OTHER -> r

\* Mutant: the plan of a former member is left in place.
SyncRowOfMember(r, k, tk, p) ==
    CASE r.status \in {"scheduled", "leased"} /\ ~Wanted(k, tk, p)
             /\ k.member \in tk.owners -> Withdrawn(r, "withdrawn")
      [] Revivable(r) /\ Wanted(k, tk, p) -> Planned(Moment(k, p))
      [] OTHER -> r

SyncRow(r, k, tk, p) ==
    CASE r.status \in {"scheduled", "leased"} /\ ~Wanted(k, tk, p) ->
             Withdrawn(r, "withdrawn")
      [] r.status \in {"scheduled", "leased"} /\ Wanted(k, tk, p) /\ r.due # Moment(k, p) ->
             Rescheduled(r, Moment(k, p))
      [] Revivable(r) /\ Wanted(k, tk, p) ->
             Planned(Moment(k, p))
      [] OTHER -> r

(* A task as its transaction leaves it, and its rows synchronized with it. *)
SyncTask(rows, t, tk, p) ==
    [k \in Keys |-> IF k.task = t THEN SyncRow(rows[k], k, tk, p) ELSE rows[k]]

SyncedTasks(at) ==
    [t \in Tasks |-> MarkOverdue(task[t], at)]

SyncedRows(tks, p) ==
    [k \in Keys |-> SyncRow(rem[k], k, tks[k.task], p)]

(* The overdue events appended when the tasks "before" are synchronized into
   "after"; the event's key makes a second one for one deadline impossible. *)
OverdueEvents(before, after) ==
    {<<t, after[t].deadline>> : t \in {u \in Tasks : after[u] # before[u]}}

-----------------------------------------------------------------------------
(* The three passes of claim_due before it picks a row. *)

\* Mutant: only a lease on the last attempt is recovered.
RecoverLastLease(r, at) ==
    IF r.status = "leased" /\ r.expires <= at /\ r.attempt >= MaxAttempts
    THEN Dead(r) ELSE r

RecoverLease(r, at) ==
    IF r.status = "leased" /\ r.expires <= at
    THEN IF r.attempt >= MaxAttempts THEN Dead(r) ELSE Retried(r, at)
    ELSE r

RecoveredRows(rows, at) == [k \in Keys |-> RecoverLease(rows[k], at)]

SamePlan(j, k) == j.task = k.task /\ j.member = k.member /\ j.deadline = k.deadline

DueNow(r, at) == r.status = "scheduled" /\ r.due <= at

\* Mutant: the least urgent of the missed stages is kept.
SupersededByEarlier(rows, k, at) ==
    /\ DueNow(rows[k], at)
    /\ \E j \in Keys : /\ SamePlan(j, k)
                       /\ DueNow(rows[j], at)
                       /\ Priority[j.kind] < Priority[k.kind]

Superseded(rows, k, at) ==
    /\ DueNow(rows[k], at)
    /\ \E j \in Keys : /\ SamePlan(j, k)
                       /\ DueNow(rows[j], at)
                       /\ Priority[j.kind] > Priority[k.kind]

CollapsedRows(rows, at) ==
    [k \in Keys |-> IF Superseded(rows, k, at)
                    THEN Withdrawn(rows[k], "superseded")
                    ELSE rows[k]]

ClaimableRows(at) ==
    CollapsedRows(RecoveredRows(SyncedRows(SyncedTasks(at), policy), at), at)

Claimable(rows, tks, at) ==
    {k \in Keys : /\ DueNow(rows[k], at)
                  /\ rows[k].ready <= at
                  /\ tks[k.task].status \in OpenStatuses
                  /\ tks[k.task].deadline = k.deadline}

Leased(r, id, at) ==
    [r EXCEPT !.status = "leased", !.attempt = @ + 1,
              !.worker = id, !.expires = at + LeaseSeconds]

WorkerId(w) == <<w, run[w]>>

(* The ReminderLease in a process's memory, with the receipt and the retry time
   it obtains later. *)
HeldAt(k, attempt) == [key |-> k, attempt |-> attempt, channel |-> None, retryAt |-> 0]
NoLease == HeldAt(None, 0)

-----------------------------------------------------------------------------
(* The worker process: ReminderWorker.run_once, one step per transaction and
   per call of the sender. *)

Commit(tks, rows) ==
    /\ task' = tks
    /\ rem' = rows
    /\ overdueLog' = overdueLog \cup OverdueEvents(task, tks)

(* claim_due takes row k, or the flush breaks a CHECK constraint: the whole
   transaction rolls back and the IntegrityError ends the process. *)
Take(w, k, rows, tks) ==
    LET row == Leased(rows[k], WorkerId(w), now)
    IN  \/ /\ RowChecks(row)
           /\ Commit(tks, [rows EXCEPT ![k] = row])
           /\ lease' = [lease EXCEPT ![w] = HeldAt(k, row.attempt)]
           /\ pc' = [pc EXCEPT ![w] = "private"]
           /\ UNCHANGED run
        \/ /\ ~RowChecks(row)
           /\ pc' = [pc EXCEPT ![w] = "down"]
           /\ UNCHANGED <<task, rem, overdueLog, run, lease>>

FindNothing(rows, tks) == Commit(tks, rows) /\ UNCHANGED workerVars

(* The polling loop: the earliest due row first. *)
Claim(w) ==
    /\ pc[w] = "idle"
    /\ LET tks == SyncedTasks(now)
           rows == ClaimableRows(now)
           ready == Claimable(rows, tks, now)
       IN  \/ ready = {} /\ FindNothing(rows, tks)
           \/ \E k \in ready : /\ \A j \in ready : rows[k].due <= rows[j].due
                              /\ Take(w, k, rows, tks)
    /\ UNCHANGED <<now, policy, accepted>>

(* run-once with --reminder-id: that row or none. *)
ClaimTargeted(w, k) ==
    /\ "targeted" \in Operations
    /\ pc[w] = "idle"
    /\ LET tks == SyncedTasks(now)
           rows == ClaimableRows(now)
       IN  \/ k \notin Claimable(rows, tks, now) /\ FindNothing(rows, tks)
           \/ k \in Claimable(rows, tks, now) /\ Take(w, k, rows, tks)
    /\ UNCHANGED <<now, policy, accepted>>

Goto(w, place) == pc' = [pc EXCEPT ![w] = place] /\ UNCHANGED <<run, lease>>

(* run_once returns or the process ends: either way the lease is forgotten. *)
Forget(w, place) ==
    /\ pc' = [pc EXCEPT ![w] = place]
    /\ lease' = [lease EXCEPT ![w] = NoLease]
    /\ UNCHANGED run

Reaches(w, channel) == accepted' = accepted \cup {<<lease[w].key, channel>>}

FinalAttempt(w) == lease[w].attempt >= MaxAttempts

(* deliver, the private message first.  A message ID is the receipt. *)
Succeeds(w, channel) ==
    /\ pc[w] = channel
    /\ Reaches(w, channel)
    /\ pc' = [pc EXCEPT ![w] = "receipt"]
    /\ lease' = [lease EXCEPT ![w].channel = channel]
    /\ UNCHANGED <<now, task, overdueLog, policy, rem, run>>

(* An error, though Feishu may have taken the message all the same: the answer
   was lost, or it carried no ID.  A private message that failed with an
   uncertain error is left to a retry unless this is the final attempt; any
   other error falls back to the group at once. *)
Fails(w, channel) ==
    /\ pc[w] = channel
    /\ Reaches(w, channel) \/ UNCHANGED accepted
    /\ \/ channel = "private" /\ Goto(w, "group")
       \/ channel = "private" /\ ~FinalAttempt(w) /\ Goto(w, "failed")
       \/ channel = "group" /\ Goto(w, "failed")
    /\ UNCHANGED <<now, task, overdueLog, policy, rem>>

(* KeyboardInterrupt during the call: fail is recorded, then the process ends
   (Crash). *)
Interrupt(w) ==
    /\ pc[w] \in {"private", "group"}
    /\ Reaches(w, pc[w]) \/ UNCHANGED accepted
    /\ Goto(w, "failed")
    /\ UNCHANGED <<now, task, overdueLog, policy, rem>>

(* _require_owned_lease on the row as it is now: expiry alone revokes nothing. *)
Owns(w) ==
    LET r == rem[lease[w].key]
    IN  /\ r.status = "leased"
        /\ r.worker = WorkerId(w)
        /\ r.attempt = lease[w].attempt

(* mark_sent reads the row; a lost lease is then reported through fail. *)
MarkSentReads(w) ==
    /\ pc[w] = "receipt"
    /\ Goto(w, IF Owns(w) THEN "mark" ELSE "failed")
    /\ UNCHANGED <<now, task, overdueLog, policy, rem, accepted>>

(* An UPDATE by primary key: it commits unless the row would break a CHECK. *)
Stores(w, row) ==
    /\ RowChecks(row)
    /\ rem' = [rem EXCEPT ![lease[w].key] = row]
    /\ Forget(w, "idle")

\* Mutant: the receipt is always recorded as the private message's.
SentPrivately(w) ==
    [Unleased(rem[lease[w].key]) EXCEPT !.status = "sent", !.message = "private"]

SentRow(w) ==
    [Unleased(rem[lease[w].key]) EXCEPT
        !.status = "sent", !.message = lease[w].channel]

MarkSentWrites(w) ==
    /\ pc[w] = "mark"
    /\ \/ Stores(w, SentRow(w))
       \/ ~RowChecks(SentRow(w)) /\ Goto(w, "failed") /\ UNCHANGED rem
    /\ UNCHANGED <<now, task, overdueLog, policy, accepted>>

(* The write waits for the database lock longer than busy_timeout. *)
MarkSentFails(w) ==
    /\ pc[w] = "mark"
    /\ Goto(w, "failed")
    /\ UNCHANGED <<now, task, overdueLog, policy, rem, accepted>>

(* _record_failure: min(3600, base * 2^(attempt - 1)) seconds. *)
Backoff(attempt) ==
    LET delay == RetryBase * 2^(attempt - 1)
    IN  IF delay > 3600 THEN 3600 ELSE delay

(* fail reads the row and decides from it; a lost lease ends the process. *)
FailReads(w) ==
    /\ pc[w] = "failed"
    /\ \/ ~Owns(w) /\ Forget(w, "down")
       \/ Owns(w) /\ FinalAttempt(w) /\ Goto(w, "bury")
       \/ /\ Owns(w) /\ ~FinalAttempt(w)
          /\ pc' = [pc EXCEPT ![w] = "retry"]
          /\ lease' = [lease EXCEPT ![w].retryAt = now + Backoff(lease[w].attempt)]
          /\ UNCHANGED run
    /\ UNCHANGED <<now, task, overdueLog, policy, rem, accepted>>

FailedRow(w) ==
    IF pc[w] = "bury" THEN Dead(rem[lease[w].key])
                      ELSE Retried(rem[lease[w].key], lease[w].retryAt)

FailWrites(w) ==
    /\ pc[w] \in {"bury", "retry"}
    /\ \/ Stores(w, FailedRow(w))
       \/ ~RowChecks(FailedRow(w)) /\ Forget(w, "down") /\ UNCHANGED rem
    /\ UNCHANGED <<now, task, overdueLog, policy, accepted>>

(* The process dies wherever it is; its supervisor starts another. *)
Crash(w) ==
    /\ pc[w] # "down"
    /\ Forget(w, "down")
    /\ UNCHANGED <<now, task, overdueLog, policy, rem, accepted>>

Restart(w) ==
    /\ pc[w] = "down" /\ run[w] < MaxRuns
    /\ pc' = [pc EXCEPT ![w] = "idle"]
    /\ run' = [run EXCEPT ![w] = @ + 1]
    /\ UNCHANGED <<now, task, overdueLog, policy, rem, lease, accepted>>

(* One iteration of the loop makes progress at each of these. *)
Work(w) ==
    \/ Claim(w)
    \/ \E channel \in {"private", "group"} : Succeeds(w, channel) \/ Fails(w, channel)
    \/ MarkSentReads(w) \/ MarkSentWrites(w) \/ MarkSentFails(w)
    \/ FailReads(w) \/ FailWrites(w)

WorkerStep(w) ==
    \/ Work(w) \/ \E k \in Keys : ClaimTargeted(w, k)
    \/ Interrupt(w) \/ Crash(w) \/ Restart(w)

-----------------------------------------------------------------------------
(* The rest of the program: every transaction that creates or changes a task
   ends with the synchronization of that task's reminders. *)

Write(t, tk) ==
    LET synced == MarkOverdue(tk, now)
    IN  /\ task' = [task EXCEPT ![t] = synced]
        /\ rem' = SyncTask(rem, t, synced, policy)
        /\ overdueLog' = overdueLog \cup
               OverdueEvents([task EXCEPT ![t] = tk], [task EXCEPT ![t] = synced])
        /\ UNCHANGED <<now, policy, pc, run, lease, accepted>>

(* Materialization and manual creation; the status depends on the confidence. *)
CreateTask(t) ==
    /\ task[t].status = "absent"
    /\ \E status \in {"pending", "todo"}, d \in Deadlines \cup {None},
          owners \in (SUBSET Members) \ {{}} :
            Write(t, [status |-> status, deadline |-> d, owners |-> owners])

(* A later detection run finds the task again: it may supply the missing deadline
   and be confident enough to activate a pending task. *)
RedetectTask(t) ==
    /\ "redetect" \in Operations
    /\ task[t].status # "absent"
    /\ LET open == task[t].status \in {"pending", "todo"} /\ task[t].deadline = None
       IN  \E d \in IF open THEN Deadlines \cup {None} ELSE {task[t].deadline},
              status \in IF task[t].status = "pending" THEN {"pending", "todo"}
                                                      ELSE {task[t].status} :
                Write(t, [task[t] EXCEPT !.deadline = d, !.status = status])

ConfirmTask(t) ==
    /\ "confirm" \in Operations
    /\ task[t].status = "pending"
    /\ Write(t, [task[t] EXCEPT !.status = "todo"])

CompleteTask(t) ==
    /\ "complete" \in Operations
    /\ task[t].status \in OpenStatuses
    /\ Write(t, [task[t] EXCEPT !.status = "done"])

(* CANCEL, and INVALIDATE of a pending task too. *)
CancelTask(t) ==
    /\ "cancel" \in Operations
    /\ task[t].status \in {"pending"} \cup OpenStatuses
    /\ Write(t, [task[t] EXCEPT !.status = "cancelled"])

(* MERGE: cancelled for good, because the task has merged_into_task_id. *)
MergeTask(t) ==
    /\ "merge" \in Operations
    /\ task[t].status \in {"pending", "done"} \cup OpenStatuses
    /\ Write(t, [task[t] EXCEPT !.status = "merged"])

(* REOPEN and RESTORE: overdue at once when the deadline has passed. *)
RestoreTask(t) ==
    /\ "restore" \in Operations
    /\ task[t].status \in {"done", "cancelled"}
    /\ LET late == task[t].deadline # None /\ task[t].deadline <= now
       IN  Write(t, [task[t] EXCEPT !.status = IF late THEN "overdue" ELSE "todo"])

RescheduleTask(t) ==
    /\ "reschedule" \in Operations
    /\ task[t].status \in OpenStatuses
    /\ \E d \in Deadlines :
          /\ d > now /\ d # task[t].deadline
          /\ Write(t, [task[t] EXCEPT !.status = "todo", !.deadline = d])

ReassignTask(t) ==
    /\ "reassign" \in Operations
    /\ task[t].status \in OpenStatuses
    /\ \E owners \in (SUBSET Members) \ {{}, task[t].owners} :
          Write(t, [task[t] EXCEPT !.owners = owners])

(* settings.update re-plans the open tasks of the chat; marking one overdue
   cannot take another out of the set. *)
SavePolicy ==
    \E p \in Policies \ {policy} :
        LET tks == SyncedTasks(now)
        IN  /\ policy' = p
            /\ Commit(tks, [k \in Keys |->
                   IF task[k.task].status \in OpenStatuses
                   THEN SyncRow(rem[k], k, tks[k.task], p)
                   ELSE rem[k]])
            /\ UNCHANGED <<now, pc, run, lease, accepted>>

(* sync_all, the command that only plans. *)
SyncAll ==
    /\ "sync" \in Operations
    /\ Commit(SyncedTasks(now), SyncedRows(SyncedTasks(now), policy))
    /\ UNCHANGED <<now, policy, pc, run, lease, accepted>>

Tick ==
    /\ now' \in {i \in Instants : i > now /\ \A j \in Instants : j <= now \/ j >= i}
    /\ UNCHANGED <<task, overdueLog, policy, rem, pc, run, lease, accepted>>

TaskStep(t) ==
    \/ CreateTask(t) \/ RedetectTask(t) \/ ConfirmTask(t) \/ CompleteTask(t)
    \/ CancelTask(t) \/ MergeTask(t) \/ RestoreTask(t) \/ RescheduleTask(t) \/ ReassignTask(t)

-----------------------------------------------------------------------------

Init ==
    /\ now \in {i \in Instants : \A j \in Instants : i <= j}
    /\ task = [t \in Tasks |-> [status |-> "absent", deadline |-> None, owners |-> {}]]
    /\ overdueLog = {}
    /\ policy \in Policies
    /\ rem = [k \in Keys |-> NoReminder]
    /\ pc = [w \in Workers |-> "idle"]
    /\ run = [w \in Workers |-> 1]
    /\ lease = [w \in Workers |-> NoLease]
    /\ accepted = {}

Next ==
    \/ \E w \in Workers : WorkerStep(w)
    \/ \E t \in Tasks : TaskStep(t)
    \/ SavePolicy \/ SyncAll \/ Tick

Spec == Init /\ [][Next]_vars

(* Time passes, the loop of a live process goes on (every call of Feishu and of
   SQLite ends: the client has a timeout, the database a busy_timeout), and the
   supervisor starts a process that ended, while the bound on runs allows it. *)
Fairness ==
    /\ WF_vars(Tick)
    /\ \A w \in Workers : WF_vars(Work(w)) /\ WF_vars(Restart(w))

FairSpec == Spec /\ Fairness

-----------------------------------------------------------------------------
(* Properties. *)

WorkerPlaces == {"idle", "private", "group", "receipt", "mark", "failed",
                 "bury", "retry", "down"}

HeldLease == [key : Keys \cup {None}, attempt : 0..MaxAttempts,
              channel : {"private", "group", None}, retryAt : Int]

(* The type invariant: among it, that every committed row satisfies the CHECK
   constraints of task_reminders and that a process past claim_due holds a lease. *)
TypeOK ==
    /\ now \in Instants
    /\ task \in [Tasks -> TaskRow]
    /\ overdueLog \subseteq Tasks \X Deadlines
    /\ policy \in Policies
    /\ rem \in [Keys -> Reminder]
    /\ \A k \in Keys : RowChecks(rem[k])
    /\ pc \in [Workers -> WorkerPlaces]
    /\ run \in [Workers -> 1..MaxRuns]
    /\ lease \in [Workers -> HeldLease]
    /\ \A w \in Workers : IF pc[w] \in {"idle", "down"} THEN lease[w] = NoLease
                                                     ELSE /\ lease[w].key \in Keys
                                                          /\ lease[w].attempt >= 1
    /\ accepted \subseteq Keys \X {"private", "group"}

(* A row is leased only while it is part of its task's current plan: the task is
   open in the state the stage is for, the deadline and the member are still
   those of the row, the chat's policy still enables the stage, and the row is
   leased for the moment that policy gives.  Whatever changes a task or the
   policy takes the lease away in the same commit. *)
LeasedFitsPlan ==
    \A k \in Keys : rem[k].status = "leased" =>
        Wanted(k, task[k.task], policy) /\ rem[k].due = Moment(k, policy)

(* A row says sent, on a channel, only if Feishu took that row's message on that
   channel: whatever processes die, lose their lease or write late. *)
SentWasAccepted ==
    \A k \in Keys : rem[k].status = "sent" => <<k, rem[k].message>> \in accepted

(* No stage of a live plan is lost: each stage that a task's status, deadline,
   members and chat policy ask for is waiting, in flight, finished, or was
   collapsed into a more urgent one, whatever sequence of closing, reopening,
   rescheduling, reassigning and policy changes led there.  And nothing waits
   outside the plan, so nobody is reminded of a task that was closed, moved or
   handed over.  One worker process at a time. *)
PlanIsCovered ==
    \A k \in Keys :
        /\ Wanted(k, task[k.task], policy) =>
              \/ rem[k].status \in {"scheduled", "leased", "sent", "dead"}
              \/ rem[k].reason = "superseded"
        /\ rem[k].status = "scheduled" =>
              Wanted(k, task[k.task], policy) /\ rem[k].due = Moment(k, policy)

(* A sent row stays sent: no synchronization, recovery or late write of another
   process sends that reminder again. *)
SentIsFinal ==
    [][\A k \in Keys : rem[k].status = "sent" => rem'[k].status = "sent"]_vars

(* A stage that was collapsed into a more urgent one never comes back. *)
SupersededIsFinal ==
    [][\A k \in Keys : rem[k].reason = "superseded" => rem'[k] = rem[k]]_vars

(* When a process leases a row, no more urgent stage of the same deadline and
   member is due and waits, or was given up for this one: a member who missed
   several stages is reminded of the last one, once. *)
ClaimsMostUrgent ==
    [][\A k \in Keys :
          rem'[k].status = "leased" /\ rem'[k].worker # rem[k].worker =>
              ~\E j \in Keys :
                  /\ SamePlan(j, k) /\ Priority[j.kind] > Priority[k.kind]
                  /\ \/ DueNow(rem'[j], now)
                     \/ rem[j].reason # "superseded" /\ rem'[j].reason = "superseded"]_vars

(* A reminder that falls due is settled: sent, withdrawn, or dead after its last
   attempt, although processes crash with leases in hand.  The exceptions are
   those of the bounds: a lease or a retry that ends after the last instant, and
   a worker slot that used up its runs. *)
Settled(r) == r.status \notin {"scheduled", "leased"}

BeyondBounds(r) ==
    \/ \A i \in Instants : r.status = "scheduled" /\ r.ready > i
    \/ \A i \in Instants : r.status = "leased" /\ r.expires > i
    \/ \A w \in Workers : pc[w] = "down" /\ run[w] = MaxRuns

DueIsSettled ==
    \A k \in Keys :
        DueNow(rem[k], now) ~> Settled(rem[k]) \/ BeyondBounds(rem[k])

(* A row whose attempts are used up is dead, not waiting: a waiting row always
   has an attempt left, so that claim_due can lease it. *)
WaitingHasAttempts ==
    \A k \in Keys : rem[k].status = "scheduled" => rem[k].attempt < MaxAttempts

-----------------------------------------------------------------------------
(* Refinement: the queue as the rest of the system may think of it. *)

Phase(r) ==
    CASE r.status = "absent" -> "none"
      [] r.status = "cancelled" /\ r.reason # "superseded" -> "none"
      [] r.status = "cancelled" /\ r.reason = "superseded" -> "dropped"
      [] r.status \in {"scheduled", "leased"} -> "pending"
      [] OTHER -> r.status

Outbox == INSTANCE DurableOutbox WITH
    Items <- Keys, Channels <- {"private", "group"},
    state <- [k \in Keys |-> Phase(rem[k])], taken <- accepted

(* The queue with its leases, races and crashes implements the outbox. *)
ImplementsOutbox == Outbox!Spec
=============================================================================
