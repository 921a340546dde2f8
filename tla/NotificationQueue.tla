------------------------- MODULE NotificationQueue -------------------------
(***************************************************************************)
(* The durable queue of private task notifications of one chat             *)
(* (src/app/notifications): the rows of task_notifications, planned from   *)
(* what tasks are and from their lifecycle events behind a cursor, and the *)
(* worker processes that lease and deliver one row at a time.              *)
(*                                                                         *)
(* Unlike reminders, notifications are not planned by the transactions     *)
(* that change a task, but later, by every claim, from the state that the  *)
(* claim finds: what happened in between is seen only through the events.  *)
(* As in ReminderQueue, a BEGIN IMMEDIATE transaction is one step, and     *)
(* mark_sent and fail are two: they read outside the transaction that      *)
(* writes.                                                                 *)
(***************************************************************************)
EXTENDS Integers, Sequences, FiniteSets

CONSTANTS
    Tasks,         \* tasks of the chat
    Members,       \* open_ids: responsible members and administrators
    Deadlines,     \* deadlines a task can be given
    Policies,      \* notification policies an administrator can save
    Workers,       \* supervised worker slots; each run of one is a process
    Instants,      \* the instants the clock visits: the bound on time
    MaxAttempts,   \* REMINDER_MAX_ATTEMPTS
    LeaseSeconds,  \* lease of one delivery
    RetryBase,     \* base of the retry delay, in seconds
    Appointed,     \* the administrators the chat can start with
    Creations,     \* how a task can be created: status, deadline, owners
    MaxRuns,       \* bound: processes started per worker slot
    MaxEvents,     \* bound: tracked lifecycle events
    Budgets,       \* bound: what a behaviour may use, one of these
    Actions,       \* which lifecycle actions the instance exercises
    None           \* SQL NULL

ChatPolicy == [memberEnabled : BOOLEAN, adminEnabled : BOOLEAN,
               memberDelay : Nat, adminDelay : Nat,
               selected : (SUBSET Members)]    \* {}: every administrator

(* Tracked events; changes of policy, administrators or admission; crashes, failed
   calls and refused writes; whether there is a worker, or sync_all alone. *)
Budget == [events : 0..MaxEvents, changes : Nat, faults : Nat, staffed : BOOLEAN]

(* tracked_actions of _sync_all_in_session. *)
Tracked == {"complete", "cancel", "reschedule", "rename", "reassign", "invalidate",
            "restore", "merge", "reopen", "accept"}

ASSUME TimeAssumption   == Deadlines \subseteq Int /\ Instants \subseteq Nat
ASSUME PolicyAssumption == Policies \subseteq ChatPolicy /\ Appointed \subseteq SUBSET Members
ASSUME CreationAssumption ==
    Creations \subseteq [status : {"pending", "todo"}, deadline : Deadlines \cup {None},
                         owners : (SUBSET Members) \ {{}}]
ASSUME LimitAssumption  ==
    /\ MaxAttempts \in 1..10
    /\ LeaseSeconds \in 10..3600 /\ RetryBase \in 1..3600
    /\ MaxRuns \in Nat \ {0} /\ MaxEvents \in Nat
    /\ Budgets \subseteq Budget
ASSUME ActionAssumption == Actions \subseteq Tracked \cup {"confirm", "redetect"}
ASSUME NullAssumption   ==
    /\ None \notin Deadlines /\ None \notin Workers \X (1..MaxRuns)
    /\ None \notin {"policy", "disabled", "withdrawn"}

VARIABLES
    now,            \* the clock every process of the host reads
    task,           \* what the queue reads of the tasks table
    event,          \* the tracked rows of task_lifecycle_events, by id
    administrators, \* administrators of the chat
    policy,         \* the chat's row of chat_settings
    admitted,       \* the chat is enabled and allowed
    row,            \* task_notifications, by its unique key
    cursor,         \* task_notification_state.last_lifecycle_event_id
    deferred,       \* task_notification_deferred_lifecycle_events
    pc, run, lease, \* worker processes: place, number in its slot, lease held
    accepted,       \* keys of the messages Feishu took: the delivery uuid
    left            \* bound: what is left of the budget

chatVars == <<administrators, policy, admitted>>
workerVars == <<pc, run, lease>>
vars == <<now, task, event, chatVars, row, cursor, deferred, workerVars, accepted, left>>

Use(what) == left[what] > 0 /\ left' = [left EXCEPT ![what] = @ - 1]

-----------------------------------------------------------------------------
(* Tasks, events and rows. *)

TaskRow == [status : {"absent", "pending", "todo", "overdue", "done", "cancelled"},
            deadline : Deadlines \cup {None}, owners : SUBSET Members,
            created : Nat, merged : BOOLEAN]

NoTask == [status |-> "absent", deadline |-> None, owners |-> {}, created |-> 0,
           merged |-> FALSE]

Open == {"todo", "overdue"}

Event == [task : Tasks, action : Tracked, actor : Members, at : Instants,
          before : SUBSET Members, after : SUBSET Members]

(* The kinds, as far as planning tells them apart, and what dedupe_key is made
   of: the task's creation, its activation, a deadline, or an event. *)
Creation == 0
Activation == 1

Keys ==
    [task : Tasks, member : Members, kind : {"assigned"}, about : {Creation, Activation}]
    \cup [task : Tasks, member : Members, kind : {"missing_member", "missing_admin"},
          about : {Creation}]
    \cup [task : Tasks, member : Members, kind : {"overdue"}, about : Deadlines]
    \cup [task : Tasks, member : Members, kind : {"event_member", "event_admin"},
          about : 1..MaxEvents]

AdminKinds == {"missing_admin", "overdue", "event_admin"}

WorkerIds == Workers \X (1..MaxRuns)

Notification ==
    [status  : {"absent", "scheduled", "leased", "sent", "cancelled", "dead"},
     attempt : 0..MaxAttempts,
     worker  : WorkerIds \cup {None},
     expires : Int,                                   \* 0 when not leased
     due     : Int,                                   \* scheduled_for
     ready   : Int,                                   \* available_at
     reason  : {"policy", "disabled", "withdrawn", None}]

NoRow == [status |-> "absent", attempt |-> 0, worker |-> None, expires |-> 0,
          due |-> 0, ready |-> 0, reason |-> None]

(* The CHECK constraints of task_notifications.  A sent row has its message id:
   mark_sent alone writes the two, together. *)
RowChecks(r) ==
    /\ r.attempt <= MaxAttempts
    /\ (r.status = "leased") <=> (r.worker # None)
    /\ (r.status = "cancelled") <=> (r.reason # None)

Active(r) == r.status \in {"scheduled", "leased"}

\* Mutant: the worker of an ended lease stays in the row.
UnleasedByName(r) == [r EXCEPT !.expires = 0]

Unleased(r) == [r EXCEPT !.worker = None, !.expires = 0]

Planned(at) == [NoRow EXCEPT !.status = "scheduled", !.due = at, !.ready = at]

Cancelled(r, why) == [Unleased(r) EXCEPT !.status = "cancelled", !.reason = why]

Retried(r, at) == [Unleased(r) EXCEPT !.status = "scheduled", !.ready = at]

Dead(r) == [Unleased(r) EXCEPT !.status = "dead"]

\* Mutant: a row that ended is planned again for the same key.
EnsuredAgain(r, at) == IF Active(r) THEN r ELSE Planned(at)

(* _ensure_notification: one row for one key, planned again only if a policy
   cancelled it. *)
Ensured(r, at) ==
    IF r.status = "absent" \/ r.reason = "policy" THEN Planned(at) ELSE r

-----------------------------------------------------------------------------
(* Who is told what. *)

(* _notification_administrator_open_ids: the selected administrators, or all of
   them when none of the selected is one any more. *)
Alerted ==
    LET effective == administrators \cap policy.selected
    IN  IF effective = {} THEN administrators ELSE effective

(* _missing_deadline_policy: the moment a missing deadline is told, and whether. *)
MissingStage(kind) ==
    IF kind = "missing_member"
    THEN [enabled |-> policy.memberEnabled, delay |-> policy.memberDelay]
    ELSE [enabled |-> policy.adminEnabled, delay |-> policy.adminDelay]

WithoutDeadline(tk) == tk.status = "todo" /\ tk.deadline = None

MissingRecipients(kind, tk) ==
    IF kind = "missing_member" THEN tk.owners ELSE Alerted \ tk.owners

MissingWanted(k) ==
    /\ WithoutDeadline(task[k.task])
    /\ MissingStage(k.kind).enabled
    /\ k.member \in MissingRecipients(k.kind, task[k.task])

MissingMoment(k) == task[k.task].created + MissingStage(k.kind).delay

OverdueFor(k) == task[k.task].status = "overdue" /\ task[k.task].deadline = k.about

(* The members an event concerns: those responsible when the event is read, or,
   of a reassignment, those before and after. *)
Concerned(e) ==
    IF event[e].action = "reassign" THEN event[e].before \cup event[e].after
                                    ELSE task[event[e].task].owners

\* Mutant: an administrator who is responsible is told in both roles.
ToldTwice(e, kind) ==
    IF kind = "event_member" THEN Concerned(e) \ {event[e].actor}
                             ELSE Alerted \ {event[e].actor}

Told(e, kind) ==
    IF kind = "event_member" THEN Concerned(e) \ {event[e].actor}
                             ELSE Alerted \ (Concerned(e) \cup {event[e].actor})

-----------------------------------------------------------------------------
(* _sync_all_in_session, row by row. *)

(* A missing deadline that is still wanted at another moment.  A lease is taken
   back, and a retry never comes earlier than it was put off to. *)
\* Mutant: the new moment replaces the retry time.
MovedEagerly(r, moment) ==
    IF r.status = "leased" THEN [Retried(r, moment) EXCEPT !.due = moment]
    ELSE [r EXCEPT !.due = moment, !.ready = moment]

Moved(r, moment) ==
    IF r.status = "leased" \/ r.attempt = 0
    THEN [Retried(r, moment) EXCEPT !.due = moment]
    ELSE [r EXCEPT !.due = moment, !.ready = IF @ > moment THEN @ ELSE moment]

WhyNotMissing(k) ==
    IF ~WithoutDeadline(task[k.task]) THEN "withdrawn"
    ELSE IF ~MissingStage(k.kind).enabled THEN "disabled"
    ELSE IF k.kind = "missing_admin" /\ k.member \in administrators THEN "policy"
    ELSE "withdrawn"

\* Mutant: only a deadline or a closed task ends what was planned.
SyncMissingKeeping(k, r) ==
    CASE MissingWanted(k) -> Ensured(r, MissingMoment(k))
      [] ~WithoutDeadline(task[k.task]) /\ Active(r) -> Cancelled(r, "withdrawn")
      [] OTHER -> r

SyncMissing(k, r) ==
    CASE MissingWanted(k) /\ (r.status = "absent" \/ r.reason \in {"policy", "disabled"}) ->
            Planned(MissingMoment(k))
      [] MissingWanted(k) /\ Active(r) /\ r.due # MissingMoment(k) ->
            Moved(r, MissingMoment(k))
      [] ~MissingWanted(k) /\ Active(r) -> Cancelled(r, WhyNotMissing(k))
      [] OTHER -> r

SyncOverdue(k, r) ==
    CASE OverdueFor(k) /\ k.member \in Alerted \ task[k.task].owners -> Ensured(r, now)
      [] Active(r) /\ OverdueFor(k) /\ k.member \notin Alerted ->
            Cancelled(r, IF k.member \in administrators THEN "policy" ELSE "withdrawn")
      [] Active(r) /\ ~OverdueFor(k) -> Cancelled(r, "withdrawn")
      [] OTHER -> r

(* Events that this synchronization reads: beyond the cursor, and those deferred
   while the chat was outside. *)
Unread == (cursor + 1)..Len(event) \cup deferred

SyncEvent(k, r) ==
    CASE /\ k.about \in Unread /\ event[k.about].task = k.task
         /\ event[k.about].action # "merge" /\ k.member \in Told(k.about, k.kind) ->
            Ensured(r, event[k.about].at)
      [] k.kind = "event_admin" /\ Active(r) /\ k.member \notin Alerted ->
            Cancelled(r, "policy")
      [] OTHER -> r

SyncRow(k, r) ==
    IF ~admitted
    THEN IF Active(r) THEN Cancelled(r, "withdrawn") ELSE r
    ELSE CASE k.kind \in {"missing_member", "missing_admin"} -> SyncMissing(k, r)
           [] k.kind = "overdue" -> SyncOverdue(k, r)
           [] k.kind \in {"event_member", "event_admin"} -> SyncEvent(k, r)
           [] OTHER -> r

SyncedRows == [k \in Keys |-> SyncRow(k, row[k])]

\* Mutant: the cursor passes events of a chat that is outside.
DeferredNever == deferred

StillDeferred == IF admitted THEN {} ELSE Unread

-----------------------------------------------------------------------------
(* The worker process: TaskNotificationWorker.run_once. *)

Recovered(r) ==
    IF r.status = "leased" /\ r.expires <= now
    THEN IF r.attempt >= MaxAttempts THEN Dead(r) ELSE Retried(r, now)
    ELSE r

ClaimableRows == [k \in Keys |-> Recovered(SyncedRows[k])]

Claimable(rows) ==
    {k \in Keys : rows[k].status = "scheduled" /\ rows[k].due <= now /\ rows[k].ready <= now}

(* claim_due orders by scheduled_for, then by id: rows of one moment are tried in
   every order. *)
Earliest(rows) ==
    {k \in Claimable(rows) : \A j \in Claimable(rows) : rows[k].due <= rows[j].due}

WorkerId(w) == <<w, run[w]>>

Leased(w, r) ==
    [r EXCEPT !.status = "leased", !.attempt = @ + 1, !.worker = WorkerId(w),
              !.expires = now + LeaseSeconds]

(* What a process holds in memory: the lease, and the retry time of fail. *)
NoLease == [key |-> None, attempt |-> 0, retryAt |-> 0]

Commit(rows) ==
    /\ row' = rows
    /\ cursor' = Len(event)
    /\ deferred' = StillDeferred

(* claim_due: synchronize, recover, lease the earliest due row, in one
   transaction, or roll everything back when a CHECK constraint fails.  The command
   line can name the row instead; nothing else differs. *)
Claim(w) ==
    /\ pc[w] = "idle"
    /\ LET rows == ClaimableRows
       IN  \/ Claimable(rows) = {} /\ Commit(rows) /\ UNCHANGED workerVars
           \/ \E k \in Earliest(rows) :
                 LET r == Leased(w, rows[k])
                 IN  \/ /\ RowChecks(r)
                        /\ Commit([rows EXCEPT ![k] = r])
                        /\ lease' = [lease EXCEPT ![w] =
                               [key |-> k, attempt |-> r.attempt, retryAt |-> 0]]
                        /\ pc' = [pc EXCEPT ![w] = "calling"]
                        /\ UNCHANGED run
                     \/ /\ ~RowChecks(r)
                        /\ pc' = [pc EXCEPT ![w] = "down"]
                        /\ UNCHANGED <<row, cursor, deferred, run, lease>>
    /\ UNCHANGED <<now, task, event, chatVars, accepted, left>>

Goto(w, place) == pc' = [pc EXCEPT ![w] = place] /\ UNCHANGED <<run, lease>>

(* run_once returns or the process ends: either way the lease is forgotten. *)
Forget(w, place) ==
    /\ pc' = [pc EXCEPT ![w] = place]
    /\ lease' = [lease EXCEPT ![w] = NoLease]
    /\ UNCHANGED run

Reached(w) == accepted' = accepted \cup {lease[w].key}

(* deliver: a receipt, or an error although Feishu may have taken the message. *)
Deliver(w) ==
    /\ pc[w] = "calling"
    /\ \/ Reached(w) /\ Goto(w, "receipt") /\ UNCHANGED left
       \/ (Reached(w) \/ UNCHANGED accepted) /\ Goto(w, "failed") /\ Use("faults")
    /\ UNCHANGED <<now, task, event, chatVars, row, cursor, deferred>>

Owns(w) ==
    LET r == row[lease[w].key]
    IN  r.status = "leased" /\ r.worker = WorkerId(w) /\ r.attempt = lease[w].attempt

MarkSentReads(w) ==
    /\ pc[w] = "receipt"
    /\ Goto(w, IF Owns(w) THEN "mark" ELSE "failed")
    /\ UNCHANGED <<now, task, event, chatVars, row, cursor, deferred, accepted, left>>

SentRow(w) == [Unleased(row[lease[w].key]) EXCEPT !.status = "sent"]

(* mark_sent updates the row it read, by primary key; or the row's constraints
   or a busy database refuse it, and fail is tried. *)
MarkSentWrites(w) ==
    /\ pc[w] = "mark"
    /\ \/ /\ RowChecks(SentRow(w))
          /\ row' = [row EXCEPT ![lease[w].key] = SentRow(w)]
          /\ Forget(w, "idle") /\ UNCHANGED left
       \/ ~RowChecks(SentRow(w)) /\ Goto(w, "failed") /\ UNCHANGED <<row, left>>
       \/ Goto(w, "failed") /\ Use("faults") /\ UNCHANGED row
    /\ UNCHANGED <<now, task, event, chatVars, cursor, deferred, accepted>>

Backoff(attempt) ==
    LET delay == RetryBase * 2^(attempt - 1)
    IN  IF delay > 3600 THEN 3600 ELSE delay

(* fail decides from the row it reads; a lost lease ends the process. *)
FailReads(w) ==
    /\ pc[w] = "failed"
    /\ \/ ~Owns(w) /\ Forget(w, "down")
       \/ Owns(w) /\ lease[w].attempt >= MaxAttempts /\ Goto(w, "bury")
       \/ /\ Owns(w) /\ lease[w].attempt < MaxAttempts
          /\ pc' = [pc EXCEPT ![w] = "retry"]
          /\ lease' = [lease EXCEPT ![w].retryAt = now + Backoff(lease[w].attempt)]
          /\ UNCHANGED run
    /\ UNCHANGED <<now, task, event, chatVars, row, cursor, deferred, accepted, left>>

FailedRow(w) ==
    IF pc[w] = "bury" THEN Dead(row[lease[w].key])
                      ELSE Retried(row[lease[w].key], lease[w].retryAt)

(* A row that was sent meanwhile has a message id, which no other status may
   have. *)
FailWrites(w) ==
    /\ pc[w] \in {"bury", "retry"}
    /\ LET stores == RowChecks(FailedRow(w)) /\ row[lease[w].key].status # "sent"
       IN  \/ /\ stores
              /\ row' = [row EXCEPT ![lease[w].key] = FailedRow(w)]
              /\ Forget(w, "idle")
           \/ ~stores /\ Forget(w, "down") /\ UNCHANGED row
    /\ UNCHANGED <<now, task, event, chatVars, cursor, deferred, accepted, left>>

Crash(w) ==
    /\ pc[w] # "down"
    /\ Forget(w, "down") /\ Use("faults")
    /\ UNCHANGED <<now, task, event, chatVars, row, cursor, deferred, accepted>>

Restart(w) ==
    /\ pc[w] = "down" /\ run[w] < MaxRuns
    /\ pc' = [pc EXCEPT ![w] = "idle"]
    /\ run' = [run EXCEPT ![w] = @ + 1]
    /\ UNCHANGED <<now, task, event, chatVars, row, cursor, deferred, lease, accepted, left>>

(* One iteration of the loop makes progress at each of these. *)
Work(w) ==
    \/ Claim(w) \/ Deliver(w)
    \/ MarkSentReads(w) \/ MarkSentWrites(w) \/ FailReads(w) \/ FailWrites(w)

-----------------------------------------------------------------------------
(* The rest of the program. *)

(* create_task_assignment_notifications_in_session, for the task as its caller
   leaves it. *)
Assigned(rows, t, tk, about) ==
    [k \in Keys |->
        IF /\ k.kind = "assigned" /\ k.task = t /\ k.about = about
           /\ k.member \in tk.owners /\ tk.status \in Open
        THEN Ensured(rows[k], now) ELSE rows[k]]

(* The reminders of the task are synchronized in the same transaction. *)
FallsDue(tk) == tk.status = "todo" /\ tk.deadline # None /\ tk.deadline <= now

Written(tk) == IF FallsDue(tk) THEN [tk EXCEPT !.status = "overdue"] ELSE tk

(* Materialization, or creation on the management page. *)
Create(t) ==
    /\ task[t].status = "absent"
    /\ \E found \in Creations :
          LET tk == [status |-> found.status, deadline |-> found.deadline,
                     owners |-> found.owners, created |-> now, merged |-> FALSE]
          IN  /\ task' = [task EXCEPT ![t] = Written(tk)]
              /\ row' = Assigned(row, t, tk, Creation)
    /\ UNCHANGED <<now, event, chatVars, cursor, deferred, workerVars, accepted, left>>

(* A later detection run supplies a deadline or activates a pending task. *)
Redetect(t) ==
    /\ "redetect" \in Actions
    /\ task[t].status \in {"pending", "todo"}
    /\ \E d \in IF task[t].deadline = None THEN Deadlines \cup {None}
                                           ELSE {task[t].deadline} :
       \E status \in {task[t].status, "todo"} :
          LET tk == [task[t] EXCEPT !.deadline = d, !.status = status]
          IN  /\ tk # task[t]
              /\ task' = [task EXCEPT ![t] = Written(tk)]
              /\ row' = IF status # task[t].status THEN Assigned(row, t, tk, Activation)
                                                   ELSE row
    /\ UNCHANGED <<now, event, chatVars, cursor, deferred, workerVars, accepted, left>>

(* CONFIRM on the management page: not a tracked action. *)
Confirm(t) ==
    /\ "confirm" \in Actions
    /\ task[t].status = "pending"
    /\ LET tk == [task[t] EXCEPT !.status = "todo"]
       IN  /\ task' = [task EXCEPT ![t] = Written(tk)]
           /\ row' = Assigned(row, t, Written(tk), Activation)
    /\ UNCHANGED <<now, event, chatVars, cursor, deferred, workerVars, accepted, left>>

(* The reminder worker marks the task. *)
FallDue(t) ==
    /\ FallsDue(task[t])
    /\ task' = [task EXCEPT ![t] = Written(task[t])]
    /\ UNCHANGED <<now, event, chatVars, row, cursor, deferred, workerVars, accepted, left>>

(* From which statuses an action is accepted, and the task it leaves. *)
From(action) ==
    CASE action \in {"restore"} -> {"done", "cancelled"}
      [] action \in {"reopen", "accept"} -> {"done"}
      [] action = "merge" -> {"pending", "todo", "overdue", "done"}
      [] action = "invalidate" -> {"pending", "todo", "overdue"}
      [] OTHER -> Open

Outcomes(action, tk) ==
    CASE action = "complete" -> {[tk EXCEPT !.status = "done"]}
      [] action \in {"cancel", "invalidate"} -> {[tk EXCEPT !.status = "cancelled"]}
      [] action = "merge" -> {[tk EXCEPT !.status = "cancelled", !.merged = TRUE]}
      [] action \in {"restore", "reopen"} -> {[tk EXCEPT !.status = "todo"]}
      [] action = "reschedule" ->
            {[tk EXCEPT !.status = "todo", !.deadline = d] :
                d \in {x \in Deadlines : x > now /\ x # tk.deadline}}
      [] action = "reassign" ->
            {[tk EXCEPT !.owners = S] : S \in (SUBSET Members) \ {{}, tk.owners}}
      [] action \in {"rename", "accept"} -> {tk}

\* Mutant: a merge leaves the planned rows of the duplicate.
KeptByMerge(action, t) == row

(* _cancel_unsent_task_notifications. *)
LeftBy(action, t) ==
    [k \in Keys |->
        IF action = "merge" /\ k.task = t /\ Active(row[k])
        THEN Cancelled(row[k], "withdrawn") ELSE row[k]]

(* A tracked lifecycle mutation, on whatever channel. *)
Act(t, action, actor) ==
    /\ Use("events")
    /\ task[t].status \in From(action) /\ ~task[t].merged
    /\ \E tk \in Outcomes(action, task[t]) :
          /\ task' = [task EXCEPT ![t] = Written(tk)]
          /\ event' = Append(event, [task |-> t, action |-> action, actor |-> actor,
                                     at |-> now, before |-> task[t].owners,
                                     after |-> tk.owners])
    /\ row' = LeftBy(action, t)
    /\ UNCHANGED <<now, chatVars, cursor, deferred, workerVars, accepted>>

(* Settings, grants and revocations, admission of the chat: none of them touches
   the rows. *)
ChangeChat ==
    /\ Use("changes")
    /\ \/ /\ policy' \in Policies \ {policy}
          /\ UNCHANGED <<administrators, admitted>>
       \/ /\ administrators' \in {administrators \cup {m} : m \in Members}
                              \cup {administrators \ {m} : m \in Members}
          /\ administrators' # administrators
          /\ UNCHANGED <<policy, admitted>>
       \/ admitted' = ~admitted /\ UNCHANGED <<policy, administrators>>
    /\ UNCHANGED <<now, task, event, row, cursor, deferred, workerVars, accepted>>

(* sync_all, the command that only plans. *)
SyncAll ==
    /\ Commit(SyncedRows)
    /\ UNCHANGED <<now, task, event, chatVars, workerVars, accepted, left>>

Tick ==
    /\ now' \in {i \in Instants : i > now /\ \A j \in Instants : j <= now \/ j >= i}
    /\ UNCHANGED <<task, event, chatVars, row, cursor, deferred, workerVars, accepted, left>>

TaskStep(t) ==
    \/ Create(t) \/ Redetect(t) \/ Confirm(t) \/ FallDue(t)
    \/ \E action \in Actions \cap Tracked, actor \in Members : Act(t, action, actor)

-----------------------------------------------------------------------------
Init ==
    /\ now \in {i \in Instants : \A j \in Instants : i <= j}
    /\ task = [t \in Tasks |-> NoTask]
    /\ event = << >>
    /\ administrators \in Appointed
    /\ policy \in Policies
    /\ admitted \in BOOLEAN
    /\ row = [k \in Keys |-> NoRow]
    /\ cursor = 0
    /\ deferred = {}
    /\ left \in Budgets
    /\ pc = [w \in Workers |-> IF left.staffed THEN "idle" ELSE "down"]
    /\ run = [w \in Workers |-> IF left.staffed THEN 1 ELSE MaxRuns]
    /\ lease = [w \in Workers |-> NoLease]
    /\ accepted = {}

Next ==
    \/ \E w \in Workers : Work(w) \/ Crash(w) \/ Restart(w)
    \/ \E t \in Tasks : TaskStep(t)
    \/ ChangeChat \/ SyncAll \/ Tick

Spec == Init /\ [][Next]_vars

-----------------------------------------------------------------------------
(* Properties. *)

HeldLease == [key : Keys \cup {None}, attempt : 0..MaxAttempts, retryAt : Int]

(* Types, and the CHECK constraints of the table in every committed row. *)
TypeOK ==
    /\ now \in Instants
    /\ task \in [Tasks -> TaskRow]
    /\ event \in Seq(Event) /\ Len(event) <= MaxEvents
    /\ administrators \subseteq Members
    /\ policy \in Policies
    /\ admitted \in BOOLEAN
    /\ row \in [Keys -> Notification]
    /\ \A k \in Keys : RowChecks(row[k])
    /\ cursor \in 0..Len(event)
    /\ deferred \subseteq 1..cursor
    /\ pc \in [Workers -> {"idle", "calling", "receipt", "mark", "failed", "bury",
                           "retry", "down"}]
    /\ run \in [Workers -> 1..MaxRuns]
    /\ lease \in [Workers -> HeldLease]
    /\ \A w \in Workers : pc[w] \notin {"idle", "down"} => lease[w].key \in Keys
    /\ accepted \subseteq Keys
    /\ left \in Budget

RowsOf(e, m) ==
    {k \in Keys : k.kind \in {"event_member", "event_admin"} /\ k.about = e
                  /\ k.member = m /\ row[k].status # "absent"}

(* A member is told of one event once, in one role, and never of an action of his
   own, although recipients are worked out late, an event may be read again after
   the chat was outside, and owners and administrators change in between. *)
ToldOnce ==
    \A e \in 1..Len(event), m \in Members :
        /\ Cardinality(RowsOf(e, m)) <= 1
        /\ m = event[e].actor => RowsOf(e, m) = {}

Informed(e) == {m \in Members : RowsOf(e, m) # {}}

(* No event is passed over.  The synchronization that takes an event off what is
   unread, of whatever kind but a merge, plans a row for everybody it concerns at
   that moment and for the administrators to alert, but for its actor; for a
   reassignment those are the members before and after it, whoever owns the task by
   now.  An event is planned in that one step: while it waits, behind the cursor or
   deferred, nobody has a row, and once it was read it is never read again, and
   nobody gains or loses a row about it. *)
ReadIsPlanned ==
    [][\A e \in 1..Len(event) :
          /\ e \in Unread => Informed(e) = {}
          /\ e \in Unread /\ e \notin Unread' =>
                Informed(e)' = IF event[e].action = "merge" THEN {}
                               ELSE (Concerned(e) \cup Alerted) \ {event[e].actor}
          /\ e \notin Unread => e \notin Unread' /\ Informed(e)' = Informed(e)]_vars

(* A row is leased only for somebody who may be told at that moment: the chat is
   admitted, administrators' notices go to administrators that the policy names,
   a missing deadline is still missing, an overdue task is still overdue. *)
ClaimsAuthorized ==
    [][\A k \in Keys :
          row'[k].status = "leased" /\ row'[k].worker # row[k].worker =>
              /\ admitted
              /\ k.kind \in AdminKinds => k.member \in Alerted
              /\ k.kind \in {"missing_member", "missing_admin"} => MissingWanted(k)
              /\ k.kind = "overdue" => OverdueFor(k)]_vars

(* "A policy change may move the original schedule, but it must never shorten a
   persisted retry backoff": while a failed row waits, it is not ready earlier,
   unless a worker's own late failure records the retry time it worked out. *)
BackoffKept ==
    [][\A k \in Keys :
          (/\ row[k].status = "scheduled" /\ row[k].attempt > 0
           /\ row'[k].status = "scheduled" /\ row'[k].attempt = row[k].attempt)
              => \/ row'[k].ready >= row[k].ready
                 \/ \E w \in Workers : /\ pc[w] = "retry" /\ lease[w].key = k
                                       /\ row'[k].ready = lease[w].retryAt]_vars

(* Merging ends what was planned for the duplicate: no row of a merged task is
   sent or leased but for events, which may be read after the merge.  With two worker
   slots, a late failure of one could revive a row that the other buried. *)
MergedIsWithdrawn ==
    \A k \in Keys :
        task[k.task].merged /\ Active(row[k]) => k.kind \in {"event_member", "event_admin"}

-----------------------------------------------------------------------------
(* The queue with its leases, races and crashes implements the outbox. *)

Phase(r) ==
    CASE r.status \in {"absent", "cancelled"} -> "none"
      [] Active(r) -> "pending"
      [] OTHER -> r.status

Outbox == INSTANCE DurableOutbox WITH
    Items <- Keys, Channels <- {"private"},
    state <- [k \in Keys |-> Phase(row[k])], taken <- accepted \X {"private"}

ImplementsOutbox == Outbox!Spec
=============================================================================
