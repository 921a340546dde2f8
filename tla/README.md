# A verification of feishu-task-agent

TLA+ models of the task robot in `src/app`, TLC instances that check them, and
TLAPS proofs. Every definition is translated from the source; `PROJECT.json`
maps each to the lines it stands for.

## 1. The system

A Feishu group chat, one SQLite database in WAL mode, and several processes that
share nothing but the database:

| process | code | what it does |
|---|---|---|
| listener | `feishu/receiver.py`, `ingestion/`, command processors | saves messages, queues detection, runs commands and card actions |
| detection worker | `agent/`, `tasks/repository.py` | leases a job, asks a model, turns the answer into tasks |
| reminder worker | `reminders/` | plans, leases and delivers deadline reminders |
| notification worker | `notifications/` | the same for task notifications |
| management API and frontend | `management/`, `management-web/` | settings, reviews, queries |

`compose.yaml` restarts each process that ends; `dev_runner.py` stops all of them
when one ends. Workers also run once, by command, next to the permanent ones.

How they interact: only through rows. There is no message between processes and
no in-memory state that outlives a process, except a lease held by a worker
while it calls Feishu or the model.

Transactions decide what can interleave. `session_scope` commits or rolls back.
The driver begins a transaction at the first *write*, so a method that reads
first and writes later reads outside its transaction, unless it says `BEGIN
IMMEDIATE`. The planning and claiming of reminders and notifications, the
lifecycle mutations, notes, manual creation and `consume_login_token` say so;
`mark_sent`, `fail`, `complete`, `start_run`, `cancel_jobs`, grants, revocations,
names and settings do not. The ORM writes the columns that differ from what was read,
by primary key, and the CHECK constraints of the tables are then the last guard.
The models keep exactly this: one step per transaction that takes the write lock
before it reads, two steps where the code reads first.

### Inventory

| component | state | operations | hard behaviour | what makes it correct |
|---|---|---|---|---|
| reminder queue | `task_reminders`, `tasks.status`, overdue events | sync, claim, mark sent, fail, recover | late writes, crashes with a lease, stages missed together, re-planning in flight | nothing sent is sent again, no stage is lost, only the plan is leased |
| detection intake | `messages`, `detection_jobs` | save, coalesce | out-of-order arrival, bursts, arrivals during a job | every message of a batch is analysed or cut for a known reason |
| detection queue | `detection_jobs`, `detection_runs`, focus | claim, start, complete, fail, cancel, recover | late answers, failed materialization, two workers, cancellation race | tasks exist exactly for successful runs; verdicts are final |
| materialization | `tasks`, evidence, sources | create, refine | the same task found by several jobs | one task per assignment |
| lifecycle | `tasks`, events, submissions, requests | complete, cancel, reschedule, reassign, review, merge, restore | replays, stale reviews, authority that changed | a request acts once; a review matches its submission |
| notifications | `task_notifications`, cursor, deferred events | sync, claim, mark sent, fail | recipients worked out long after the event, admission that comes and goes | each event told at most once per member, none passed over |
| settings | `chat_settings` | partial saves | administrators who save at once | a save writes only the columns it changes |
| administrators, sessions | administrators, audit, links, sessions | grant, revoke, found, redeem | decisions on what was read earlier, refreshes with old snapshots | the audit explains the administrators; who left is signed out |
| aliases and directory | aliases, memberships | bind, release, snapshot | two members, one name | names are unique in a chat |
| listener hand-off | `messages` | save, dispatch, answer | crash between the two, a task that changes between processors | a command is answered once or lost for a known reason |
| notes and manual creation | `task_notes`, `task_creation_events` | add, create | the model reads a task long before the note is written; forms sent again | notes belong to the right completion; one record per request |

`PROJECT.json` lists every component with its status, and every hazard at its
line.

## 2. Modules

| module | models |
|---|---|
| `ReminderSchedule` | the moments of a deadline's four stages |
| `ReminderQueue` | the reminder queue, its workers, the task operations and policy changes that re-plan |
| `DurableOutbox` | abstract: what a durable queue of outgoing messages promises; implemented by both queues |
| `MessageBatches` | abstract: what detection promises about the messages of a chat; implemented by `DetectionQueue` |
| `DetectionContext` | which messages a job shows to the model, and its focus |
| `DetectionQueue` | intake, jobs, runs, workers, cancellation |
| `TaskBoard` | abstract: what the tasks of a chat are to its members; implemented by `TaskLifecycle` |
| `TaskLifecycle` | the tasks of a chat: materialization, requests of every channel, reviews, merges, overdue marking, the audit log |
| `NotificationQueue` | notifications, planned from the state and from events behind a cursor, and their workers |
| `ChatAccess` | directory snapshots, administrators, login links and sessions, names, settings |
| `Intake` | the listener from a message to its answer; notes, questions and the two forms of the page |
| `ReminderQueueProofs`, `ReminderOutboxProofs`, `ReminderPlanProofs`, `DetectionQueueProofs`, `TaskLifecycleProofs`, `NotificationQueueProofs`, `IntakeProofs`, `ChatAccessProofs` | theorems |
| `MC...` | constants of the instances |

How they compose. Each module takes the rows it owns whole and what it reads of
other rows as operations of its environment: `ReminderQueue` and
`NotificationQueue` contain the transactions of `TaskLifecycle` that plan or
withdraw their rows, reduced to what planning reads; `Intake` contains the
lifecycle of a task as far as dispatching and notes can tell; `ChatAccess`
supplies the changes of administrators that the other modules take as free.

### ReminderQueue

`rem` is the table by its unique key (task, member, kind, deadline), `task` what
reminders read of a task, `policy` the chat's row of `chat_settings`,
`overdueLog` the system's overdue events. `pc`, `run` and `lease` are the worker
processes; a restart gives a slot a new process and so a new `worker_id`.
`accepted` is what Feishu took, by row and channel, which the delivery uuid
identifies; the program cannot read it.

`Claim` is the whole of `claim_due`: every task synchronized and marked overdue,
expired leases recovered, missed stages collapsed, the earliest due row leased,
or everything rolled back when a CHECK constraint fails. `MarkSentReads` and
`MarkSentWrites`, `FailReads` and `FailWrites` are the two halves of those
methods. Each task operation ends in `Write`, which re-plans that task in the
same commit as the code does. Times are seconds; the instances place deadlines
on real Shanghai hours so that the stages fall as in the code.

Left out: texts and cards, counts and lists, `updated_at`, error messages.

### DetectionQueue

`job` is indexed by the message that created it, which orders jobs as their ids
do. `batch` is a history variable: the messages coalesced into the job. `Save`
is `MessageRepository.save` with the coalescing; a repeated delivery changes
nothing. `Prepare` joins the building of the context and the first read of
`start_run`: between the two only a message can arrive or a lease can end, which
is a later `Prepare` or a `Crash`. `CompleteWrites` commits run, job and
materialization together, or ends the process when a CHECK constraint fails;
`TasksFail` is the rollback. In `CompletedJob`, `SucceededRun`, `FailedJob` and
`FailedRun` only the columns the ORM writes change: this is why a late
completion of a recovered run fails (its `error_code` is still set).

`enqueue` and `heartbeat` have no caller in the program and are left out. What
the tasks made of an answer are is left out too: `materialized` says that they
exist.

### TaskLifecycle

`task`, `submission`, `evidence` and `log` are the tables `tasks`,
`task_completion_submissions`, `task_evidence` and `task_lifecycle_events`;
`attached` is the history of all evidence rows. `request` holds what members and
administrators ask. A request is sent (`Send`: for a message, what the handler
and the parser of the model's answer require of the task as it was then),
begins (`Begin`: the handler reads the clock), and is applied, replayed or refused
by one transaction that holds the write lock throughout (`Apply`, `Replay`,
`Refuse` are the outcomes of `apply_candidate`, `apply_private_review_action`,
`apply_card_action` and `apply_management_action`, which differ in `Role`,
`StatusFits` and `Fits`). Between two steps of a request anything may happen.
`Redeliver` is a card callback or page request that comes again under its id.
`Apply` ends with the synchronization of reminders, of which the overdue marking
and its audit event belong to this module. `Materialize` takes a whole batch in
one transaction, candidate after candidate on the board the last one left, or
nothing when one is ambiguous.

Left out: the order of a task's owners and the check that a new owner has a
confirmed name (all `Members` have one), publishers, descriptions, source rows
(they move as evidence does). Notes are in `Intake`. One chat.

### NotificationQueue

`row` is `task_notifications` by its unique key: the task, the member, the kind
and what `dedupe_key` is made of (the creation, the activation, a deadline or an
event). Reminders are planned by the transactions that change a task;
notifications, the notices of an assignment excepted, by every claim from what it
finds: `SyncedRows` is `_sync_all_in_session` row by row, and what happened since
is seen only through `event`, the tracked rows of the audit log beyond `cursor`
or in `deferred`. `Claim` commits rows, cursor and deferrals together or nothing.
Workers are those of `ReminderQueue`. `Act` is a tracked lifecycle action as far
as planning can tell; `ChangeChat` is a save of the policy, a change of
administrators or of the chat's admission, none of which touches a row. One chat.

### ChatAccess

`feishu` is what Feishu says of a group, which nobody reads but a fetch; a
refresh carries the snapshot it fetched in `pc` and `Apply`, which is
`apply_directory_snapshot`, writes it however old it is by then. `audit` keeps the
newest event of each person; `missed` is a history, whom a dismissal named in the
audit without striking his row, or struck in another's place (`MissedBy`): it
deletes by the id it read before (`Struck`), which another request may have
deleted, and SQLite given to a new row. `links` and `sessions` are the rows of
`management/auth.py`; `Consume` is the only transaction that locks before it
reads, the other operations are a read step, which decides, and a write step,
which applies what was decided to the rows of that moment: `ReadGrant` and
`WriteGrant`, `ReadRevoke` and `WriteRevoke`, `ReadName` and `WriteName`,
`ReadTicket` and `WriteTicket`, `ReadSave` and `WriteSave`. A row is found again
by its id, and the id of a deleted row may come back, as SQLite gives it.
`ExpireLink` and `ExpireSession` are the clock, at any moment. A write of a page is
`Request`, the refresh, `Authenticate` and then the operation.

Left out: hours and templates of the policy (the four fields stand for two that
are compared with each other and two that must agree), tokens and cookies, the
wording of refusals.

### Intake

`hand` is the message that the listener is at, with what its processor has read
so far; `stored`, `queued`, `replies` and `lost` say what became of each message.
A processor is a chain of steps, one for each transaction or call of the model:
`Begin` (the admitted groups), `Find` (the task), `Judge` (the sender), then the
model's answer and the transaction that judges everything again (`WriteNote`,
`WriteChange`). `PassedOn` is the order of the processors. Lists go by `ReadScope`,
`ReadAdmitted`, `AskPerson`, `Resolve` and `Show`. `pages` are the two forms that
write beside lifecycle actions; `answers` is what pages were told. `span` is
a history: the groups that the sender of the message in hand administered, at each
moment since it was taken up. `Act` and `Reassign` are what others do on the page or
with a card meanwhile. What the model answers is any answer that its parser accepts,
or none.

Left out: several codes or an invalid one in a message, corrections by message
(they are in `TaskLifecycle`), the limit of a list, pending tasks, reassignment by
message. Confirming, renaming and rescheduling on the page change nothing that is modelled here, and an
invalidation is a cancellation. A blocker, a delay and a general remark are written
like progress. A card that Feishu refuses is followed by a text
(`feishu/replies.py:72`); the two are one `Reply`, which arrives or is lost. Messages
with a code are private (`TextAssumption`), since the processors that know codes take
no others.

### DurableOutbox

Items move between none, pending, sent, dropped and dead; sent and dropped are
final; an item is recorded as sent only if it was taken. `ImplementsOutbox` maps
scheduled and leased to pending, a superseded row to dropped and every other
cancelled row to none. A dead item may turn out sent: a worker that read its
row before another buried it may still write.

### MessageBatches

A batch is known by the message it began with, as a job is by the message that
created it. It takes messages while it is open, is claimed, and ends done, dead or
cancelled; tasks are made of it only in the step that makes it done.
`ImplementsBatches` maps an absent job to none, a job that was never claimed to
open, and a running one, or one that waits for another attempt, to claimed: a
retry changes nothing that the chat can tell. The map is a step by step one for
one slot. With two, a worker that passed its check and is then overtaken gives a
job that was buried meanwhile another attempt.

### TaskBoard

A task is unknown, suspected, open, done or cancelled; it has a keeper (itself,
until it is merged), the number of its completions, and a verdict on each.
`Detect` finds tasks and becomes sure of them. Everything else is `Act`: a request
that acted never before does one thing to one task. A verdict can be given on the
latest completion only, and what was merged is not restored. `ImplementsBoard`
maps pending to suspected, todo and overdue to open, `merged_into_task_id` to the
keeper, and the requests in the audit log to those that acted; marking a task
overdue is invisible.

## 3. Checks

| run | asks | instance |
|---|---|---|
| `reminder_workers` | types, `LeasedFitsPlan`, `SentWasAccepted`, `ClaimsMostUrgent`, refinement of `DurableOutbox` | two workers, two stages that fall due an hour apart, leases of an hour, two attempts, a task that closes and reopens |
| `reminder_plan` | `PlanIsCovered` | one worker, two members, two deadlines, two policies; reassignment, rescheduling, refinement, cancellation |
| `reminder_live` | `DueIsSettled` | a crash, lease recovery and a retry within four instants, while the task is confirmed, completed, restored, cancelled or merged and commands plan and claim |
| `reminder_exhausted` | `WaitingHasAttempts` is violated | one attempt, a policy change while leased |
| `detection_workers` | types, `CompletedIsMaterialized`, `VerdictIsFinal` | two slots with a restart each, three attempts, an operator |
| `detection_live` | `RunningRunIsLeased`, `BatchIsAnalysed`, refinement of `MessageBatches`, `JobSettles` | two messages of any kind in any order and with silences, context limit 1, two attempts, a slot with three processes |
| `task_work` | types, `ReviewMatchesSubmission`, `AuditExplainsStatus`, `OverdueIsAudited`, refinement of `TaskBoard` | one task found without and with a deadline, two deadlines, three instants, three requests of eight kinds |
| `task_merge` | `MergesEnd`, `EvidenceFollowsMerge`, `RequestActsOnce`, refinement of `TaskBoard` | three duplicates over two messages, three requests, repeated deliveries, a change of administrators |
| `notification_plan` | types, `ToldOnce`, `ReadIsPlanned`, `MergedIsWithdrawn`, `ClaimsAuthorized`, `BackoffKept`, refinement of `DurableOutbox` | one task, two members, two policies, two faults or two events: reassignment, renaming, merge |
| `management_access` | types, `OneUsePerLink`, `LiveSessionIsExplained`, `AuditExplainsAdministrators`, `SavesTouchOnlyTheirFields` | two groups, two people, two rosters, one link, two threads, three appointments or dismissals |
| `management_last` | `DismissalsLeaveOne` is violated | two dismissals at once |
| `intake_requests` | types, `CommandsSettledOnce`, `ListsStayInScope`, `AnswersFit`, `NotesFollowCycles` | eight messages, six forms, two pages, three tasks in two groups |

`SentIsFinal` and `SupersededIsFinal` of `ReminderQueue` and `FrozenSubmissions` of
`TaskLifecycle` have no run: a sent or dropped item of the outbox stays what it
is, and the board judges the latest completion only, so that the refinements
say as much of what can be told from outside. Each has a theorem.

Why the bounds are enough. A late write needs two workers, one lease that
expires and one recovery; a second collapse or a second success needs two or
three attempts: the instances have these. Reminders of different tasks and
members meet only in the order of claims, in `MarkOverdue` and in the poison
row, so one task with two stages or deadlines shows the interplay, and a second
member the handover. Two messages with a context limit of one are the fewest
with a cut by the limit and one that is not cut. `Instants` bounds time: the
clock visits only the instants where something can fall due or expire, in order.
`MaxRuns` bounds restarts. Three requests are what the reviews need (complete,
reopen, complete again, against a verdict on the wrong submission) and what a
cycle of merges or a repeated action needs at least. `MaxCycles` bounds
completions, `MaxGrants` changes of administrators, `MaxEvents` tracked events.
Deadlock is not checked because an instance really stops: at the last instant,
with every process down after its last run, or when its budget is used.

`NotificationQueue`, `ChatAccess` and `Intake` have many kinds of step from
outside, and a behaviour that may take each of them once or twice is soon too long
to enumerate. `Budgets` bounds them: a behaviour starts with one of several
budgets, so that their state spaces add up instead of multiplying, and each budget
allows together what one hazard is made of. The notifications have planning
alone with two events and a change of the chat; a worker with two faults and a
change; a worker and an event. `ChatAccess` has refreshes and departures while
somebody signs in and is appointed or dismissed; two pages at once; a page while
members leave; names bound while members leave; three appointments or dismissals by
two threads with a sign-in, and two with a refresh and a departure, which is what it
takes for the id of a deleted row to come back under a dismissal that read it.
`Intake` has two deliveries with
a fault while roles change, or while others act; one with three acts, or with
three changes of roles; pages that repeat and meet a dismissal or a deadline; a message
and a page together. What others do (`acts`) includes reassigning a task.

The properties about one process at a time (`PlanIsCovered`,
`RunningRunIsLeased`, `MergedIsWithdrawn`, `ImplementsBatches`) are stated for one slot that crashes and restarts, as
deployed. With two workers a late `fail` breaks them: `_require_owned_lease` and
the update it guards are not one transaction (below).

Fairness. `Tick`, because time passes. `Work(w)`, the next step of a live
process: its loop polls for ever, the clients of Feishu and of the model have
timeouts, SQLite a `busy_timeout`. `Restart(w)`, because the supervisor restarts
a process that ended, while `MaxRuns` allows. Crashes, the operator, users and
administrators are never forced.

### Findings

1. `reminder_exhausted`: re-planning a leased row keeps its used-up attempts; the
   row waits, and the claim that takes it breaks the CHECK constraint and ends the
   worker, again after every restart. No chat gets reminders until the row is
   repaired.
2. `management_last`: `revoke` counts the administrators in one transaction and
   deletes in the next; two requests at once remove the last two, which each of
   them would refuse alone.

Met while modelling, and part of the models without a run of their own:

- The comment of `_require_owned_lease` says that an old worker is rejected once
  its row was re-leased. The check is not in the transaction that writes, so a
  worker that passed it before is not rejected; `MarkSentWrites` and `FailWrites`
  are written accordingly.
- `cancel_jobs` is documented as atomic; it reports a job as cancelled that a
  worker claimed in between (`CancelReads`, `CancelWrites`).
- Two saves at once, each acceptable alone, can leave the first offset at or
  below the second (`Acceptable` is judged by what was read).
- A dismissal deletes the row whose id it read in an earlier transaction. Two
  requests later that id may be somebody else's: he is struck, the audit names the
  person who was meant, and the sessions of the one struck stay open (`Struck`,
  `missed`). If the row is merely gone, the dismissal is recorded all the same, and
  an appointment made in between stands. `AuditExplainsAdministrators` and
  `LiveSessionIsExplained` except those people, and nobody else.
- A review confirmed by message carries no completion cycle: it is applied to
  whatever submission is current when it is written (`WriteChange`).
- A creation form that is sent again after its deadline is refused although its
  task exists (`Create`).

## 4. Proofs

`ReminderQueueProofs`, from the assumptions named in the modules, for any tasks,
members, deadlines, policies, workers, instants and limits:

| theorem | property |
|---|---|
| `TypeCorrect` | `Spec => []TypeOK` |
| `LeasedFits` | `Spec => []LeasedFitsPlan` |
| `SentAccepted` | `Spec => []SentWasAccepted` |
| `SentFinal` | `Spec => SentIsFinal` |
| `SupersededFinal` | `Spec => SupersededIsFinal` |

The inductive invariant is `Inv`: the type invariant, `LeasedFitsPlan`,
`SentWasAccepted` and `ReceiptWasAccepted`. The last one strengthens: a process
that carries a receipt carries it for a message that Feishu took, without which
`MarkSentWrites` could record anything. The proof has lemmas for the operators on
one row (what each returns and which fields it changes), for the passes of
`claim_due` (`SyncRow`, `RecoverLease`, the collapse), then one step per action.
The action properties follow from `Inv` and the same row lemmas. `SentIsFinal`
rests on the CHECK constraints: a late `fail` on a sent row would leave a
message id in a row that is not sent.

`ReminderOutboxProofs` proves `QueueImplementsOutbox`: `Spec => ImplementsOutbox`.
Initial states map to initial states, and a step maps to one delivery
(`TakenOneByOne`) or one commit. Two facts about rows make a commit one that the
outbox allows: `RowsMove`, what a transaction may make of a row that is not
final, and `KeepsFinal` for those that are. `SentWasAccepted` after the step is
what the outbox asks of an item recorded as sent. The invariant needs one more
conjunct, `HeldExist`: a process past `claim_due` works on a row that exists, or
its late update could bring a row into being as sent.

`ReminderPlanProofs`:

| theorem | property |
|---|---|
| `MostUrgentFirst` | `Spec => ClaimsMostUrgent` |
| `PlanCovered` | with one worker slot: `Spec => []PlanIsCovered` |

The first, for any number of workers, follows `claim_due` through its passes: a
row that survives the collapse as due has no more urgent row of its plan that is
due (`CollapseKeepsUrgent`), and the passes before it make no row superseded, so
what a claim gives up it gives up in that collapse. Every other step leases
nothing. The second is an invariant of row, task and policy taken together
(`RowCovered`, `Covers`), because a synchronization replaces all three, and it needs
`HeldAlive`: no other process buries the row that one is in hand of. With two
slots a late `fail` gives a row that was buried another try, although nothing may
want it any more.

`NotificationQueueProofs`, for any tasks, members, policies, events and workers:

| theorem | property |
|---|---|
| `TypeCorrect` | `Spec => []TypeOK` |
| `ClaimsAllowed` | `Spec => ClaimsAuthorized` |
| `BackoffHeld` | `Spec => BackoffKept` |
| `NotificationsImplementOutbox` | `Spec => ImplementsOutbox` |
| `ToldInOneRole` | `Spec => []ToldOnce` |
| `NoEventPassedOver` | `Spec => ReadIsPlanned` |
| `MergedWithdrawn` | with one worker slot: `Spec => []MergedIsWithdrawn` |

Two relations on a row carry the proof: `Synced`, what a synchronization may make
of it, and `Passes`, which also covers the recovery of leases. `TableMoves` says of
every step that it passes all rows, leases one, stores what a process decided, or
leaves the table. The types need `EventsBudgeted`, the refinement `HeldExist` and
`ReceiptsTaken` as for the reminders. For events, `EventRowsMove` shows that a step
either reads all of them or tells nobody of any; the invariant is that rows are
about events that were read, each in one role (`EventRowsFit`, from which nobody has
two). So what waits, behind the cursor or deferred, has no rows (`WaitsUntold`), the
step that reads it adds exactly the rows of those it concerns and those to alert
(`NewsOf`), and no later one adds or takes any (`ReadStep`). `BackoffKept` allows
for one thing besides later times: a process that decided on a retry before the row
was moved records its own time, which may be earlier than the new moment. The last
theorem needs that no other process buries the row that one is in hand of
(`HeldAlive`), hence one slot.

`DetectionQueueProofs`:

| theorem | property |
|---|---|
| `TypeCorrect` | `Spec => []TypeOK` |
| `CompletedMaterialized` | `Spec => []CompletedIsMaterialized` |
| `VerdictFinal` | `Spec => VerdictIsFinal` |
| `BatchAnalysed` | `Spec => BatchIsAnalysed` |
| `RunsLeased` | with one worker slot: `Spec => []RunningRunIsLeased` |
| `QueueImplementsBatches` | with one worker slot: `Spec => ImplementsBatches` |

Its invariant adds to the two properties what makes the rows that are
overwritten new: a job exists only once its message does, a run and a lease
belong to an attempt its job has counted, the run of a process before
`start_run` does not exist, and no two processes hold the same attempt
(`JobsFollowMessages`, `RunsAreCounted`, `LeasesAreCounted`, `LeasesDiffer`).
Without them `StartRun` might overwrite a run that has an outcome, and `Save` a
job that was completed. `Stepped` is the common part of all steps of a worker,
`Rewritten` that of the listener, the operator and the clock; the row lemmas
show that a late `complete` or `fail` either breaks a CHECK constraint or writes
what the rows already say.

`BatchAnalysed` holds for any number of workers. Its invariant `BatchInv` adds that
a batch holds messages of people that arrived since it began and none that comes
after its trigger (`BatchesFit`, which is what `LatestTrigger` has to keep when
messages arrive out of order), and that the trigger a worker carries is still the
one of its job (`TriggersHeld`: nothing joins a claimed batch). The context is then
a window that ends with the trigger, and a message of the batch is in it, or
`ContextLimit` newer ones are, or it was cut.

The last two hold for one slot, and `SlotInv` shows why: only a claim recovers and
only an idle process claims, so that the job a process is in hand of still runs for
the attempt it carries when the outcome is written (`JobHeld`). A second worker
can recover it in between. For the refinement each step maps to one step of
`MessageBatches`: `Save` to `Join` or to nothing, a claim with the jobs it buries to
`Claim`, the completion to `Succeed`, a last failure to the death of its batch, the
cancellation to `Withdraw`.

`TaskLifecycleProofs`, for any tasks, members, titles and relation `Similar`, any
set of batches and requests:

| theorem | property |
|---|---|
| `TypeCorrect` | `Spec => []TypeOK` |
| `ReviewsMatch` | `Spec => []ReviewMatchesSubmission` |
| `SubmissionsFrozen` | `Spec => FrozenSubmissions` |
| `MergesTerminate` | `Spec => []MergesEnd` |
| `EvidenceIsKept` | `Spec => []EvidenceFollowsMerge` |
| `RequestsActOnce` | `Spec => []RequestActsOnce` |
| `AuditExplains` | `Spec => []AuditExplainsStatus` |
| `OverdueAudited` | `Spec => []OverdueIsAudited` |
| `LifecycleImplementsBoard` | `Spec => ImplementsBoard` |

A batch passes through states that no transaction commits, so the invariant is
stated as predicates on tables (`RowsFit`, `MergesFit`, `ReviewsFit`, `LogFits`,
`OverduesFit`, `ExplainsFit`, `EvidenceFits`, together `Tables`) and not on the
variables. `WriteAndMark` says that a row written with its event, and marked
overdue in the same commit, keeps them when the row fits them; every candidate
of a batch and every transition of a request goes through it. What strengthens
the properties: an absent row is `NoTask` (a created task starts with no review,
no merge and no evidence), a submission exists exactly for the cycles a task has
had, an event marked overdue says overdue, and a request asks what its channel
offers (`AsksFit`: without it a merge might name no target).
Merges are stated over sets (every set of merged tasks has one that
leads out of it), which a proof can use for chains of any length.

`LifecycleImplementsBoard` rests on two facts. A detection run is a sequence of
candidates, each of which moves rows only from unknown to suspected or open and from
suspected to open; these moves compose (`MovesTwice`), so that the transaction is
one `Detect`. And an applied request makes of its task what its action says
(`TransitionMoves`), whatever the channel, because `Fits` was judged on the row that
the same transaction writes. A new verdict is on a completion that had none, which
is `ReviewFits`; a request that acts was in no event before, and an overdue event
adds none (`ActedAppended`, `ActedOverdue`). The marking that follows a transition
is invisible (`LifeMarked`).

`IntakeProofs`, for any chats, people, tasks, messages, forms and pages:

| theorem | property |
|---|---|
| `TypeCorrect` | `Spec => []TypeOK` |
| `CommandsSettled` | `Spec => []CommandsSettledOnce` |
| `ListsInScope` | `Spec => ListsStayInScope` |
| `AnswersTrue` | `Spec => []AnswersFit` |
| `NotesInOrder` | `Spec => []NotesFollowCycles` |

Each table has its own part of the invariant, which a step of another table
preserves because tables only grow (`TasksGrow`, `NotesGrow`, `CreationsGrow`,
`SpanGrows`). What strengthens the properties: `HandFit`, what the message in hand
has passed (it is stored, neither answered, lost nor queued, and its scope lies in
what its sender administered at one recorded moment); `Recorded`, that what he
administers now is always among those moments, without which a scope read now
would be nobody's; `OnRecord`, that the record a page is about to
read back is the one its form made; and that request ids are unique. `StartAssumption`
says that a task which
starts out done has been submitted and not rejected, as every completed task has.

`ChatAccessProofs`, for any people, threads, columns and limits:

| theorem | property |
|---|---|
| `TypeCorrect` | `Spec => []TypeOK` |
| `LinksSignInOnce` | `Spec => []OneUsePerLink` |
| `SavesTouchTheirs` | `Spec => SavesTouchOnlyTheirFields` |
| `AuditAccounts` | `Spec => []AuditExplainsAdministrators` |
| `LeaversSignedOut` | `Spec => []LiveSessionIsExplained` |

`NextMoves` says once which operations change which table, so that each table has
a step lemma of its own. Ids are where the proofs need an argument: rows
are numbered beyond the highest id of the table, which exists because ids are
bounded (`Highest`), so that a new id is new (`FreshId`) and a row found by its
id is the one row with it. `OneUsePerLink` rests on there being, for every
session, a consumed link of its own. `SavesTouchOnlyTheirFields` rests on what a
save carries between its read and its write being made by its own request
(`PlacesFit`). The last two hold for any number of refreshes, grants and revocations
under way at once. Their invariant is `Explained`, both properties together, since a
session that outlives an administration is explained by what the audit says of it.
A dismissal strikes by id the row of the person it is about, nobody's, or that of
somebody appointed since; whoever loses or keeps a row otherwise than the audit then
says is in `missed` (`RevokeAdmins`), and who was accounted for stays so
(`StaysAccounted`).

Every safety property and every refinement that a passing run checks is proved.
Only model-checked are `DueIsSettled` and `JobSettles`: TLAPS has no rules for
liveness under fairness. What the theorems do not say is what they assume:
`PlanCovered`, `MergedWithdrawn`, `RunsLeased` and `QueueImplementsBatches` are about
one worker slot, and each is false beyond that.

## 5. Not modelled, and what is left

Not modelled, because they compute outputs from inputs and keep no state that the
properties could be about: prompts and the parsing of model answers, HTTP
clients, cards and texts, web pages and read models, configuration, migrations,
deployment scripts, the development supervisor.

Left for later:

1. Compositions: `TaskLifecycle` with both queues in one state space, detection
   with materialization. Each module now contains the operations of the others
   that touch its rows.
2. The re-planning of every task that saving a policy does, together with the
   concurrent saves of `ChatAccess`.
3. What remains true of the properties about one slot when several workers run.
