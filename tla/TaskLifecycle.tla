--------------------------- MODULE TaskLifecycle ---------------------------
(***************************************************************************)
(* The tasks of one chat and everything that changes them: detection runs  *)
(* that create or refine them (src/app/tasks/repository.py), the reminder  *)
(* worker that marks them overdue, and the members and administrators who  *)
(* act on them by message, by private review, by card and on the           *)
(* management page (src/app/lifecycle/mutations.py), with the audit log    *)
(* and the completion submissions under review.                            *)
(*                                                                         *)
(* A request lives through three steps that others interleave with: it is  *)
(* sent (for a message: the handler read the task and asked the model), a  *)
(* handler takes the time it will be applied at, and one transaction,      *)
(* which waits for the write lock, applies or refuses it.  Cards and the   *)
(* page may deliver a request again, under the same id.                    *)
(*                                                                         *)
(* What the same transactions plan in task_reminders and                   *)
(* task_notifications is the subject of the modules of those queues.       *)
(***************************************************************************)
EXTENDS Integers, FiniteSets, Sequences

CONSTANTS
    Tasks,        \* ids the tasks of the chat can get
    Members,      \* members of the chat with a confirmed task name
    Deadlines,    \* deadlines a task can be given
    Titles,       \* normalized titles
    Similar,      \* pairs of titles that _titles_are_likely_refinement accepts
    Messages,     \* messages that can be evidence
    Batches,      \* what a detection run may find: sequences of candidates
    Requests,     \* trigger message, callback and page request ids
    Kinds,        \* (channel, action) pairs the instance exercises
    Instants,     \* the instants the clock visits: the bound on time
    MaxGrants,    \* bound: changes of the administrators
    MaxCycles,    \* bound: completions of one task
    None          \* SQL NULL

Channels == {"message", "review", "card", "page"}

(* MODEL_LIFECYCLE_ACTIONS, and what each of the other channels accepts. *)
ChannelActions ==
    [message |-> {"complete", "cancel", "reschedule", "rename", "reassign", "invalidate"},
     review  |-> {"accept", "reopen"},
     card    |-> {"complete", "cancel", "reschedule"},
     page    |-> {"confirm", "complete", "accept", "reopen", "cancel", "invalidate",
                  "reschedule", "rename", "reassign", "restore", "merge"}]

AllActions == UNION {ChannelActions[c] : c \in Channels}

Candidate == [owners : (SUBSET Members) \ {{}}, deadline : Deadlines \cup {None},
              title : Titles, messages : (SUBSET Messages) \ {{}},
              confident : BOOLEAN, surer : BOOLEAN]

ASSUME TimeAssumption  == Deadlines \subseteq Int /\ Instants \subseteq Int
ASSUME NullAssumption  == None \notin Tasks \cup Deadlines \cup Titles \cup Requests
ASSUME KindAssumption  ==
    \A k \in Kinds : k[1] \in Channels /\ k[2] \in ChannelActions[k[1]]
ASSUME BatchAssumption == Batches \subseteq [1..1 -> Candidate] \cup [1..2 -> Candidate]
ASSUME BoundAssumption == MaxCycles \in Nat /\ MaxGrants \in Nat

VARIABLES
    now,            \* the clock every process of the host reads
    administrators, \* administrators of the chat
    task,           \* the tasks table
    submission,     \* task_completion_submissions, by task and cycle
    evidence,       \* task_evidence, by task
    log,            \* task_lifecycle_events, in the order of their ids
    request,        \* what was asked, by id
    grants,         \* bound: changes of the administrators left
    attached        \* history: evidence rows ever written, as (message, task)

vars == <<now, administrators, task, submission, evidence, log, request, grants,
          attached>>

-----------------------------------------------------------------------------
(* Rows. *)

Statuses == {"pending", "todo", "overdue", "done", "cancelled"}
Reviews == {"none", "pending", "accepted", "rework_required"}
Cycles == 1..MaxCycles

TaskRow == [status : Statuses \cup {"absent"}, deadline : Deadlines \cup {None},
            owners : SUBSET Members, title : Titles \cup {None},
            review : Reviews, cycle : 0..MaxCycles, into : Tasks \cup {None}]

NoTask == [status |-> "absent", deadline |-> None, owners |-> {}, title |-> None,
           review |-> "none", cycle |-> 0, into |-> None]

Event == [request : Requests \cup {None}, task : Tasks,
          action : AllActions \cup {"overdue"},
          actor : Members \cup {None}, role : {"owner", "administrator", "system"},
          before : Statuses, after : Statuses, deadline : Deadlines \cup {None},
          cycle : 0..MaxCycles]

(* A request, where its last delivery is, and the time its handler took. *)
Ask == [channel : Channels, action : AllActions, actor : Members, task : Tasks,
        deadline : Deadlines \cup {None}, owners : SUBSET Members,
        title : Titles \cup {None}, target : Tasks \cup {None},
        place : {"sent", "begun", "answered"}, at : Instants \cup {None}]

Open(tk) == tk.status \in {"todo", "overdue"}

Late(tk, at) == tk.deadline # None /\ tk.deadline <= at

-----------------------------------------------------------------------------
(* _mark_overdue_with_audit, which every synchronization of a task's reminders
   begins with: at most one event for one deadline. *)

\* Mutant: at most one event for one task.
LogsAny(events, t, d) ==
    \E i \in DOMAIN events : events[i].task = t /\ events[i].action = "overdue"

Logs(events, t, d) ==
    \E i \in DOMAIN events : /\ events[i].task = t /\ events[i].action = "overdue"
                             /\ events[i].deadline = d

OverdueEvent(t, tk) ==
    [request |-> None, task |-> t, action |-> "overdue", actor |-> None,
     role |-> "system", before |-> "todo", after |-> "overdue",
     deadline |-> tk.deadline, cycle |-> tk.cycle]

FallsDue(tk, at) == tk.status = "todo" /\ Late(tk, at)

MarkedOverdue(tk, at) ==
    IF FallsDue(tk, at) THEN [tk EXCEPT !.status = "overdue"] ELSE tk

LoggedOverdue(events, t, tk, at) ==
    IF FallsDue(tk, at) /\ ~Logs(events, t, tk.deadline)
    THEN Append(events, OverdueEvent(t, tk))
    ELSE events

(* The reminder worker's cycle reaches the task. *)
MarkOverdue(t) ==
    /\ FallsDue(task[t], now)
    /\ task' = [task EXCEPT ![t] = MarkedOverdue(task[t], now)]
    /\ log' = LoggedOverdue(log, t, task[t], now)
    /\ UNCHANGED <<now, administrators, submission, evidence, request, grants, attached>>

-----------------------------------------------------------------------------
(* Materialization of one detection run: all of its candidates, or nothing. *)

Board == [task |-> task, evidence |-> evidence, log |-> log]

(* A task without a deadline may be the candidate that now has one. *)
Refines(tk, c) == tk.deadline = None /\ c.deadline # None

(* _find_existing_task and _candidate_matches_existing_task. *)
Matches(b, c) ==
    {t \in Tasks :
        LET tk == b.task[t]
        IN  /\ b.evidence[t] \cap c.messages # {}
            /\ tk.deadline = c.deadline \/ Refines(tk, c)
            /\ tk.owners = c.owners
            /\ Refines(tk, c) => tk.status \in {"pending", "todo"}
            /\ \/ tk.title = c.title
               \/ Refines(tk, c) /\ <<tk.title, c.title>> \in Similar}

Created(c) ==
    [NoTask EXCEPT !.status = IF c.confident THEN "todo" ELSE "pending",
                   !.deadline = c.deadline, !.owners = c.owners, !.title = c.title]

(* _refine_existing_task, then the activation of a pending task. *)
Refined(tk, c) ==
    LET refines == Refines(tk, c) /\ tk.status \in {"pending", "todo"}
    IN  [tk EXCEPT
            !.deadline = IF refines THEN c.deadline ELSE tk.deadline,
            !.title = IF refines /\ c.surer THEN c.title ELSE tk.title,
            !.status = IF tk.status = "pending" /\ c.confident THEN "todo"
                                                              ELSE tk.status]

(* The boards one candidate can lead to: none when it is ambiguous. *)
After(b, c) ==
    LET found == Matches(b, c)
        free == {t \in Tasks : b.task[t].status = "absent"}
        Stored(t, tk) ==
            [task |-> [b.task EXCEPT ![t] = MarkedOverdue(tk, now)],
             evidence |-> [b.evidence EXCEPT ![t] = b.evidence[t] \cup c.messages],
             log |-> LoggedOverdue(b.log, t, tk, now)]
    IN  IF found = {} THEN {Stored(t, Created(c)) : t \in free}
        ELSE IF Cardinality(found) = 1 THEN {Stored(t, Refined(b.task[t], c)) : t \in found}
        ELSE {}

Materialize(batch) ==
    /\ \E first \in After(Board, batch[1]) :
       \E b \in IF Len(batch) = 1 THEN {first} ELSE After(first, batch[2]) :
            /\ task' = b.task /\ evidence' = b.evidence /\ log' = b.log
            /\ attached' = attached \cup
                   UNION {(b.evidence[t] \ evidence[t]) \X {t} : t \in Tasks}
    /\ UNCHANGED <<now, administrators, submission, request, grants>>

-----------------------------------------------------------------------------
(* Sending.  A card or a page may show a task as it was long ago; a message is
   turned into a candidate that fits the task as its handler read it. *)

Values(action, t) ==
    CASE action = "reschedule" ->
            [deadline : Deadlines, owners : {{}}, title : {None}, target : {None}]
      [] action = "reassign" ->
            [deadline : {None}, owners : (SUBSET Members) \ {{}}, title : {None},
             target : {None}]
      [] action = "rename" ->
            [deadline : {None}, owners : {{}}, title : Titles, target : {None}]
      [] action = "merge" ->
            [deadline : {None}, owners : {{}}, title : {None}, target : Tasks]
      [] OTHER ->
            [deadline : {None}, owners : {{}}, title : {None}, target : {None}]

Corrections == {"rename", "reassign", "invalidate", "reopen"}

(* PrivateLifecycleCommandProcessor.handle and the parser of the answer. *)
ReadAsCommand(action, actor, tk, v) ==
    /\ Open(tk)
    /\ actor \in tk.owners \cup administrators
    /\ action \in Corrections => actor \in administrators
    /\ action = "reschedule" => v.deadline > now /\ v.deadline # tk.deadline
    /\ action = "rename" => v.title # tk.title
    /\ action = "reassign" => v.owners # tk.owners

(* PrivateReviewCommandProcessor.handle and the parser of the answer. *)
ReadAsReview(action, actor, tk) ==
    /\ tk.status = "done" /\ tk.cycle >= 1
    /\ tk.review \in (IF action = "accept" THEN {"pending"} ELSE {"pending", "accepted"})
    /\ actor \in administrators

Send(r) ==
    /\ request[r] = None
    /\ \E k \in Kinds, actor \in Members, t \in Tasks :
       \E v \in Values(k[2], t) :
          /\ task[t].status # "absent"
          /\ k[1] = "message" => ReadAsCommand(k[2], actor, task[t], v)
          /\ k[1] = "review" => ReadAsReview(k[2], actor, task[t])
          /\ request' = [request EXCEPT ![r] =
                [channel |-> k[1], action |-> k[2], actor |-> actor, task |-> t,
                 deadline |-> v.deadline, owners |-> v.owners, title |-> v.title,
                 target |-> v.target,
                 place |-> "sent", at |-> None]]
    /\ UNCHANGED <<now, administrators, task, submission, evidence, log, grants, attached>>

At(r, place) == request[r] # None /\ request[r].place = place

(* The handler reads the clock before it waits for the write lock. *)
Begin(r) ==
    /\ At(r, "sent")
    /\ request' = [request EXCEPT ![r] = [request[r] EXCEPT !.place = "begun", !.at = now]]
    /\ UNCHANGED <<now, administrators, task, submission, evidence, log, grants, attached>>

(* The answer was late or lost, or the handler died: a card callback and a page
   request come again.  A message does not: its row marks it as a duplicate. *)
Redeliver(r) ==
    /\ At(r, "begun") \/ At(r, "answered")
    /\ request[r].channel \in {"card", "page"}
    /\ request' = [request EXCEPT ![r] = [request[r] EXCEPT !.place = "sent", !.at = None]]
    /\ UNCHANGED <<now, administrators, task, submission, evidence, log, grants, attached>>

-----------------------------------------------------------------------------
(* The transaction. *)

\* Mutant: only the latest event of the log is compared.
AppliedLast(r) == Len(log) > 0 /\ log[Len(log)].request = r

(* The event that already carries the request's id: the lookup and the unique
   keys of task_lifecycle_events. *)
AppliedAt(r) == {i \in DOMAIN log : log[i].request = r}

Applied(r) == AppliedAt(r) # {}

(* _authorize and _is_administrator. *)
Role(q, tk) ==
    IF /\ q.channel \in {"message", "card"} /\ q.action \notin Corrections
       /\ q.actor \in tk.owners
    THEN "owner" ELSE "administrator"

Authorized(q, tk) == Role(q, tk) = "owner" \/ q.actor \in administrators

(* _actionable_status and _management_previous_status. *)
StatusFits(q, tk) ==
    IF q.channel \in {"message", "card"} THEN Open(tk)
    ELSE CASE q.action = "confirm" -> tk.status = "pending"
           [] q.action = "invalidate" -> tk.status = "pending" \/ Open(tk)
           [] q.action = "accept" ->
                 tk.status = "done" /\ tk.review = "pending" /\ tk.cycle >= 1
           [] q.action = "reopen" ->
                 /\ tk.status = "done" /\ tk.cycle >= 1
                 /\ tk.review \in {"pending", "accepted"}
           [] q.action = "restore" -> tk.status \in {"done", "cancelled"}
           [] q.action = "merge" ->
                 tk.status \in {"pending", "todo", "overdue", "done"}
           [] OTHER -> Open(tk)

\* Mutant: a merged duplicate can be restored.
FitsWhenMerged(q, tk) == StatusFits(q, tk)

Fits(q, tk) ==
    /\ q.channel = "page" /\ q.action # "merge" => tk.into = None
    /\ StatusFits(q, tk)

\* Mutant: the target of a merge may be merged itself.
MergeableAnywhere(q, tk) == q.target # q.task /\ tk.into = None

(* The guards of apply_management_action on a merge. *)
Mergeable(q, tk) ==
    /\ q.target # q.task
    /\ task[q.target].status \notin {"absent", "cancelled"}
    /\ task[q.target].into = None
    /\ tk.into = None

(* The conditions of _apply_transition, _apply_reassignment and
   _record_lifecycle_audit on the values and the submission. *)
Possible(q, tk) ==
    /\ q.action = "merge" => Mergeable(q, tk)
    /\ q.action = "reschedule" => q.deadline > q.at /\ q.deadline # tk.deadline
    /\ q.action = "rename" => q.title # tk.title
    /\ q.action = "reassign" => q.owners # tk.owners
    /\ q.action = "accept" => submission[<<q.task, tk.cycle>>] = "pending"
    /\ q.action = "reopen" => submission[<<q.task, tk.cycle>>] \in {"pending", "accepted"}

Acceptable(q, tk) == Authorized(q, tk) /\ Fits(q, tk) /\ Possible(q, tk)

Reopened(tk, at) == IF Late(tk, at) THEN "overdue" ELSE "todo"

\* Mutant: restoring a task takes its last completion back.
TransitionUncounting(q, tk) ==
    CASE q.action = "complete" ->
            [tk EXCEPT !.status = "done", !.review = "pending", !.cycle = tk.cycle + 1]
      [] q.action = "accept" -> [tk EXCEPT !.review = "accepted"]
      [] q.action = "reopen" ->
            [tk EXCEPT !.status = Reopened(tk, q.at), !.review = "rework_required"]
      [] q.action = "restore" ->
            [tk EXCEPT !.status = Reopened(tk, q.at), !.cycle = tk.cycle - 1]
      [] OTHER -> [tk EXCEPT !.status = "cancelled"]

(* _apply_transition and the task's part of _record_lifecycle_audit. *)
Transition(q, tk) ==
    CASE q.action = "confirm" -> [tk EXCEPT !.status = "todo"]
      [] q.action = "complete" ->
            [tk EXCEPT !.status = "done", !.review = "pending", !.cycle = tk.cycle + 1]
      [] q.action = "accept" -> [tk EXCEPT !.review = "accepted"]
      [] q.action = "reopen" ->
            [tk EXCEPT !.status = Reopened(tk, q.at), !.review = "rework_required"]
      [] q.action = "restore" -> [tk EXCEPT !.status = Reopened(tk, q.at)]
      [] q.action \in {"cancel", "invalidate"} -> [tk EXCEPT !.status = "cancelled"]
      [] q.action = "merge" -> [tk EXCEPT !.status = "cancelled", !.into = q.target]
      [] q.action = "reschedule" -> [tk EXCEPT !.status = "todo", !.deadline = q.deadline]
      [] q.action = "rename" -> [tk EXCEPT !.title = q.title]
      [] q.action = "reassign" -> [tk EXCEPT !.owners = q.owners]

Verdict == [complete |-> "pending", accept |-> "accepted", reopen |-> "rework_required"]

\* Mutant: a verdict is written on every submission of the task.
SubmittedOnAll(q, tk) ==
    [s \in Tasks \X Cycles |->
        IF /\ q.action \in DOMAIN Verdict /\ s[1] = q.task
           /\ s[2] = Transition(q, tk).cycle \/ submission[s] # "none"
        THEN Verdict[q.action] ELSE submission[s]]

(* The submission's part: a new one, or the verdict on the current one. *)
Submitted(q, tk) ==
    IF q.action \in DOMAIN Verdict
    THEN [submission EXCEPT ![<<q.task, Transition(q, tk).cycle>>] = Verdict[q.action]]
    ELSE submission

\* Mutant: the previous status is read from the row after the transition.
LifecycleEventRereading(r, q, tk) ==
    [request |-> r, task |-> q.task, action |-> q.action, actor |-> q.actor,
     role |-> Role(q, tk), before |-> Transition(q, tk).status,
     after |-> Transition(q, tk).status,
     deadline |-> Transition(q, tk).deadline, cycle |-> Transition(q, tk).cycle]

LifecycleEvent(r, q, tk) ==
    [request |-> r, task |-> q.task, action |-> q.action, actor |-> q.actor,
     role |-> Role(q, tk), before |-> tk.status, after |-> Transition(q, tk).status,
     deadline |-> Transition(q, tk).deadline, cycle |-> Transition(q, tk).cycle]

\* Mutant: the evidence stays with the task that was merged.
EvidenceKept(q) == evidence

(* _merge_task_provenance. *)
MovedEvidence(q) ==
    IF q.action = "merge"
    THEN [evidence EXCEPT ![q.target] = evidence[q.target] \cup evidence[q.task],
                          ![q.task] = {}]
    ELSE evidence

Answer(r) ==
    request' = [request EXCEPT ![r] = [request[r] EXCEPT !.place = "answered", !.at = None]]

Apply(r) ==
    /\ At(r, "begun") /\ ~Applied(r)
    /\ request[r].action = "complete" => task[request[r].task].cycle < MaxCycles
    /\ LET q == request[r]
           tk == task[q.task]
           next == Transition(q, tk)
       IN  /\ Acceptable(q, tk)
           /\ task' = [task EXCEPT ![q.task] = MarkedOverdue(next, q.at)]
           /\ submission' = Submitted(q, tk)
           /\ evidence' = MovedEvidence(q)
           /\ log' = LoggedOverdue(Append(log, LifecycleEvent(r, q, tk)), q.task, next, q.at)
           /\ Answer(r)
           /\ attached' = attached \cup
                  UNION {(evidence'[t] \ evidence[t]) \X {t} : t \in Tasks}
    /\ UNCHANGED <<now, administrators, grants>>

(* The request was applied before: the answer is that of the first time, or a
   refusal when the actor's authority is no longer what it was; nothing changes. *)
Replay(r) ==
    /\ At(r, "begun") /\ Applied(r)
    /\ Answer(r)
    /\ UNCHANGED <<now, administrators, task, submission, evidence, log, grants, attached>>

Refuse(r) ==
    /\ At(r, "begun") /\ ~Applied(r)
    /\ ~Acceptable(request[r], task[request[r].task])
    /\ Answer(r)
    /\ UNCHANGED <<now, administrators, task, submission, evidence, log, grants, attached>>

-----------------------------------------------------------------------------
(* Grants, revocations, and departures from the chat. *)
ChangeAdministrators ==
    /\ grants > 0
    /\ \E m \in Members :
          administrators' = IF m \in administrators THEN administrators \ {m}
                                                    ELSE administrators \cup {m}
    /\ grants' = grants - 1
    /\ UNCHANGED <<now, task, submission, evidence, log, request, attached>>

Tick ==
    /\ now' \in {i \in Instants : i > now /\ \A j \in Instants : j <= now \/ j >= i}
    /\ UNCHANGED <<administrators, task, submission, evidence, log, request, grants,
                   attached>>

-----------------------------------------------------------------------------
Init ==
    /\ now \in {i \in Instants : \A j \in Instants : i <= j}
    /\ administrators \in SUBSET Members
    /\ task = [t \in Tasks |-> NoTask]
    /\ submission = [s \in Tasks \X Cycles |-> "none"]
    /\ evidence = [t \in Tasks |-> {}]
    /\ log = << >>
    /\ request = [r \in Requests |-> None]
    /\ grants = MaxGrants
    /\ attached = {}

Handle(r) ==
    Send(r) \/ Begin(r) \/ Redeliver(r) \/ Apply(r) \/ Replay(r) \/ Refuse(r)

Next ==
    \/ Tick
    \/ ChangeAdministrators
    \/ \E t \in Tasks : MarkOverdue(t)
    \/ \E batch \in Batches : Materialize(batch)
    \/ \E r \in Requests : Handle(r)

Spec == Init /\ [][Next]_vars

-----------------------------------------------------------------------------
(* Types, with the table's CHECK constraints: merged_at and merged_into_task_id
   come with a cancelled status, a submission with its cycle. *)
TypeOK ==
    /\ now \in Instants
    /\ administrators \subseteq Members
    /\ task \in [Tasks -> TaskRow]
    /\ submission \in [Tasks \X Cycles -> Reviews]
    /\ evidence \in [Tasks -> SUBSET Messages]
    /\ log \in Seq(Event)
    /\ request \in [Requests -> Ask \cup {None}]
    /\ grants \in 0..MaxGrants
    /\ attached \subseteq Messages \X Tasks

(* The review a task shows is the review of the submission of its current
   completion cycle, on whatever path the cycle was reached (a task may be
   restored, cancelled or merged while its submission waits), and a completed
   task is one whose submission waits or was accepted. *)
ReviewMatchesSubmission ==
    \A t \in Tasks :
        LET tk == task[t]
        IN  /\ tk.cycle = 0 => tk.review = "none"
            /\ tk.cycle > 0 => submission[<<t, tk.cycle>>] = tk.review
            /\ tk.status = "done" => tk.cycle > 0 /\ tk.review \in {"pending", "accepted"}
            /\ \A c \in Cycles : submission[<<t, c>>] # "none" <=> c <= tk.cycle

(* A submission is written for the current cycle only: the verdict on an earlier
   completion stays what it was ("Immutable evidence snapshot for one
   completion cycle"). *)
FrozenSubmissions ==
    [][\A t \in Tasks, c \in Cycles :
          submission'[<<t, c>>] # submission[<<t, c>>] => c = task'[t].cycle]_vars

Merged == {t \in Tasks : task[t].into # None}

(* Following merges from any task ends at one that was not merged: no set of
   merged tasks refers only to itself.  And a merged task is over: cancelled for
   good, without evidence, so that no later detection run or request finds it. *)
MergesEnd ==
    /\ \A S \in SUBSET Merged : S # {} => \E t \in S : task[t].into \notin S
    /\ \A t \in Merged : task[t].status = "cancelled" /\ evidence[t] = {}

(* The tasks reached from t by following merges, t among them. *)
Reached(t) ==
    {u \in Tasks : \A S \in SUBSET Tasks :
        (t \in S /\ \A v \in S : task[v].into # None => task[v].into \in S) => u \in S}

(* No evidence is lost: a message attached to a task is evidence of the task that
   is retained after every merge since. *)
EvidenceFollowsMerge ==
    \A a \in attached :
        \E u \in Reached(a[2]) \ Merged : a[1] \in evidence[u]

(* One request leaves at most one event, however often it is delivered and
   whatever happened between its deliveries. *)
RequestActsOnce ==
    \A i, j \in DOMAIN log :
        log[i].request # None /\ log[i].request = log[j].request => i = j

EventsOf(t) == {i \in DOMAIN log : log[i].task = t}

(* The statuses in a task's events form a chain that ends in its status, but for
   the two changes the code makes without an event: a detection run activates
   a pending task, and a task returns to a deadline it already missed. *)
Follows(t, before, after) ==
    \/ after = before
    \/ before = "pending" /\ after \in {"todo", "overdue"}
    \/ before = "todo" /\ after = "overdue"
          /\ \E i \in EventsOf(t) : log[i].action = "overdue"

AuditExplainsStatus ==
    \A t \in Tasks :
        /\ \A i, j \in EventsOf(t) :
              i < j /\ (\A k \in EventsOf(t) : k <= i \/ k >= j)
                  => Follows(t, log[i].after, log[j].before)
        /\ \A i \in EventsOf(t) :
              (\A k \in EventsOf(t) : k <= i) => Follows(t, log[i].after, task[t].status)

(* A task is overdue only with an event that says so for its current deadline:
   of the system, or of the request that brought it back late. *)
OverdueIsAudited ==
    \A t \in Tasks :
        task[t].status = "overdue" =>
            \E i \in EventsOf(t) : log[i].after = "overdue"
                                   /\ log[i].deadline = task[t].deadline

-----------------------------------------------------------------------------
(* What a task is to the members of the chat. *)
LifeOf(tk) ==
    CASE tk.status = "absent"  -> "none"
      [] tk.status = "pending" -> "suspected"
      [] Open(tk)              -> "open"
      [] OTHER                 -> tk.status

Shown == INSTANCE TaskBoard WITH
    Rounds <- Cycles,
    life <- [t \in Tasks |-> LifeOf(task[t])],
    keeper <- [t \in Tasks |-> IF task[t].into = None THEN t ELSE task[t].into],
    rounds <- [t \in Tasks |-> task[t].cycle],
    verdict <- submission,
    acted <- {log[i].request : i \in DOMAIN log} \ {None}

(* The tasks implement the abstract board, whichever channel a request comes by, how
   often it is delivered and what happens before its transaction gets the lock: each
   request takes one step that the board allows, once; detection and the marking of
   overdue tasks end nothing; a verdict is about the latest completion, and those on
   earlier ones are frozen; what was merged stays with the task that was kept. *)
ImplementsBoard == Shown!Spec
=============================================================================
