------------------------------- MODULE Intake -------------------------------
(***************************************************************************)
(* What people ask of the tasks, and when it takes effect: the listener's  *)
(* way from a message to its answer (feishu/receiver.py,                   *)
(* ingestion/service.py, tasks/commands.py, lifecycle/review_commands.py,  *)
(* tasks/note_commands.py, lifecycle/private_commands.py), and the two     *)
(* forms of the management page that write beside lifecycle actions:       *)
(* creating a task (tasks/manual_creation.py) and adding a note            *)
(* (tasks/notes.py, management/web.py).                                    *)
(*                                                                         *)
(* The listener takes one message at a time; every request of the page has *)
(* a thread.  A processor reads who may do what, and the task, in several  *)
(* transactions, asks the language model for as long as that takes, and    *)
(* writes in a transaction that holds the write lock.  In between,         *)
(* administrators come and go and the task is worked on.                   *)
(*                                                                         *)
(* Names, group commands and login links are in ChatAccess, every          *)
(* lifecycle action and its audit in TaskLifecycle.                        *)
(***************************************************************************)
EXTENDS Integers, Sequences, FiniteSets

CONSTANTS
    Chats,      \* enabled groups
    People,     \* open_ids
    Names,      \* names that a question can be about
    Texts,      \* message_ids
    Forms,      \* what pages can send
    Threads,    \* request threads of the management server
    Text,       \* what each message says
    Called,     \* the confirmed names in each group
    FirstTasks, \* the tasks to start with
    Founders,   \* administrators, <<chat, open_id>>, to start with
    Trusted,    \* FEISHU_TASK_ADMIN_OPEN_IDS
    Allowed,    \* FEISHU_ALLOWED_CHAT_IDS; none is no limit
    Detecting,  \* groups whose policy enables detection
    MaxCycles,  \* bound: completions of one task
    Budgets     \* bound: what a behaviour may use, one of these

(* A message: in a group, or private; ordinary talk, the list command, a question
   in words, or one task code with something about the task.  The processors of task
   codes know only private messages for their own: in a group a code is talk. *)
Message == [by : People, chat : {{}} \cup {{c} : c \in Chats},
            kind : {"talk", "list", "ask", "code"}, task : Nat, about : SUBSET Names,
            marks : SUBSET {"note", "confirmed", "mine"}]

(* What the answer of the model about a note can be, once it has been checked; a
   blocker, a delay and a general remark are written like progress, a correction
   like a reopening. *)
NoteKinds == {"progress", "completion", "reopen"}

(* What a question can be taken for: "none" stands for every answer of the model
   that is not usable or not sure enough. *)
Intents == {"none", "self", "all", "person"}

(* A form, with the request_id the page made for it; "says" stands for its words and
   its order of owners. *)
Creation == [what : {"create"}, request : Nat, by : People, chat : Chats, says : Nat,
             due : BOOLEAN, owners : (SUBSET People) \ {{}}]
NoteForm == [what : {"note"}, request : Nat, by : People, chat : Chats, says : Nat,
             task : Nat, kind : NoteKinds]

TaskRow == [chat : Chats, owners : SUBSET People, cycle : 0..MaxCycles,
            status : {"open", "done", "cancelled", "merged"},
            review : {"none", "pending", "accepted", "rework_required"}]

Budget == [deliveries : Nat, posts : Nat, faults : Nat, changes : Nat, acts : Nat,
           clocks : Nat]

ASSUME TextAssumption    ==
    Text \in [Texts -> Message] /\ \A m \in Texts : Text[m].kind = "code" => Text[m].chat = {}
ASSUME FormAssumption    == Forms \subseteq Creation \cup NoteForm
ASSUME NameAssumption    == Called \in [Chats -> [People -> SUBSET Names]]
ASSUME SettingAssumption == /\ Trusted \subseteq People /\ Allowed \subseteq Chats
                            /\ Detecting \subseteq Chats
ASSUME StartAssumption   ==
    /\ FirstTasks \in Seq(TaskRow) /\ Founders \subseteq Chats \X People
    /\ \A t \in DOMAIN FirstTasks :
          FirstTasks[t].status = "done" => FirstTasks[t].review \in {"pending", "accepted"}
ASSUME BoundAssumption   == MaxCycles \in Nat /\ Budgets \subseteq Budget

VARIABLES
    members,    \* active members of each group
    admins,     \* chat_administrators
    tasks,      \* the tasks table, in the order of its ids
    notes,      \* task_notes
    creations,  \* task_creation_events
    stored,     \* the messages table
    queued,     \* messages that a detection job was asked for
    hand,       \* the message the listener is at, with what it read
    replies,    \* what the bot answered
    lost,       \* stored messages whose answer was lost, or never made
    pages,      \* what each request thread is about to do
    answers,    \* what pages were told is done
    passed,     \* the deadline of the forms lies in the past
    left,       \* bound: what is left of the budget
    span        \* history: what the sender of the message in hand administered, at
                \* every moment since the message was taken up

roles == <<members, admins, span>>
inbox == <<stored, queued, hand, replies, lost>>
forms == <<pages, answers>>
vars == <<roles, tasks, notes, creations, inbox, forms, passed, left>>

-----------------------------------------------------------------------------
(* Who may do what. *)

\* An empty allowlist admits every group.
Admitted == IF Allowed = {} THEN Chats
            ELSE Allowed \cup {c \in Chats : \E p \in People : <<c, p>> \in admins}

Administers(p, c) == <<c, p>> \in admins

GroupsOf(p, table) == {c \in Chats : <<c, p>> \in table}

IsAdministrator(p, c) == p \in Trusted \/ Administers(p, c)

\* Mutant: who administers what is read once, as the listener starts.
ChatsAtStart(p) == IF p \notin Trusted THEN GroupsOf(p, Founders)
                   ELSE IF Allowed = {} THEN Chats ELSE Allowed

(* The groups whose tasks an administrator may see. *)
ChatsOf(p) == IF p \notin Trusted THEN GroupsOf(p, admins)
              ELSE IF Allowed = {} THEN Chats ELSE Allowed

(* What lifecycle commands and notes, and what reviews, are about. *)
Open(task) == task.status = "open"

Reviewable(task) ==
    task.status = "done" /\ task.cycle >= 1 /\ task.review \in {"pending", "accepted"}

Idle == [at |-> "idle"]

Use(what) == left[what] > 0 /\ left' = [left EXCEPT ![what] = @ - 1]

Place ==
    {Idle}
    \cup [at : {"save", "list"}, m : Texts]
    \cup [at : {"scope"}, m : Texts, intent : Intents \cup {"command"}]
    \cup [at : {"admitted"}, m : Texts]
    \cup [at : {"person", "resolve"}, m : Texts, scope : SUBSET Chats]
    \cup [at : {"show"}, m : Texts, scope : SUBSET Chats, whose : SUBSET People]
    \cup [at : {"begin"}, m : Texts, by : {"review", "note", "change"}]
    \cup [at : {"find"}, m : Texts, by : {"review", "note", "change"},
          scope : SUBSET Chats]
    \cup [at : {"judge", "write"}, m : Texts, by : {"review", "note", "change"},
          read : TaskRow]

PagePlace ==
    {Idle} \cup [at : {"enter", "write"}, form : Forms]
           \cup [at : {"read"}, form : Forms, id : Nat]

Init ==
    /\ members = [c \in Chats |-> People]
    /\ admins = Founders /\ span = {}
    /\ tasks = FirstTasks
    /\ notes = <<>> /\ creations = <<>>
    /\ stored = {} /\ queued = {} /\ hand = Idle /\ replies = {} /\ lost = {}
    /\ pages = [t \in Threads |-> Idle] /\ answers = {}
    /\ passed = FALSE
    /\ left \in Budgets

-----------------------------------------------------------------------------
(* The listener: from delivery to the row. *)

Sender == Text[hand.m].by

Target == Text[hand.m].task

(* A group that is neither in the allowlist nor managed is ignored. *)
Receive(m) ==
    /\ hand = Idle
    /\ Use("deliveries")
    /\ Text[m].chat \subseteq Admitted
    /\ hand' = [at |-> "save", m |-> m]
    /\ span' = {GroupsOf(Text[m].by, admins)}
    /\ UNCHANGED <<members, admins, tasks, notes, creations, stored, queued, replies,
                   lost, forms, passed>>

Eligible(m) == Text[m].kind = "talk" /\ Text[m].chat # {} /\ Text[m].chat \subseteq Detecting

(* The processor that will know a message for its own. *)
Dispatched(m) ==
    CASE Text[m].kind = "talk" -> Idle
      [] Text[m].kind = "code" -> [at |-> "begin", m |-> m, by |-> "review"]
      [] OTHER -> [at |-> "list", m |-> m]

(* One transaction.  A message that is already stored goes no further. *)
Save ==
    /\ hand.at = "save"
    /\ IF hand.m \in stored THEN hand' = Idle /\ UNCHANGED <<stored, queued>>
       ELSE /\ stored' = stored \cup {hand.m}
            /\ queued' = IF Eligible(hand.m) THEN queued \cup {hand.m} ELSE queued
            /\ hand' = Dispatched(hand.m)
    /\ UNCHANGED <<roles, tasks, notes, creations, replies, lost, forms, passed, left>>

Goto(place) ==
    /\ hand' = place
    /\ UNCHANGED <<roles, tasks, notes, creations, stored, queued, replies, lost, forms,
                   passed, left>>

(* The first processor with a result has it sent, and ends; sending may fail.  A card
   that Feishu refuses is sent again as text: one reply that arrives, or does not. *)
Reply(ok, shows) ==
    /\ hand' = Idle
    /\ \/ /\ replies' = replies \cup {[m |-> hand.m, ok |-> ok, shows |-> shows]}
          /\ UNCHANGED <<lost, left>>
       \/ /\ Use("faults")
          /\ lost' = lost \cup {hand.m}
          /\ UNCHANGED replies

Answer(ok, shows) ==
    /\ Reply(ok, shows)
    /\ UNCHANGED <<roles, tasks, notes, creations, stored, queued, forms, passed>>

(* The process dies, or saving raises: Feishu may deliver the message again. *)
Crash ==
    /\ hand # Idle
    /\ Use("faults")
    /\ hand' = Idle
    /\ lost' = IF hand.at = "save" THEN lost ELSE lost \cup {hand.m}
    /\ UNCHANGED <<roles, tasks, notes, creations, stored, queued, replies, forms, passed>>

-----------------------------------------------------------------------------
(* Task lists. *)

(* A question in words is a query only if the model takes it for one, and one
   about others only from somebody who administers a group; nobody else knows the
   message for a command. *)
Understand(intent) ==
    /\ hand.at = "list"
    /\ Text[hand.m].kind = "ask"
    /\ IF intent = "none" \/ (intent # "self" /\ ChatsOf(Sender) = {})
       THEN Goto(Idle)
       ELSE Goto([at |-> "scope", m |-> hand.m, intent |-> intent])

(* The command in a group shows that group, in private every group. *)
ListCommand ==
    /\ hand.at = "list"
    /\ Text[hand.m].kind = "list"
    /\ IF Text[hand.m].chat = {}
       THEN Goto([at |-> "scope", m |-> hand.m, intent |-> "command"])
       ELSE Goto([at |-> "show", m |-> hand.m, scope |-> Text[hand.m].chat,
                  whose |-> IF \A c \in Text[hand.m].chat : IsAdministrator(Sender, c)
                            THEN {} ELSE {Sender}])

ReadScope ==
    /\ hand.at = "scope"
    /\ LET wide == ChatsOf(Sender) # {}
                     /\ (hand.intent = "command" \/ "mine" \notin Text[hand.m].marks)
       IN  Goto(CASE hand.intent = "person" ->
                        [at |-> "person", m |-> hand.m, scope |-> ChatsOf(Sender)]
                  [] hand.intent # "person" /\ wide ->
                        [at |-> "show", m |-> hand.m, scope |-> ChatsOf(Sender), whose |-> {}]
                  [] OTHER -> [at |-> "admitted", m |-> hand.m])

ReadAdmitted ==
    /\ hand.at = "admitted"
    /\ Goto([at |-> "show", m |-> hand.m, scope |-> Admitted, whose |-> {Sender}])

MayAsk(p) == ChatsOf(p) # {}

(* _handle_person_query asks once more whether the sender administers a group,
   after it has read which. *)
AskPerson ==
    /\ hand.at = "person"
    /\ IF MayAsk(Sender) THEN Goto([hand EXCEPT !.at = "resolve"])
       ELSE Answer(FALSE, {})

(* resolve_open_ids_across_chats; a name of nobody, or of several, is refused. *)
Meant(scope, about) ==
    {p \in People : \E c \in scope : p \in members[c] /\ about \cap Called[c][p] # {}}

Resolve ==
    /\ hand.at = "resolve"
    /\ LET meant == Meant(hand.scope, Text[hand.m].about)
       IN  IF Cardinality(meant) # 1 THEN Answer(FALSE, {})
           ELSE Goto([at |-> "show", m |-> hand.m, scope |-> hand.scope, whose |-> meant])

(* list_open_tasks, list_open_tasks_across_chats. *)
Listed(scope, whose) ==
    {t \in DOMAIN tasks : /\ Open(tasks[t]) /\ tasks[t].chat \in scope
                          /\ whose = {} \/ whose \subseteq tasks[t].owners}

Show ==
    /\ hand.at = "show"
    /\ Answer(TRUE, Listed(hand.scope, hand.whose))

-----------------------------------------------------------------------------
(* The lifecycle of a task, as far as notes and dispatching can tell: what
   apply_candidate, apply_private_review_action and the page do to it. *)

\* Mutant: a completion does not ask for a review.
CompletedUnreviewed(task) ==
    [task EXCEPT !.status = "done", !.cycle = @ + 1, !.review = "none"]

Completed(task) == [task EXCEPT !.status = "done", !.cycle = @ + 1, !.review = "pending"]

Fits(action, task) ==
    CASE action = "complete" -> Open(task) /\ task.cycle < MaxCycles
      [] action = "cancel" -> Open(task)
      [] action = "accept" -> Reviewable(task) /\ task.review = "pending"
      [] action = "reopen" -> Reviewable(task)
      [] action = "restore" -> task.status \in {"done", "cancelled"}
      [] action = "merge" -> task.status \in {"open", "done"}

Changed(action, task) ==
    CASE action = "complete" -> Completed(task)
      [] action = "cancel" -> [task EXCEPT !.status = "cancelled"]
      [] action = "accept" -> [task EXCEPT !.review = "accepted"]
      [] action = "reopen" -> [task EXCEPT !.status = "open", !.review = "rework_required"]
      [] action = "restore" -> [task EXCEPT !.status = "open"]
      [] action = "merge" -> [task EXCEPT !.status = "merged"]

(* A completion by message and every reopening leave a note. *)
NotedChange(source, id, action, p, t) ==
    IF action = "reopen" \/ (action = "complete" /\ source = "message")
    THEN Append(notes, [key |-> <<source, id>>, by |-> p, task |-> t, says |-> 0,
                        kind |-> IF action = "complete" THEN "completion" ELSE "reopen",
                        cycle |-> Changed(action, tasks[t]).cycle])
    ELSE notes

(* Somebody uses a card or the page.  An invalidation is a cancellation here, and
   confirming, renaming and rescheduling change nothing that is modelled. *)
Act(p, t, action) ==
    /\ Use("acts")
    /\ \/ Administers(p, tasks[t].chat)
       \/ action \in {"complete", "cancel"} /\ p \in tasks[t].owners
    /\ Fits(action, tasks[t])
    /\ tasks' = [tasks EXCEPT ![t] = Changed(action, tasks[t])]
    /\ notes' = NotedChange("page", left.acts, action, p, t)
    /\ UNCHANGED <<roles, creations, inbox, forms, passed>>

(* _verified_owners and _management_owners: members with a confirmed name. *)
Verified(owners, c) == \A p \in owners : p \in members[c] /\ Called[c][p] # {}

(* An administrator gives a task to others, on the page. *)
Reassign(p, t, owners) ==
    /\ Use("acts")
    /\ Administers(p, tasks[t].chat) /\ Open(tasks[t])
    /\ Verified(owners, tasks[t].chat) /\ owners # tasks[t].owners
    /\ tasks' = [tasks EXCEPT ![t].owners = owners]
    /\ UNCHANGED <<roles, notes, creations, inbox, forms, passed>>

-----------------------------------------------------------------------------
(* Adding a note: one transaction that holds the write lock. *)

\* Mutant: the cycle is the one the processor read.
CycleRead(t, read) == read.cycle

CycleAt(t, read) == tasks[t].cycle

Keyed(key) == {i \in DOMAIN notes : notes[i].key = key}

\* Mutant: whatever the request says, its id is enough.
SameNoteById(i, n) == TRUE

SameNote(i, n) ==
    /\ notes[i].by = n.by /\ notes[i].task = n.task
    /\ notes[i].kind = n.kind /\ notes[i].says = n.says

(* _authorization: an active member who is an administrator, or responsible. *)
MayNote(n) ==
    /\ n.by \in members[n.chat]
    /\ Administers(n.by, n.chat) \/ (n.by \in tasks[n.task].owners /\ n.kind # "reopen")

Notable(n) ==
    /\ n.task \in DOMAIN tasks
    /\ tasks[n.task].chat = n.chat /\ tasks[n.task].status # "merged"
    /\ MayNote(n)

Noted(n, read) ==
    Append(notes, [key |-> n.key, by |-> n.by, task |-> n.task, kind |-> n.kind,
                   says |-> n.says, cycle |-> CycleAt(n.task, read)])

-----------------------------------------------------------------------------
(* Private messages about one task.  Reviews come first, then notes, then every
   other operation; a processor that finds the task not to be its own passes the
   message on, the last one refuses it. *)

PassedOn(m, by) ==
    CASE by = "review" -> [at |-> "begin", m |-> m,
                           by |-> IF "note" \in Text[m].marks THEN "note" ELSE "change"]
      [] OTHER -> Idle

(* The groups that the processor may look into. *)
Begin ==
    /\ hand.at = "begin"
    /\ Goto([at |-> "find", m |-> hand.m, by |-> hand.by, scope |-> Admitted])

Found(t, by, scope) ==
    /\ t \in DOMAIN tasks /\ tasks[t].chat \in scope
    /\ IF by = "review" THEN Reviewable(tasks[t]) ELSE Open(tasks[t])

\* Mutant: a task that cannot be changed is left to the next processor.
LeftToOthers(by) == by \in {"review", "change"}

PassesOn(by) == by = "review"

Find ==
    /\ hand.at = "find"
    /\ LET found == Found(Target, hand.by, hand.scope)
       IN  CASE found -> Goto([at |-> "judge", m |-> hand.m, by |-> hand.by,
                               read |-> tasks[Target]])
             [] ~found /\ PassesOn(hand.by) -> Goto(PassedOn(hand.m, hand.by))
             [] OTHER -> Answer(FALSE, {})

MayHandle(p, by, read) ==
    IsAdministrator(p, read.chat) \/ (by # "review" /\ p \in read.owners)

(* Only then the model is asked. *)
Judge ==
    /\ hand.at = "judge"
    /\ IF MayHandle(Sender, hand.by, hand.read) THEN Goto([hand EXCEPT !.at = "write"])
       ELSE Answer(FALSE, {})

(* The model fails, finds nothing or another task, or a review is not confirmed. *)
Misread ==
    /\ hand.at = "write"
    /\ Answer(FALSE, {})

(* The model found a note of some kind; a message is handled only once, so its
   key is new. *)
WriteNote(kind) ==
    /\ hand.at = "write" /\ hand.by = "note"
    /\ LET n == [key |-> <<"note", hand.m>>, by |-> Sender, chat |-> hand.read.chat,
                  task |-> Target, kind |-> kind, says |-> 0]
       IN  IF Notable(n)
           THEN notes' = Noted(n, hand.read) /\ Reply(TRUE, {})
           ELSE UNCHANGED notes /\ Reply(FALSE, {})
    /\ UNCHANGED <<roles, tasks, creations, stored, queued, forms, passed>>

(* A review is written only for a message that says it is one. *)
Confirmed(m) == "confirmed" \in Text[m].marks

(* What the processors can have been told to do, by the task as they read it. *)
Intended(action) ==
    CASE hand.by = "change" -> action \in {"complete", "cancel"}
      [] hand.by = "review" -> action \in {"accept", "reopen"} /\ Fits(action, hand.read)
      [] OTHER -> FALSE

StillAdmitted(t) == tasks[t].chat \in Admitted

(* The transaction judges sender, group and task again. *)
WriteChange(action) ==
    /\ hand.at = "write"
    /\ Intended(action) /\ (hand.by = "review" => Confirmed(hand.m))
    /\ LET t == Target
       IN  IF /\ StillAdmitted(t)
              /\ MayHandle(Sender, hand.by, tasks[t])
              /\ Fits(action, tasks[t])
           THEN /\ tasks' = [tasks EXCEPT ![t] = Changed(action, tasks[t])]
                /\ notes' = NotedChange("message", hand.m, action, Sender, t)
                /\ Reply(TRUE, {})
           ELSE UNCHANGED <<tasks, notes>> /\ Reply(FALSE, {})
    /\ UNCHANGED <<roles, creations, stored, queued, forms, passed>>

-----------------------------------------------------------------------------
(* The forms of the page.  A form that got no answer is sent again, with the same
   request_id; its fields may have been edited meanwhile. *)

(* authenticate_session, then a refresh of the directory. *)
Send(t, f) ==
    /\ pages[t] = Idle
    /\ Use("posts")
    /\ \E c \in Chats : Administers(f.by, c)
    /\ pages' = [pages EXCEPT ![t] = [at |-> "enter", form |-> f]]
    /\ UNCHANGED <<roles, tasks, notes, creations, inbox, answers, passed>>

Turn(t, place) ==
    /\ pages' = [pages EXCEPT ![t] = place]
    /\ UNCHANGED <<roles, inbox, answers, passed, left>>

(* authenticate_session again, and _require_access of the group. *)
Enter(t) ==
    /\ pages[t].at = "enter"
    /\ LET f == pages[t].form
       IN  Turn(t, IF Administers(f.by, f.chat) THEN [at |-> "write", form |-> f] ELSE Idle)
    /\ UNCHANGED <<tasks, notes, creations>>

ReadBack(t, i) == Turn(t, [at |-> "read", form |-> pages[t].form, id |-> i])

WriteForm(t) ==
    /\ pages[t].at = "write" /\ pages[t].form.what = "note"
    /\ LET f == pages[t].form
           n == [key |-> <<"form", f.request>>, by |-> f.by, chat |-> f.chat,
                 task |-> f.task, kind |-> f.kind, says |-> f.says]
       IN  \/ \E i \in Keyed(n.key) :
                 /\ IF SameNote(i, n) THEN ReadBack(t, i) ELSE Turn(t, Idle)
                 /\ UNCHANGED notes
           \/ /\ Keyed(n.key) = {} /\ Notable(n)
              /\ notes' = Noted(n, tasks[n.task])
              /\ ReadBack(t, Len(notes'))
           \/ /\ Keyed(n.key) = {} /\ ~Notable(n)
              /\ Turn(t, Idle)
              /\ UNCHANGED notes
    /\ UNCHANGED <<tasks, creations>>

Requested(id) == {i \in DOMAIN creations : creations[i].form.request = id}

\* Mutant: whatever the request says, its id is enough.
SameCreationById(i, f) == TRUE

SameCreation(i, f) == creations[i].form = f

CreatedTask(f) ==
    [chat |-> f.chat, owners |-> f.owners, cycle |-> 0, status |-> "open",
     review |-> "none"]

(* A deadline in the past is refused before the request is looked up. *)
Create(t) ==
    /\ pages[t].at = "write" /\ pages[t].form.what = "create"
    /\ LET f == pages[t].form
           may == ~(f.due /\ passed) /\ Administers(f.by, f.chat)
       IN  \/ /\ may /\ Requested(f.request) = {} /\ Verified(f.owners, f.chat)
              /\ tasks' = Append(tasks, CreatedTask(f))
              /\ creations' = Append(creations, [form |-> f, task |-> Len(tasks')])
              /\ ReadBack(t, Len(creations'))
           \/ \E i \in Requested(f.request) :
                 /\ may
                 /\ IF SameCreation(i, f) THEN ReadBack(t, i) ELSE Turn(t, Idle)
                 /\ UNCHANGED <<tasks, creations>>
           \/ /\ ~may \/ (Requested(f.request) = {} /\ ~Verified(f.owners, f.chat))
              /\ Turn(t, Idle)
              /\ UNCHANGED <<tasks, creations>>
    /\ UNCHANGED notes

(* The answer shows the task, to whom may still see it. *)
Tell(t) ==
    /\ pages[t].at = "read"
    /\ LET f == pages[t].form
       IN  answers' = IF Administers(f.by, f.chat)
                      THEN answers \cup {[form |-> f, id |-> pages[t].id]} ELSE answers
    /\ pages' = [pages EXCEPT ![t] = Idle]
    /\ UNCHANGED <<roles, tasks, notes, creations, inbox, passed, left>>

(* The connection or the process ends; what was written stays. *)
Hangup(t) ==
    /\ pages[t] # Idle
    /\ Use("faults")
    /\ pages' = [pages EXCEPT ![t] = Idle]
    /\ UNCHANGED <<roles, tasks, notes, creations, inbox, answers, passed>>

DeadlinePasses ==
    /\ ~passed
    /\ Use("clocks")
    /\ passed' = TRUE
    /\ UNCHANGED <<roles, tasks, notes, creations, inbox, forms>>

-----------------------------------------------------------------------------
(* Administrators are appointed and dismissed, members leave and come back. *)

Administering(table) ==
    /\ admins' = table
    /\ span' = IF hand = Idle THEN span ELSE span \cup {GroupsOf(Sender, table)}

Appoint(c, p) ==
    /\ Use("changes")
    /\ p \in members[c] /\ ~Administers(p, c)
    /\ Administering(admins \cup {<<c, p>>})
    /\ UNCHANGED <<members, tasks, notes, creations, inbox, forms, passed>>

Dismiss(c, p) ==
    /\ Use("changes")
    /\ Administers(p, c) /\ \E q \in People \ {p} : Administers(q, c)
    /\ Administering(admins \ {<<c, p>>})
    /\ UNCHANGED <<members, tasks, notes, creations, inbox, forms, passed>>

Leave(c, p) ==
    /\ Use("changes")
    /\ p \in members[c]
    /\ members' = [members EXCEPT ![c] = @ \ {p}]
    /\ Administering(admins \ {<<c, p>>})
    /\ UNCHANGED <<tasks, notes, creations, inbox, forms, passed>>

Join(c, p) ==
    /\ Use("changes")
    /\ p \notin members[c]
    /\ members' = [members EXCEPT ![c] = @ \cup {p}]
    /\ UNCHANGED <<admins, span, tasks, notes, creations, inbox, forms, passed>>

Listener ==
    \/ \E m \in Texts : Receive(m)
    \/ Save
    \/ \E intent \in Intents : Understand(intent)
    \/ ListCommand \/ ReadScope \/ ReadAdmitted \/ AskPerson \/ Resolve \/ Show
    \/ Begin \/ Find \/ Judge \/ Misread
    \/ \E kind \in NoteKinds : WriteNote(kind)
    \/ \E action \in {"complete", "cancel", "accept", "reopen"} : WriteChange(action)
    \/ Crash

Page(t) ==
    \/ \E f \in Forms : Send(t, f)
    \/ Enter(t) \/ WriteForm(t) \/ Create(t) \/ Tell(t) \/ Hangup(t)

Others ==
    \/ \E p \in People, t \in DOMAIN tasks,
          action \in {"complete", "cancel", "accept", "reopen", "restore", "merge"} :
            Act(p, t, action)
    \/ \E p \in People, t \in DOMAIN tasks, owners \in (SUBSET People) \ {{}} :
            Reassign(p, t, owners)
    \/ \E c \in Chats, p \in People :
            Appoint(c, p) \/ Dismiss(c, p) \/ Leave(c, p) \/ Join(c, p)
    \/ DeadlinePasses

Next == Listener \/ (\E t \in Threads : Page(t)) \/ Others

Spec == Init /\ [][Next]_vars

-----------------------------------------------------------------------------
NoteRow == [key : ({"note", "message"} \X Texts) \cup ({"form", "page"} \X Nat),
            by : People, task : DOMAIN tasks, kind : NoteKinds, says : Nat,
            cycle : 0..MaxCycles]

(* Types, with what the review of a task has to do with its status: a completed
   task waits for its review or was accepted. *)
TypeOK ==
    /\ members \in [Chats -> SUBSET People]
    /\ admins \subseteq Chats \X People
    /\ span \subseteq SUBSET Chats
    /\ tasks \in Seq(TaskRow)
    /\ \A t \in DOMAIN tasks :
          tasks[t].status = "done" => tasks[t].review \in {"pending", "accepted"}
    /\ \A i \in DOMAIN notes : notes[i] \in NoteRow
    /\ \A i \in DOMAIN creations : /\ creations[i].form \in Forms
                                   /\ creations[i].task \in DOMAIN tasks
    /\ stored \subseteq Texts /\ queued \subseteq stored /\ lost \subseteq stored
    /\ hand \in Place
    /\ \A r \in replies : /\ r.m \in stored /\ r.ok \in BOOLEAN
                          /\ r.shows \subseteq DOMAIN tasks
    /\ \A t \in Threads : pages[t] \in PagePlace
    /\ \A a \in answers : a.form \in Forms /\ a.id \in Nat
    /\ passed \in BOOLEAN
    /\ left \in Budget

(* Every stored message that carries a task code or the list command is answered
   exactly once, however the task changes while one processor after another looks
   at it and however often Feishu delivers it, unless its answer was lost with the
   process or on its way; and no message is both answered and left to detection. *)
CommandsSettledOnce ==
    /\ \A m \in stored : Text[m].kind \in {"code", "list"} =>
          \/ m \in lost
          \/ \E r \in replies : r.m = m
          \/ hand.at \notin {"idle", "save"} /\ hand.m = m
    /\ \A r \in replies : /\ r.m \notin lost \cup queued
                          /\ \A q \in replies : q.m = r.m => q = r

(* Nothing but what is one's own as it is shown, and what is of the groups that one
   administered at one and the same moment while the question was in hand. *)
InSight(r) ==
    \/ Text[r.m].by \in Trusted
    \/ \E groups \in span : \A t \in r.shows :
          Text[r.m].by \in tasks[t].owners \/ tasks[t].chat \in groups

(* Between a question and its answer administrators come and go, tasks change hands,
   and the scope, the person asked for and the tasks are read one after another; yet
   all that an answer shows is the asker's own at that time, or of the groups the
   asker administered at one moment between the two.  Who was dismissed before he
   asked is shown nothing more, and scopes of different moments never mix. *)
ListsStayInScope == [][\A r \in replies' \ replies : InSight(r)]_vars

(* A page is told of a success only when exactly what it sent is on record, and
   under one request id always the same record: however often a form is sent,
   edited, or cut off, and whatever became of the task since. *)
AnswersFit ==
    \A a \in answers :
        /\ IF a.form.what = "create" THEN creations[a.id].form = a.form
           ELSE /\ notes[a.id].key = <<"form", a.form.request>>
                /\ notes[a.id].by = a.form.by /\ notes[a.id].task = a.form.task
                /\ notes[a.id].kind = a.form.kind /\ notes[a.id].says = a.form.says
        /\ \A b \in answers :
              (a.form.what = b.form.what /\ a.form.request = b.form.request) => a.id = b.id

(* The notes of a task follow its completions: a later note never belongs to an
   earlier cycle, although the model read the task long before the note is
   written, and none to a cycle that the task has not reached. *)
NotesFollowCycles ==
    \A i \in DOMAIN notes :
        /\ notes[i].cycle <= tasks[notes[i].task].cycle
        /\ \A j \in 1..(i - 1) :
              notes[j].task = notes[i].task => notes[j].cycle <= notes[i].cycle
=============================================================================
