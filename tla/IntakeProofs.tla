---------------------------- MODULE IntakeProofs ----------------------------
(***************************************************************************)
(* Proofs about Intake, for every value of its constants.                  *)
(*                                                                         *)
(* Each table has a part of the invariant of its own, which holds as long  *)
(* as the other tables only grow: tasks are never taken away, do not       *)
(* change groups and never go back to an earlier cycle, notes and          *)
(* creations are appended, and what a sender has administered while his    *)
(* message is in hand stays on record.                                     *)
(***************************************************************************)
EXTENDS Intake, TLAPS

TasksGrow ==
    /\ DOMAIN tasks \subseteq DOMAIN tasks'
    /\ \A t \in DOMAIN tasks : /\ tasks'[t].chat = tasks[t].chat
                               /\ tasks[t].cycle <= tasks'[t].cycle

NotesGrow ==
    /\ DOMAIN notes \subseteq DOMAIN notes'
    /\ \A i \in DOMAIN notes : notes'[i] = notes[i]

CreationsGrow ==
    /\ DOMAIN creations \subseteq DOMAIN creations'
    /\ \A i \in DOMAIN creations : creations'[i] = creations[i]

(* The record starts with what the sender administered as the message was taken up. *)
Recorded(h) == h.at # "idle" => GroupsOf(Text[h.m].by, admins) \in span

SpanGrows == span \subseteq span' /\ Recorded(hand)'

RolesFit ==
    /\ members \in [Chats -> SUBSET People]
    /\ admins \subseteq Chats \X People
    /\ span \subseteq SUBSET Chats

TasksFit ==
    /\ tasks \in Seq(TaskRow)
    /\ \A t \in DOMAIN tasks :
          tasks[t].status = "done" => tasks[t].review \in {"pending", "accepted"}

(* NotesFollowCycles, and no form has two notes. *)
NotesFit ==
    /\ notes \in Seq(NoteRow)
    /\ NotesFollowCycles
    /\ \A i, j \in DOMAIN notes :
          (notes[i].key[1] = "form" /\ notes[i].key = notes[j].key) => i = j

CreationsFit ==
    /\ creations \in Seq([form : Forms, task : DOMAIN tasks])
    /\ \A i, j \in DOMAIN creations :
          creations[i].form.request = creations[j].form.request => i = j

(* A scope of one moment since the message was taken up. *)
InScope(p, scope) == p \in Trusted \/ \E groups \in span : scope \subseteq groups

(* What a message in the listener's hand has already passed. *)
HandFit(h) ==
    /\ Recorded(h)
    /\ h.at \notin {"idle", "save"} =>
          /\ h.m \in stored \ (lost \cup queued)
          /\ \A r \in replies : r.m # h.m
    /\ h.at \in {"person", "resolve"} => InScope(Text[h.m].by, h.scope)
    /\ h.at = "show" => h.whose = {Text[h.m].by} \/ InScope(Text[h.m].by, h.scope)
    /\ h.at \in {"judge", "write"} => Text[h.m].task \in DOMAIN tasks

InboxFit ==
    /\ stored \subseteq Texts /\ queued \subseteq stored /\ lost \subseteq stored
    /\ hand \in Place /\ HandFit(hand)
    /\ \A r \in replies : /\ r.m \in stored /\ r.ok \in BOOLEAN
                          /\ r.shows \subseteq DOMAIN tasks
    /\ CommandsSettledOnce

(* What a page that reads back, or has read, found on record. *)
OnRecord(N, C, f, i) ==
    IF f.what = "create" THEN i \in DOMAIN C /\ C[i].form = f
    ELSE /\ i \in DOMAIN N
         /\ N[i].key = <<"form", f.request>>
         /\ N[i].by = f.by /\ N[i].task = f.task
         /\ N[i].kind = f.kind /\ N[i].says = f.says

FormsFit ==
    /\ pages \in [Threads -> PagePlace]
    /\ \A t \in Threads :
          pages[t].at = "read" => OnRecord(notes, creations, pages[t].form, pages[t].id)
    /\ \A a \in answers : /\ a.form \in Forms /\ a.id \in Nat
                          /\ OnRecord(notes, creations, a.form, a.id)

Inv ==
    /\ RolesFit /\ TasksFit /\ NotesFit /\ CreationsFit /\ InboxFit /\ FormsFit
    /\ passed \in BOOLEAN /\ left \in Budget

-----------------------------------------------------------------------------
(* Sequences as tables. *)

LEMMA Element ==
    ASSUME NEW S, NEW s \in Seq(S), NEW i \in DOMAIN s
    PROVE  s[i] \in S
  OBVIOUS

LEMMA Widened ==
    ASSUME NEW S, NEW T, NEW s \in Seq(S), S \subseteq T
    PROVE  s \in Seq(T)
  OBVIOUS

-----------------------------------------------------------------------------
(* The invariant contains the properties. *)

LEMMA AnswersAreFit ==
    ASSUME Inv
    PROVE  AnswersFit
<1>1. \A a \in answers : OnRecord(notes, creations, a.form, a.id) /\ a.form \in Forms
  BY DEF Inv, FormsFit
<1>2. ASSUME NEW a \in answers, NEW b \in answers,
             a.form.what = b.form.what, a.form.request = b.form.request
      PROVE  a.id = b.id
  <2>1. CASE a.form.what = "create"
    BY <1>1, <1>2, <2>1 DEF OnRecord, Inv, CreationsFit
  <2>2. CASE a.form.what # "create"
    <3>1. /\ a.id \in DOMAIN notes /\ b.id \in DOMAIN notes
          /\ notes[a.id].key = <<"form", a.form.request>>
          /\ notes[b.id].key = <<"form", a.form.request>>
      BY <1>1, <1>2, <2>2 DEF OnRecord
    <3>. QED
      BY <3>1 DEF Inv, NotesFit
  <2>. QED
    BY <2>1, <2>2
<1>. QED
  BY <1>1, <1>2 DEF AnswersFit, OnRecord

LEMMA InvGives ==
    ASSUME Inv
    PROVE  TypeOK /\ CommandsSettledOnce /\ AnswersFit /\ NotesFollowCycles
<1>1. TypeOK
  <2>1. \A i \in DOMAIN notes : notes[i] \in NoteRow
    BY DEF Inv, NotesFit
  <2>2. \A i \in DOMAIN creations : /\ creations[i].form \in Forms
                                    /\ creations[i].task \in DOMAIN tasks
    <3>1. \A i \in DOMAIN creations : creations[i] \in [form : Forms, task : DOMAIN tasks]
      BY Element DEF Inv, CreationsFit
    <3>. QED
      BY <3>1
  <2>3. /\ members \in [Chats -> SUBSET People]
        /\ admins \subseteq Chats \X People
        /\ span \subseteq SUBSET Chats
        /\ TasksFit
        /\ passed \in BOOLEAN /\ left \in Budget
    BY DEF Inv, RolesFit
  <2>4. /\ stored \subseteq Texts /\ queued \subseteq stored /\ lost \subseteq stored
        /\ hand \in Place
        /\ \A r \in replies : /\ r.m \in stored /\ r.ok \in BOOLEAN
                              /\ r.shows \subseteq DOMAIN tasks
    BY DEF Inv, InboxFit
  <2>5. /\ \A t \in Threads : pages[t] \in PagePlace
        /\ \A a \in answers : a.form \in Forms /\ a.id \in Nat
    BY DEF Inv, FormsFit
  <2>. QED
    BY <2>1, <2>2, <2>3, <2>4, <2>5 DEF TypeOK, TasksFit
<1>. QED
  BY <1>1, AnswersAreFit DEF Inv, InboxFit, NotesFit

-----------------------------------------------------------------------------
(* What stays as the other tables grow. *)

LEMMA NotesKept ==
    ASSUME NotesFit, TasksFit, TasksFit', TasksGrow, UNCHANGED notes
    PROVE  NotesFit' /\ NotesGrow
<1>1. NoteRow \subseteq NoteRow'
  BY DEF NoteRow, TasksGrow
<1>2. notes' \in Seq(NoteRow')
  BY <1>1 DEF NotesFit
<1>3. NotesFollowCycles'
  <2>1. ASSUME NEW i \in DOMAIN notes
        PROVE  notes[i].cycle <= tasks'[notes[i].task].cycle
    <3>1. /\ notes[i] \in NoteRow /\ notes[i].task \in DOMAIN tasks
          /\ notes[i].cycle \in Int
      <4>1. notes[i] \in NoteRow
        BY <2>1, Element DEF NotesFit
      <4>. QED
        BY <4>1, BoundAssumption DEF NoteRow, BoundAssumption
    <3>2. notes[i].cycle <= tasks[notes[i].task].cycle
      BY <2>1 DEF NotesFit, NotesFollowCycles
    <3>3. tasks[notes[i].task].cycle <= tasks'[notes[i].task].cycle
      BY <3>1 DEF TasksGrow
    <3>4. tasks[notes[i].task].cycle \in Int /\ tasks'[notes[i].task].cycle \in Int
      <4>1. /\ tasks[notes[i].task] \in TaskRow
            /\ tasks'[notes[i].task] \in TaskRow
        BY <3>1, Element DEF TasksFit, TasksGrow
      <4>. QED
        BY <4>1, BoundAssumption DEF TaskRow, BoundAssumption
    <3>. QED
      BY <3>1, <3>2, <3>3, <3>4
  <2>. QED
    BY <2>1 DEF NotesFollowCycles, NotesFit
<1>. QED
  BY <1>2, <1>3 DEF NotesFit, NotesGrow

LEMMA CreationsKept ==
    ASSUME CreationsFit, TasksGrow, UNCHANGED creations
    PROVE  CreationsFit' /\ CreationsGrow
<1>1. [form : Forms, task : DOMAIN tasks] \subseteq [form : Forms, task : DOMAIN tasks']
  BY DEF TasksGrow
<1>2. creations' \in Seq([form : Forms, task : DOMAIN tasks'])
  BY <1>1, Widened DEF CreationsFit
<1>. QED
  BY <1>2 DEF CreationsFit, CreationsGrow

LEMMA RecordKept ==
    ASSUME NotesGrow, CreationsGrow, NEW f, NEW i, OnRecord(notes, creations, f, i)
    PROVE  OnRecord(notes', creations', f, i)
  BY DEF OnRecord, NotesGrow, CreationsGrow

LEMMA FormsKept ==
    ASSUME FormsFit, NotesGrow, CreationsGrow, UNCHANGED forms
    PROVE  FormsFit'
  BY RecordKept DEF FormsFit, forms

(* What a hand may hold stays so. *)
LEMMA HandKept ==
    ASSUME NEW h \in Place, HandFit(h), TasksGrow, span \subseteq span', Recorded(h)',
           UNCHANGED <<stored, queued, replies, lost>>
    PROVE  HandFit(h)'
<1>1. \A p, scope : InScope(p, scope) => InScope(p, scope)'
  BY DEF InScope
<1>. QED
  BY <1>1 DEF HandFit, TasksGrow

LEMMA InboxKept ==
    ASSUME InboxFit, TasksGrow, SpanGrows, UNCHANGED inbox
    PROVE  InboxFit'
<1>1. Recorded(hand)'
  BY DEF SpanGrows
<1>2. HandFit(hand)'
  BY <1>1, HandKept DEF InboxFit, inbox, HandFit, InScope, SpanGrows, Recorded
<1>3. CommandsSettledOnce'
  BY DEF InboxFit, inbox, CommandsSettledOnce
<1>4. \A r \in replies : r.shows \subseteq DOMAIN tasks'
  BY DEF InboxFit, TasksGrow
<1>. QED
  BY <1>2, <1>3, <1>4 DEF InboxFit, inbox

-----------------------------------------------------------------------------
(* A task changes, a note or a record is added. *)

TaskActions == {"complete", "cancel", "accept", "reopen", "restore", "merge"}

LEMMA ChangedRow ==
    ASSUME NEW action \in TaskActions, NEW tk \in TaskRow, Fits(action, tk),
           tk.status = "done" => tk.review \in {"pending", "accepted"}
    PROVE  LET new == Changed(action, tk)
           IN  /\ new \in TaskRow /\ new.chat = tk.chat /\ new.owners = tk.owners
               /\ tk.cycle <= new.cycle
               /\ new.status = "done" => new.review \in {"pending", "accepted"}
<1>0. MaxCycles \in Nat
  BY BoundAssumption DEF BoundAssumption
<1>1. CASE action = "complete"
  <2>. DEFINE done == [tk EXCEPT !.status = "done"]
              counted == [done EXCEPT !.cycle = tk.cycle + 1]
              new == [counted EXCEPT !.review = "pending"]
  <2>1. tk.cycle < MaxCycles /\ tk.cycle \in Nat
    BY <1>0, <1>1 DEF Fits, TaskRow
  <2>2. Changed(action, tk) = new
    BY <1>1 DEF Changed, Completed, TaskRow
  <2>3. done \in TaskRow /\ done.chat = tk.chat /\ done.owners = tk.owners
        /\ done.status = "done"
    BY DEF TaskRow
  <2>. HIDE DEF done
  <2>4. counted \in TaskRow /\ counted.chat = tk.chat /\ counted.owners = tk.owners
        /\ counted.status = "done" /\ counted.cycle = tk.cycle + 1
    BY <1>0, <2>1, <2>3 DEF TaskRow
  <2>. HIDE DEF counted
  <2>5. new \in TaskRow /\ new.chat = tk.chat /\ new.owners = tk.owners
        /\ new.status = "done" /\ new.cycle = tk.cycle + 1 /\ new.review = "pending"
    BY <2>4 DEF TaskRow
  <2>. HIDE DEF new
  <2>. QED
    BY <2>1, <2>2, <2>5
<1>2. CASE action = "cancel"
  BY <1>0, <1>2 DEF TaskRow, Fits, Changed
<1>3. CASE action = "accept"
  BY <1>0, <1>3 DEF TaskRow, Fits, Changed, Reviewable
<1>4. CASE action = "reopen"
  <2>. DEFINE open == [tk EXCEPT !.status = "open"]
              new == [open EXCEPT !.review = "rework_required"]
  <2>1. Changed(action, tk) = new
    BY <1>4 DEF Changed, TaskRow
  <2>2. open \in TaskRow /\ open.chat = tk.chat /\ open.owners = tk.owners
        /\ open.status = "open" /\ open.cycle = tk.cycle
    BY DEF TaskRow
  <2>. HIDE DEF open
  <2>3. new \in TaskRow /\ new.chat = tk.chat /\ new.owners = tk.owners
        /\ new.status = "open" /\ new.cycle = tk.cycle
    BY <2>2 DEF TaskRow
  <2>. HIDE DEF new
  <2>. QED
    BY <1>0, <2>1, <2>3 DEF TaskRow
<1>5. CASE action = "restore"
  BY <1>0, <1>5 DEF TaskRow, Fits, Changed
<1>6. CASE action = "merge"
  BY <1>0, <1>6 DEF TaskRow, Fits, Changed
<1>. QED
  BY <1>1, <1>2, <1>3, <1>4, <1>5, <1>6 DEF TaskActions

LEMMA TaskChanged ==
    ASSUME TasksFit, NEW t \in DOMAIN tasks, NEW action \in TaskActions,
           Fits(action, tasks[t]),
           tasks' = [tasks EXCEPT ![t] = Changed(action, tasks[t])]
    PROVE  /\ TasksFit' /\ TasksGrow
           /\ DOMAIN tasks' = DOMAIN tasks /\ tasks'[t] = Changed(action, tasks[t])
<1>. DEFINE new == Changed(action, tasks[t])
<1>1. \A u \in DOMAIN tasks : tasks[u] \in TaskRow
  BY Element DEF TasksFit
<1>2. /\ new \in TaskRow /\ new.chat = tasks[t].chat /\ new.owners = tasks[t].owners
      /\ tasks[t].cycle <= new.cycle
      /\ new.status = "done" => new.review \in {"pending", "accepted"}
  BY <1>1, ChangedRow DEF TasksFit
<1>3. tasks' = [tasks EXCEPT ![t] = new]
  OBVIOUS
<1>. HIDE DEF new
<1>4. tasks' \in Seq(TaskRow) /\ DOMAIN tasks' = DOMAIN tasks /\ tasks'[t] = new
  BY <1>2, <1>3 DEF TasksFit
<1>5. \A u \in DOMAIN tasks : u # t => tasks'[u] = tasks[u]
  BY <1>3
<1>6. \A u \in DOMAIN tasks : tasks[u].cycle \in Int
  BY <1>1, BoundAssumption DEF TaskRow, BoundAssumption
<1>7. TasksFit'
  BY <1>2, <1>4, <1>5 DEF TasksFit
<1>8. TasksGrow
  BY <1>2, <1>4, <1>5, <1>6 DEF TasksGrow
<1>. QED
  BY <1>4, <1>7, <1>8 DEF new

LEMMA TaskAppended ==
    ASSUME TasksFit, NEW row \in TaskRow, row.status = "open",
           tasks' = Append(tasks, row)
    PROVE  TasksFit' /\ TasksGrow /\ Len(tasks') \in DOMAIN tasks'
<1>1. \A u \in DOMAIN tasks : tasks[u] \in TaskRow
  BY Element DEF TasksFit
<1>2. /\ tasks' \in Seq(TaskRow) /\ Len(tasks') = Len(tasks) + 1
      /\ DOMAIN tasks' = 1..(Len(tasks) + 1) /\ DOMAIN tasks = 1..Len(tasks)
      /\ tasks'[Len(tasks) + 1] = row
      /\ \A u \in DOMAIN tasks : tasks'[u] = tasks[u]
      /\ Len(tasks) \in Nat
  BY DEF TasksFit
<1>3. \A u \in DOMAIN tasks : tasks[u].cycle \in Int
  BY <1>1, BoundAssumption DEF TaskRow, BoundAssumption
<1>. QED
  BY <1>2, <1>3 DEF TasksFit, TasksGrow

LEMMA TasksStay ==
    ASSUME TasksFit, UNCHANGED tasks
    PROVE  TasksFit' /\ TasksGrow
<1>1. \A u \in DOMAIN tasks : tasks[u] \in TaskRow
  BY Element DEF TasksFit
<1>2. \A u \in DOMAIN tasks : tasks[u].cycle \in Int
  BY <1>1, BoundAssumption DEF TaskRow, BoundAssumption
<1>. QED
  BY <1>2 DEF TasksFit, TasksGrow

LEMMA NoteAppended ==
    ASSUME NotesFit, TasksFit, TasksFit', TasksGrow, NEW n \in NoteRow',
           n.cycle = tasks'[n.task].cycle,
           n.key[1] = "form" => \A i \in DOMAIN notes : notes[i].key # n.key,
           notes' = Append(notes, n)
    PROVE  /\ NotesFit' /\ NotesGrow
           /\ Len(notes') \in DOMAIN notes' /\ notes'[Len(notes')] = n
<1>1. NoteRow \subseteq NoteRow'
  BY DEF NoteRow, TasksGrow
<1>2. notes \in Seq(NoteRow') /\ notes \in Seq(NoteRow)
  BY <1>1, Widened DEF NotesFit
<1>3. /\ notes' \in Seq(NoteRow') /\ Len(notes') = Len(notes) + 1
      /\ DOMAIN notes' = 1..(Len(notes) + 1) /\ DOMAIN notes = 1..Len(notes)
      /\ notes'[Len(notes) + 1] = n
      /\ \A i \in DOMAIN notes : notes'[i] = notes[i]
      /\ Len(notes) \in Nat
  BY <1>2
<1>4. ASSUME NEW i \in DOMAIN notes
      PROVE  /\ notes[i].task \in DOMAIN tasks /\ notes[i].cycle \in Int
             /\ tasks'[notes[i].task].cycle \in Int
             /\ notes[i].cycle <= tasks'[notes[i].task].cycle
  <2>1. notes[i] \in NoteRow
    BY <1>2, Element
  <2>2. notes[i].task \in DOMAIN tasks /\ notes[i].cycle \in Int
    BY <2>1, BoundAssumption DEF NoteRow, BoundAssumption
  <2>3. tasks[notes[i].task] \in TaskRow /\ tasks'[notes[i].task] \in TaskRow
    BY <2>2, Element DEF TasksFit, TasksGrow
  <2>4. tasks[notes[i].task].cycle \in Int /\ tasks'[notes[i].task].cycle \in Int
    BY <2>3, BoundAssumption DEF TaskRow, BoundAssumption
  <2>5. notes[i].cycle <= tasks[notes[i].task].cycle
    BY DEF NotesFit, NotesFollowCycles
  <2>. QED
    BY <2>2, <2>4, <2>5 DEF TasksGrow
<1>5. n.cycle \in Int
  BY BoundAssumption DEF NoteRow, BoundAssumption
<1>6. NotesFollowCycles'
  <2>1. ASSUME NEW i \in DOMAIN notes'
        PROVE  /\ notes'[i].cycle <= tasks'[notes'[i].task].cycle
               /\ \A j \in 1..(i - 1) :
                     notes'[j].task = notes'[i].task => notes'[j].cycle <= notes'[i].cycle
    <3>1. CASE i \in DOMAIN notes
      <4>1. \A j \in 1..(i - 1) : j \in DOMAIN notes
        BY <1>3, <3>1
      <4>2. \A j \in 1..(i - 1) :
               notes[j].task = notes[i].task => notes[j].cycle <= notes[i].cycle
        BY <3>1 DEF NotesFit, NotesFollowCycles
      <4>. QED
        BY <1>3, <1>4, <3>1, <4>1, <4>2
    <3>2. CASE i = Len(notes) + 1
      <4>1. \A j \in 1..(i - 1) : j \in DOMAIN notes
        BY <1>3, <3>2
      <4>2. notes'[i] = n
        BY <1>3, <3>2
      <4>. QED
        BY <1>3, <1>4, <1>5, <4>1, <4>2
    <3>. QED
      BY <1>3, <3>1, <3>2
  <2>. QED
    BY <2>1 DEF NotesFollowCycles
<1>7. \A i, j \in DOMAIN notes' :
         (notes'[i].key[1] = "form" /\ notes'[i].key = notes'[j].key) => i = j
  BY <1>3 DEF NotesFit
<1>. QED
  BY <1>3, <1>6, <1>7 DEF NotesFit, NotesGrow

LEMMA CreationAppended ==
    ASSUME CreationsFit, TasksGrow, NEW f \in Forms, NEW t \in DOMAIN tasks',
           Requested(f.request) = {},
           creations' = Append(creations, [form |-> f, task |-> t])
    PROVE  /\ CreationsFit' /\ CreationsGrow
           /\ Len(creations') \in DOMAIN creations' /\ creations'[Len(creations')].form = f
<1>. DEFINE R == [form : Forms, task : DOMAIN tasks']
            c == [form |-> f, task |-> t]
<1>1. [form : Forms, task : DOMAIN tasks] \subseteq R
  BY DEF TasksGrow
<1>2. creations \in Seq(R)
  BY <1>1, Widened DEF CreationsFit
<1>3. c \in R /\ c.form = f /\ creations' = Append(creations, c)
  OBVIOUS
<1>. HIDE DEF R, c
<1>4. /\ creations' \in Seq(R) /\ Len(creations') = Len(creations) + 1
      /\ DOMAIN creations' = 1..(Len(creations) + 1)
      /\ DOMAIN creations = 1..Len(creations)
      /\ creations'[Len(creations) + 1] = c
      /\ \A i \in DOMAIN creations : creations'[i] = creations[i]
      /\ Len(creations) \in Nat
  BY <1>2, <1>3
<1>5. \A i \in DOMAIN creations : creations[i].form.request # f.request
  BY DEF Requested
<1>6. \A i, j \in DOMAIN creations' :
         creations'[i].form.request = creations'[j].form.request => i = j
  BY <1>3, <1>4, <1>5 DEF CreationsFit
<1>7. creations' \in Seq([form : Forms, task : DOMAIN tasks'])
  BY <1>4 DEF R
<1>. QED
  BY <1>3, <1>4, <1>6, <1>7 DEF CreationsFit, CreationsGrow

-----------------------------------------------------------------------------
(* The parts of the invariant that a step leaves alone. *)

LEMMA RolesStay ==
    ASSUME Inv, UNCHANGED roles
    PROVE  RolesFit' /\ span \subseteq span' /\ (UNCHANGED hand => SpanGrows)
  BY DEF Inv, InboxFit, HandFit, RolesFit, roles, SpanGrows, Recorded, GroupsOf

LEMMA Nothing ==
    /\ UNCHANGED notes => NotesGrow
    /\ UNCHANGED creations => CreationsGrow
  BY DEF NotesGrow, CreationsGrow

LEMMA TablesStay ==
    ASSUME Inv, UNCHANGED <<tasks, notes, creations>>
    PROVE  /\ TasksFit' /\ NotesFit' /\ CreationsFit'
           /\ TasksGrow /\ NotesGrow /\ CreationsGrow
<1>1. TasksFit' /\ TasksGrow
  BY TasksStay DEF Inv
<1>. QED
  BY <1>1, NotesKept, CreationsKept DEF Inv

LEMMA Used ==
    ASSUME left \in Budget,
           NEW what \in {"deliveries", "posts", "faults", "changes", "acts", "clocks"},
           Use(what)
    PROVE  left' \in Budget
<1>1. left[what] \in Nat /\ left[what] - 1 \in Nat
  BY DEF Budget, Use
<1>2. left' = [left EXCEPT ![what] = left[what] - 1]
  BY DEF Use
<1>. QED
  BY <1>1, <1>2 DEF Budget

LEMMA InboxSteps ==
    ASSUME Inv, UNCHANGED <<tasks, notes, creations, forms, passed>>,
           RolesFit', InboxFit', left' \in Budget
    PROVE  Inv'
<1>1. /\ TasksFit' /\ NotesFit' /\ CreationsFit'
      /\ NotesGrow /\ CreationsGrow
  BY TablesStay
<1>2. FormsFit'
  BY <1>1, FormsKept DEF Inv
<1>. QED
  BY <1>1, <1>2 DEF Inv

LEMMA InboxMoves ==
    ASSUME Inv, UNCHANGED <<roles, tasks, notes, creations, forms, passed>>,
           InboxFit', left' \in Budget
    PROVE  Inv'
  BY RolesStay, InboxSteps

-----------------------------------------------------------------------------
(* The listener. *)

(* A message with an answer to come is still in hand. *)
Owed(m) == Text[m].kind \in {"code", "list"}

LEMMA Moved ==
    ASSUME Inv, NEW h \in Place, HandFit(h), hand' = h,
           UNCHANGED <<roles, tasks, notes, creations, stored, queued, replies, lost, forms,
                       passed>>,
           left' \in Budget,
           (hand.at \notin {"idle", "save"} /\ Owed(hand.m)) =>
               h.at \notin {"idle", "save"} /\ h.m = hand.m
    PROVE  Inv'
<1>1. TasksGrow /\ span \subseteq span'
  BY TablesStay, RolesStay
<1>2. HandFit(hand)'
  <2>1. Recorded(h)'
    BY DEF HandFit, Recorded, roles, GroupsOf
  <2>2. HandFit(h)'
    BY <1>1, <2>1, HandKept
  <2>. QED
    BY <2>2 DEF HandFit, InScope, Recorded
<1>3. CommandsSettledOnce'
  <2>1. CommandsSettledOnce
    BY DEF Inv, InboxFit
  <2>. QED
    BY <2>1 DEF CommandsSettledOnce, Owed
<1>4. InboxFit'
  BY <1>2, <1>3 DEF Inv, InboxFit
<1>. QED
  BY <1>4, InboxMoves

LEMMA GotoKeeps ==
    ASSUME Inv, NEW h \in Place, HandFit(h), Goto(h),
           (hand.at \notin {"idle", "save"} /\ Owed(hand.m)) =>
               h.at \notin {"idle", "save"} /\ h.m = hand.m
    PROVE  Inv'
  BY Moved DEF Inv, Goto

LEMMA IdleFits ==
    Idle \in Place /\ Idle.at = "idle"
  BY DEF Idle, Place

LEMMA Replied ==
    ASSUME Inv, hand.at \notin {"idle", "save"}, NEW ok \in BOOLEAN,
           NEW shows \in SUBSET DOMAIN tasks, Reply(ok, shows), TasksGrow,
           UNCHANGED <<stored, queued>>
    PROVE  InboxFit' /\ left' \in Budget
<1>1. /\ hand.m \in stored \ (lost \cup queued) /\ \A r \in replies : r.m # hand.m
      /\ stored \subseteq Texts /\ queued \subseteq stored /\ lost \subseteq stored
      /\ CommandsSettledOnce
      /\ left \in Budget
  BY DEF Inv, InboxFit, HandFit
<1>2. HandFit(hand)' /\ hand' \in Place
  BY IdleFits DEF Reply, HandFit, Recorded
<1>. DEFINE new == [m |-> hand.m, ok |-> ok, shows |-> shows]
<1>3. \/ replies' = replies \cup {new} /\ UNCHANGED <<lost, left>>
      \/ Use("faults") /\ lost' = lost \cup {hand.m} /\ UNCHANGED replies
  BY DEF Reply
<1>4. new.m = hand.m /\ new.ok = ok /\ new.shows = shows
  OBVIOUS
<1>. HIDE DEF new
<1>5. left' \in Budget
  BY <1>1, <1>3, Used
<1>6. CommandsSettledOnce'
  BY <1>1, <1>3, <1>4 DEF CommandsSettledOnce
<1>7. \A r \in replies' : /\ r.m \in stored' /\ r.ok \in BOOLEAN
                          /\ r.shows \subseteq DOMAIN tasks'
  BY <1>1, <1>3, <1>4 DEF Inv, InboxFit, TasksGrow
<1>8. stored' \subseteq Texts /\ queued' \subseteq stored' /\ lost' \subseteq stored'
  BY <1>1, <1>3
<1>. QED
  BY <1>2, <1>5, <1>6, <1>7, <1>8 DEF InboxFit

LEMMA AnswerKeeps ==
    ASSUME Inv, hand.at \notin {"idle", "save"}, NEW ok \in BOOLEAN,
           NEW shows \in SUBSET DOMAIN tasks, Answer(ok, shows)
    PROVE  Inv'
<1>1. TasksGrow
  BY TablesStay DEF Answer
<1>2. InboxFit' /\ left' \in Budget
  BY <1>1, Replied DEF Answer
<1>. QED
  BY <1>2, InboxMoves DEF Answer

LEMMA RefusalKeeps ==
    ASSUME Inv, hand.at \notin {"idle", "save"}, Answer(FALSE, {})
    PROVE  Inv'
  BY AnswerKeeps

LEMMA Saying ==
    ASSUME NEW m \in Texts
    PROVE  /\ Text[m].by \in People /\ Text[m].chat \subseteq Chats /\ Text[m].task \in Nat
           /\ Text[m].kind \in {"talk", "list", "ask", "code"}
<1>1. Text[m] \in Message
  BY TextAssumption DEF TextAssumption
<1>. QED
  BY <1>1 DEF Message

(* What a place holds. *)
LEMMA PlaceHolds ==
    ASSUME NEW h \in Place
    PROVE  /\ h.at # "idle" => h.m \in Texts
           /\ h.at \in {"person", "resolve", "show", "find"} => h.scope \subseteq Chats
           /\ h.at \in {"begin", "find", "judge", "write"} =>
                  h.by \in {"review", "note", "change"}
           /\ h.at \in {"judge", "write"} => h.read \in TaskRow
           /\ h.at = "show" => h.whose \subseteq People
           /\ h.at = "scope" => h.intent \in Intents \cup {"command"}
  BY DEF Place, Idle

LEMMA ReceiveKeeps ==
    ASSUME Inv, NEW m \in Texts, Receive(m)
    PROVE  Inv'
<1>. DEFINE h == [at |-> "save", m |-> m]
<1>1. /\ hand' = h /\ span' = {GroupsOf(Text[m].by, admins)}
      /\ UNCHANGED <<members, admins, stored, queued, replies, lost>>
      /\ UNCHANGED <<tasks, notes, creations, forms, passed>>
  BY DEF Receive
<1>2. h \in Place /\ h.at = "save" /\ h.m = m
  BY DEF Place
<1>. HIDE DEF h
<1>3. RolesFit'
  BY <1>1 DEF Inv, RolesFit, GroupsOf
<1>4. HandFit(hand)'
  BY <1>1, <1>2 DEF HandFit, Recorded, GroupsOf
<1>5. hand.at = "idle"
  BY DEF Receive, Idle
<1>6. CommandsSettledOnce'
  BY <1>1, <1>5 DEF Inv, InboxFit, CommandsSettledOnce
<1>7. InboxFit'
  BY <1>1, <1>2, <1>4, <1>6 DEF Inv, InboxFit
<1>8. left' \in Budget
  BY Used DEF Inv, Receive
<1>. QED
  BY <1>1, <1>3, <1>7, <1>8, InboxSteps

LEMMA SaveKeeps ==
    ASSUME Inv, Save
    PROVE  Inv'
<1>. USE DEF Save
<1>1. CASE hand.m \in stored
  <2>1. HandFit(Idle) /\ Idle \in Place
    BY IdleFits DEF HandFit, Recorded
  <2>. QED
    BY <1>1, <2>1, Moved DEF Inv
<1>2. CASE hand.m \notin stored
  <2>1. /\ hand.at = "save" /\ hand.m \in Texts /\ left' \in Budget
        /\ Text[hand.m].kind \in {"talk", "list", "ask", "code"}
    BY PlaceHolds, Saying DEF Inv, InboxFit
  <2>2. /\ stored' = stored \cup {hand.m}
        /\ queued' = IF Eligible(hand.m) THEN queued \cup {hand.m} ELSE queued
        /\ hand' = Dispatched(hand.m)
        /\ UNCHANGED <<replies, lost>>
    BY <1>2
  <2>3. /\ stored \subseteq Texts /\ queued \subseteq stored /\ lost \subseteq stored
        /\ \A r \in replies : r.m \in stored
        /\ CommandsSettledOnce
    BY DEF Inv, InboxFit
  <2>4. /\ Dispatched(hand.m) \in Place
        /\ \/ Text[hand.m].kind = "talk" /\ Dispatched(hand.m).at = "idle"
           \/ /\ Text[hand.m].kind # "talk"
              /\ Dispatched(hand.m).at \in {"begin", "list"}
              /\ Dispatched(hand.m).m = hand.m
    BY <2>1 DEF Dispatched, Place, Idle
  <2>5. HandFit(hand)'
    <3>1. Recorded(hand)'
      BY <2>1, <2>2, <2>4 DEF Inv, InboxFit, HandFit, Recorded, Save, roles, GroupsOf
    <3>. QED
      BY <1>2, <2>1, <2>2, <2>3, <2>4, <3>1 DEF HandFit, Eligible
  <2>6. CommandsSettledOnce'
    BY <1>2, <2>1, <2>2, <2>3, <2>4 DEF CommandsSettledOnce, Eligible
  <2>7. InboxFit'
    BY <2>1, <2>2, <2>3, <2>4, <2>5, <2>6 DEF Inv, InboxFit
  <2>. QED
    BY <2>1, <2>7, InboxMoves
<1>. QED
  BY <1>1, <1>2

(* Whatever holds of a message in hand. *)
LEMMA InHand ==
    ASSUME Inv, hand.at \notin {"idle", "save"}
    PROVE  /\ hand \in Place /\ HandFit(hand) /\ hand.m \in Texts /\ Sender \in People
           /\ hand.m \in stored \ (lost \cup queued)
           /\ \A r \in replies : r.m # hand.m
           /\ GroupsOf(Sender, admins) \in span
  BY PlaceHolds, Saying DEF Inv, InboxFit, HandFit, Sender, Recorded

(* A message in hand goes to a place that has nothing more to show for it. *)
LEMMA Onward ==
    ASSUME Inv, hand.at \notin {"idle", "save"}, NEW h \in Place,
           h.at \in {"list", "scope", "admitted", "begin", "find"}, h.m = hand.m, Goto(h)
    PROVE  Inv'
<1>1. HandFit(h)
  BY InHand DEF HandFit, Recorded
<1>. QED
  BY <1>1, GotoKeeps

LEMMA UnderstandKeeps ==
    ASSUME Inv, NEW intent \in Intents, Understand(intent)
    PROVE  Inv'
<1>1. hand.at = "list" /\ Text[hand.m].kind = "ask" /\ hand.m \in Texts
  BY InHand DEF Understand
<1>2. CASE Goto(Idle)
  <2>1. HandFit(Idle) /\ Idle \in Place
    BY IdleFits DEF HandFit, Recorded
  <2>. QED
    BY <1>1, <1>2, <2>1, GotoKeeps DEF Owed
<1>3. CASE Goto([at |-> "scope", m |-> hand.m, intent |-> intent])
  <2>. DEFINE h == [at |-> "scope", m |-> hand.m, intent |-> intent]
  <2>1. h \in Place /\ h.at = "scope" /\ h.m = hand.m
    BY <1>1 DEF Place
  <2>. QED
    BY <1>1, <1>3, <2>1, Onward
<1>. QED
  BY <1>2, <1>3 DEF Understand

(* What the sender administers now is a scope of one moment. *)
LEMMA ScopesFit ==
    ASSUME Inv, hand.at \notin {"idle", "save"}
    PROVE  ChatsOf(Sender) \subseteq Chats /\ InScope(Sender, ChatsOf(Sender))
<1>1. GroupsOf(Sender, admins) \in span
  BY InHand
<1>. QED
  BY <1>1, SettingAssumption DEF SettingAssumption, ChatsOf, GroupsOf, InScope

LEMMA ShowKeeps ==
    ASSUME Inv, hand.at \notin {"idle", "save"}, NEW scope \in SUBSET Chats,
           NEW whose \in SUBSET People,
           whose = {Sender} \/ InScope(Sender, scope),
           Goto([at |-> "show", m |-> hand.m, scope |-> scope, whose |-> whose])
    PROVE  Inv'
<1>. DEFINE h == [at |-> "show", m |-> hand.m, scope |-> scope, whose |-> whose]
<1>1. h \in Place /\ h.at = "show" /\ h.m = hand.m /\ h.scope = scope /\ h.whose = whose
  BY InHand DEF Place
<1>2. HandFit(h)
  BY <1>1, InHand DEF HandFit, Recorded, Sender
<1>. QED
  BY <1>1, <1>2, GotoKeeps

LEMMA ListCommandKeeps ==
    ASSUME Inv, ListCommand
    PROVE  Inv'
<1>1. hand.at = "list" /\ hand.m \in Texts /\ Text[hand.m].chat \subseteq Chats
  BY InHand, Saying DEF ListCommand
<1>2. CASE Text[hand.m].chat = {}
  <2>. DEFINE h == [at |-> "scope", m |-> hand.m, intent |-> "command"]
  <2>1. h \in Place /\ h.at = "scope" /\ h.m = hand.m
    BY <1>1 DEF Place
  <2>2. Goto(h)
    BY <1>2 DEF ListCommand
  <2>. QED
    BY <1>1, <2>1, <2>2, Onward
<1>3. CASE Text[hand.m].chat # {}
  <2>. DEFINE all == \A c \in Text[hand.m].chat : IsAdministrator(Sender, c)
              whose == IF all THEN {} ELSE {Sender}
  <2>1. whose \in SUBSET People /\ (whose = {Sender} \/ all)
    BY <1>1, InHand
  <2>2. all => InScope(Sender, Text[hand.m].chat)
    <3>1. GroupsOf(Sender, admins) \in span
      BY <1>1, InHand
    <3>2. (all /\ Sender \notin Trusted) => Text[hand.m].chat \subseteq GroupsOf(Sender, admins)
      BY <1>1 DEF IsAdministrator, Administers, GroupsOf
    <3>. QED
      BY <3>1, <3>2 DEF InScope
  <2>3. Goto([at |-> "show", m |-> hand.m, scope |-> Text[hand.m].chat, whose |-> whose])
    BY <1>3 DEF ListCommand
  <2>. HIDE DEF all, whose
  <2>. QED
    BY <1>1, <2>1, <2>2, <2>3, ShowKeeps
<1>. QED
  BY <1>2, <1>3

LEMMA ReadScopeKeeps ==
    ASSUME Inv, ReadScope
    PROVE  Inv'
<1>1. hand.at = "scope" /\ hand.m \in Texts /\ Sender \in People
  BY InHand DEF ReadScope
<1>2. ChatsOf(Sender) \subseteq Chats /\ InScope(Sender, ChatsOf(Sender))
  BY <1>1, ScopesFit
<1>3. CASE Goto([at |-> "person", m |-> hand.m, scope |-> ChatsOf(Sender)])
  <2>. DEFINE h == [at |-> "person", m |-> hand.m, scope |-> ChatsOf(Sender)]
  <2>1. h \in Place /\ h.at = "person" /\ h.m = hand.m /\ h.scope = ChatsOf(Sender)
    BY <1>1, <1>2 DEF Place
  <2>2. HandFit(h)
    BY <1>1, <1>2, <2>1, InHand DEF HandFit, Recorded, Sender
  <2>. QED
    BY <1>1, <1>3, <2>1, <2>2, GotoKeeps
<1>4. CASE Goto([at |-> "show", m |-> hand.m, scope |-> ChatsOf(Sender), whose |-> {}])
  BY <1>1, <1>2, <1>4, ShowKeeps
<1>5. CASE Goto([at |-> "admitted", m |-> hand.m])
  <2>. DEFINE h == [at |-> "admitted", m |-> hand.m]
  <2>1. h \in Place /\ h.at = "admitted" /\ h.m = hand.m
    BY <1>1 DEF Place
  <2>. QED
    BY <1>1, <1>5, <2>1, Onward
<1>. QED
  BY <1>3, <1>4, <1>5 DEF ReadScope

LEMMA ReadAdmittedKeeps ==
    ASSUME Inv, ReadAdmitted
    PROVE  Inv'
<1>1. Admitted \subseteq Chats
  BY SettingAssumption DEF SettingAssumption, Admitted
<1>. QED
  BY <1>1, InHand, ShowKeeps DEF ReadAdmitted

LEMMA AskPersonKeeps ==
    ASSUME Inv, AskPerson
    PROVE  Inv'
<1>1. hand.at = "person"
  BY DEF AskPerson
<1>2. CASE Answer(FALSE, {})
  BY <1>1, <1>2, RefusalKeeps
<1>3. CASE Goto([hand EXCEPT !.at = "resolve"])
  <2>. DEFINE h == [hand EXCEPT !.at = "resolve"]
  <2>1. h \in Place /\ h.at = "resolve" /\ h.m = hand.m /\ h.scope = hand.scope
    BY <1>1, InHand DEF Place, Idle
  <2>2. HandFit(h)
    BY <1>1, <2>1, InHand DEF HandFit, Recorded
  <2>. QED
    BY <1>1, <1>3, <2>1, <2>2, GotoKeeps
<1>. QED
  BY <1>2, <1>3 DEF AskPerson

LEMMA ResolveKeeps ==
    ASSUME Inv, Resolve
    PROVE  Inv'
<1>. DEFINE meant == Meant(hand.scope, Text[hand.m].about)
<1>1. hand.at = "resolve" /\ hand.scope \subseteq Chats /\ InScope(Sender, hand.scope)
      /\ meant \subseteq People
  BY InHand, PlaceHolds DEF Resolve, HandFit, Sender, Meant
<1>2. CASE Answer(FALSE, {})
  BY <1>1, <1>2, RefusalKeeps
<1>3. CASE Goto([at |-> "show", m |-> hand.m, scope |-> hand.scope, whose |-> meant])
  BY <1>1, <1>3, ShowKeeps
<1>. QED
  BY <1>2, <1>3 DEF Resolve

LEMMA ShownKeeps ==
    ASSUME Inv, Show
    PROVE  Inv'
<1>. DEFINE shows == Listed(hand.scope, hand.whose)
<1>1. hand.at = "show" /\ shows \in SUBSET DOMAIN tasks
  BY DEF Show, Listed
<1>. HIDE DEF shows
<1>2. Answer(TRUE, shows)
  BY DEF Show, shows
<1>. QED
  BY <1>1, <1>2, AnswerKeeps

LEMMA BeginKeeps ==
    ASSUME Inv, Begin
    PROVE  Inv'
<1>. DEFINE h == [at |-> "find", m |-> hand.m, by |-> hand.by, scope |-> Admitted]
<1>1. hand.at = "begin" /\ hand.m \in Texts /\ hand.by \in {"review", "note", "change"}
  BY InHand, PlaceHolds DEF Begin
<1>2. Admitted \subseteq Chats
  BY SettingAssumption DEF SettingAssumption, Admitted
<1>3. h \in Place /\ h.at = "find" /\ h.m = hand.m
  BY <1>1, <1>2 DEF Place
<1>. QED
  BY <1>1, <1>3, Onward DEF Begin

LEMMA FindKeeps ==
    ASSUME Inv, Find
    PROVE  Inv'
<1>1. hand.at = "find" /\ hand.m \in Texts /\ hand.by \in {"review", "note", "change"}
  BY InHand, PlaceHolds DEF Find
<1>2. CASE Found(Target, hand.by, hand.scope)
  <2>. DEFINE h == [at |-> "judge", m |-> hand.m, by |-> hand.by, read |-> tasks[Target]]
  <2>1. Target \in DOMAIN tasks /\ tasks[Target] \in TaskRow
    BY <1>2, Element DEF Found, Inv, TasksFit
  <2>2. h \in Place /\ h.at = "judge" /\ h.m = hand.m
    BY <1>1, <2>1 DEF Place
  <2>3. HandFit(h)
    BY <1>1, <2>1, <2>2, InHand DEF HandFit, Recorded, Target
  <2>4. Goto(h)
    BY <1>2 DEF Find
  <2>. QED
    BY <1>1, <2>2, <2>3, <2>4, GotoKeeps
<1>3. CASE ~Found(Target, hand.by, hand.scope) /\ PassesOn(hand.by)
  <2>. DEFINE h == PassedOn(hand.m, hand.by)
  <2>1. h \in Place /\ h.at = "begin" /\ h.m = hand.m
    BY <1>1, <1>3 DEF Place, PassedOn, PassesOn
  <2>2. Goto(h)
    BY <1>3 DEF Find
  <2>. QED
    BY <1>1, <2>1, <2>2, Onward
<1>4. CASE ~Found(Target, hand.by, hand.scope) /\ ~PassesOn(hand.by)
  <2>1. Answer(FALSE, {})
    BY <1>4 DEF Find
  <2>. QED
    BY <1>1, <2>1, RefusalKeeps
<1>. QED
  BY <1>2, <1>3, <1>4

LEMMA JudgeKeeps ==
    ASSUME Inv, Judge
    PROVE  Inv'
<1>1. hand.at = "judge"
  BY DEF Judge
<1>2. CASE Answer(FALSE, {})
  BY <1>1, <1>2, RefusalKeeps
<1>3. CASE Goto([hand EXCEPT !.at = "write"])
  <2>. DEFINE h == [hand EXCEPT !.at = "write"]
  <2>1. h \in Place /\ h.at = "write" /\ h.m = hand.m
    BY <1>1, InHand DEF Place, Idle
  <2>2. HandFit(h)
    BY <1>1, <2>1, InHand DEF HandFit, Recorded
  <2>. QED
    BY <1>1, <1>3, <2>1, <2>2, GotoKeeps
<1>. QED
  BY <1>2, <1>3 DEF Judge

LEMMA MisreadKeeps ==
    ASSUME Inv, Misread
    PROVE  Inv'
  BY RefusalKeeps DEF Misread

LEMMA CrashKeeps ==
    ASSUME Inv, Crash
    PROVE  Inv'
<1>1. left' \in Budget
  BY Used DEF Inv, Crash
<1>2. hand.at # "idle"
  BY DEF Crash, Inv, InboxFit, Place, Idle
<1>3. HandFit(hand)' /\ hand' \in Place
  BY IdleFits DEF Crash, HandFit, Recorded
<1>4. CommandsSettledOnce' /\ lost' \subseteq stored
  <2>1. CASE hand.at = "save"
    BY <2>1 DEF Crash, Inv, InboxFit, CommandsSettledOnce
  <2>2. CASE hand.at # "save"
    <3>1. hand.m \in stored /\ \A r \in replies : r.m # hand.m
      BY <1>2, <2>2, InHand
    <3>. QED
      BY <1>2, <2>2, <3>1 DEF Crash, Inv, InboxFit, CommandsSettledOnce
  <2>. QED
    BY <2>1, <2>2
<1>5. InboxFit'
  BY <1>3, <1>4 DEF Inv, InboxFit, Crash
<1>. QED
  BY <1>1, <1>5, InboxMoves DEF Crash

(* A step of the listener that may also change a task and add a note. *)
LEMMA Written ==
    ASSUME Inv, hand.at \notin {"idle", "save"}, NEW ok \in BOOLEAN, Reply(ok, {}),
           TasksFit', TasksGrow, NotesFit', NotesGrow,
           UNCHANGED <<roles, creations, stored, queued, forms, passed>>
    PROVE  Inv'
<1>1. RolesFit'
  BY RolesStay
<1>2. InboxFit' /\ left' \in Budget
  BY Replied
<1>3. CreationsFit' /\ CreationsGrow
  BY CreationsKept DEF Inv
<1>4. FormsFit'
  BY <1>3, FormsKept DEF Inv
<1>. QED
  BY <1>1, <1>2, <1>3, <1>4 DEF Inv

LEMMA NotedKeeps ==
    ASSUME Inv, NEW n, NEW read, Notable(n), UNCHANGED tasks, notes' = Noted(n, read),
           n.key \in ({"note", "message"} \X Texts) \cup ({"form", "page"} \X Nat),
           n.by \in People, n.kind \in NoteKinds, n.says \in Nat,
           n.key[1] = "form" => Keyed(n.key) = {}
    PROVE  /\ NotesFit' /\ NotesGrow /\ TasksFit' /\ TasksGrow
           /\ Len(notes') \in DOMAIN notes'
           /\ LET new == notes'[Len(notes')]
              IN  /\ new.key = n.key /\ new.by = n.by /\ new.task = n.task
                  /\ new.kind = n.kind /\ new.says = n.says
<1>. DEFINE new == [key |-> n.key, by |-> n.by, task |-> n.task, kind |-> n.kind,
                    says |-> n.says, cycle |-> tasks[n.task].cycle]
<1>1. TasksFit' /\ TasksGrow
  BY TasksStay DEF Inv
<1>2. n.task \in DOMAIN tasks /\ tasks[n.task] \in TaskRow
  BY Element DEF Notable, Inv, TasksFit
<1>3. tasks[n.task].cycle \in 0..MaxCycles
  BY <1>2 DEF TaskRow
<1>4. /\ new \in NoteRow' /\ new.cycle = tasks'[new.task].cycle /\ new.key = n.key
      /\ new.by = n.by /\ new.task = n.task /\ new.kind = n.kind /\ new.says = n.says
  BY <1>2, <1>3 DEF NoteRow
<1>5. notes' = Append(notes, new)
  BY DEF Noted, CycleAt
<1>. HIDE DEF new
<1>6. new.key[1] = "form" => \A i \in DOMAIN notes : notes[i].key # new.key
  BY <1>4 DEF Keyed
<1>7. NotesFit' /\ NotesGrow /\ Len(notes') \in DOMAIN notes' /\ notes'[Len(notes')] = new
  BY <1>1, <1>4, <1>5, <1>6, NoteAppended DEF Inv
<1>. QED
  BY <1>1, <1>4, <1>7

LEMMA WriteNoteKeeps ==
    ASSUME Inv, NEW kind \in NoteKinds, WriteNote(kind)
    PROVE  Inv'
<1>. DEFINE n == [key |-> <<"note", hand.m>>, by |-> Sender, chat |-> hand.read.chat,
                  task |-> Target, kind |-> kind, says |-> 0]
<1>1. hand.at = "write" /\ hand.m \in Texts /\ Sender \in People
  BY InHand DEF WriteNote
<1>2. /\ n.key \in ({"note", "message"} \X Texts) \cup ({"form", "page"} \X Nat)
      /\ n.key[1] # "form"
      /\ n.by \in People /\ n.kind \in NoteKinds /\ n.says \in Nat
  BY <1>1
<1>3. /\ \/ Notable(n) /\ notes' = Noted(n, hand.read) /\ Reply(TRUE, {})
         \/ UNCHANGED notes /\ Reply(FALSE, {})
      /\ UNCHANGED <<roles, tasks, creations, stored, queued, forms, passed>>
  BY DEF WriteNote
<1>. HIDE DEF n
<1>4. CASE Notable(n) /\ notes' = Noted(n, hand.read) /\ Reply(TRUE, {})
  <2>1. NotesFit' /\ NotesGrow /\ TasksFit' /\ TasksGrow
    BY <1>2, <1>3, <1>4, NotedKeeps
  <2>. QED
    BY <1>1, <1>3, <1>4, <2>1, Written
<1>5. CASE UNCHANGED notes /\ Reply(FALSE, {})
  <2>1. NotesFit' /\ NotesGrow /\ TasksFit' /\ TasksGrow
    BY <1>3, <1>5, TasksStay, NotesKept DEF Inv
  <2>. QED
    BY <1>1, <1>3, <1>5, <2>1, Written
<1>. QED
  BY <1>3, <1>4, <1>5

LEMMA ChangeNoted ==
    ASSUME Inv, NEW t \in DOMAIN tasks, NEW action \in TaskActions,
           Fits(action, tasks[t]), NEW p \in People,
           NEW source \in {"message", "page"}, NEW id,
           IF source = "message" THEN id \in Texts ELSE id \in Nat,
           tasks' = [tasks EXCEPT ![t] = Changed(action, tasks[t])],
           notes' = NotedChange(source, id, action, p, t)
    PROVE  TasksFit' /\ TasksGrow /\ NotesFit' /\ NotesGrow
<1>1. /\ TasksFit' /\ TasksGrow
      /\ DOMAIN tasks' = DOMAIN tasks /\ tasks'[t] = Changed(action, tasks[t])
  BY TaskChanged DEF Inv
<1>2. CASE UNCHANGED notes
  BY <1>1, <1>2, NotesKept DEF Inv
<1>3. CASE action \in {"reopen", "complete"} /\ notes' # notes
  <2>. DEFINE new == [key |-> <<source, id>>, by |-> p, task |-> t, says |-> 0,
                      kind |-> IF action = "complete" THEN "completion" ELSE "reopen",
                      cycle |-> Changed(action, tasks[t]).cycle]
  <2>1. tasks'[t] \in TaskRow
    BY <1>1, Element DEF TasksFit
  <2>2. Changed(action, tasks[t]).cycle \in 0..MaxCycles
    BY <1>1, <2>1 DEF TaskRow
  <2>3. new \in NoteRow' /\ new.cycle = tasks'[new.task].cycle /\ new.key[1] # "form"
    BY <1>1, <2>2 DEF NoteRow, NoteKinds
  <2>4. notes' = Append(notes, new)
    BY <1>3 DEF NotedChange
  <2>. HIDE DEF new
  <2>. QED
    BY <1>1, <2>3, <2>4, NoteAppended DEF Inv
<1>. QED
  BY <1>2, <1>3 DEF NotedChange

LEMMA WriteChangeKeeps ==
    ASSUME Inv, NEW action \in {"complete", "cancel", "accept", "reopen"},
           WriteChange(action)
    PROVE  Inv'
<1>1. /\ hand.at = "write" /\ hand.m \in Texts /\ Sender \in People
      /\ Target \in DOMAIN tasks /\ action \in TaskActions
  BY InHand DEF WriteChange, HandFit, Target, TaskActions
<1>2. UNCHANGED <<roles, creations, stored, queued, forms, passed>>
  BY DEF WriteChange
<1>3. CASE /\ Fits(action, tasks[Target]) /\ Reply(TRUE, {})
           /\ tasks' = [tasks EXCEPT ![Target] = Changed(action, tasks[Target])]
           /\ notes' = NotedChange("message", hand.m, action, Sender, Target)
  <2>1. TasksFit' /\ TasksGrow /\ NotesFit' /\ NotesGrow
    BY <1>1, <1>3, ChangeNoted
  <2>. QED
    BY <1>1, <1>2, <1>3, <2>1, Written
<1>4. CASE UNCHANGED <<tasks, notes>> /\ Reply(FALSE, {})
  <2>1. TasksFit' /\ TasksGrow /\ NotesFit' /\ NotesGrow
    BY <1>4, TasksStay, NotesKept DEF Inv
  <2>. QED
    BY <1>1, <1>2, <1>4, <2>1, Written
<1>. QED
  BY <1>3, <1>4 DEF WriteChange

LEMMA ListenerKeeps ==
    ASSUME Inv, Listener
    PROVE  Inv'
  BY ReceiveKeeps, SaveKeeps, UnderstandKeeps, ListCommandKeeps, ReadScopeKeeps,
     ReadAdmittedKeeps, AskPersonKeeps, ResolveKeeps, ShownKeeps, BeginKeeps, FindKeeps,
     JudgeKeeps, MisreadKeeps, WriteNoteKeeps, WriteChangeKeeps, CrashKeeps DEF Listener

-----------------------------------------------------------------------------
(* The pages. *)

LEMMA PageHolds ==
    ASSUME NEW h \in PagePlace
    PROVE  /\ h.at \in {"idle", "enter", "write", "read"}
           /\ h.at # "idle" => h.form \in Forms
           /\ h.at = "read" => h.id \in Nat
  BY DEF PagePlace, Idle

(* A page goes to another place; what it reads back there is on record. *)
LEMMA PageMoves ==
    ASSUME Inv, NEW t \in Threads, NEW h \in PagePlace,
           h.at = "read" => OnRecord(notes', creations', h.form, h.id),
           pages' = [pages EXCEPT ![t] = h], NotesGrow, CreationsGrow,
           \A a \in answers' \ answers :
               a.form \in Forms /\ a.id \in Nat /\ OnRecord(notes, creations, a.form, a.id)
    PROVE  FormsFit'
<1>1. pages \in [Threads -> PagePlace]
  BY DEF Inv, FormsFit
<1>2. pages' \in [Threads -> PagePlace]
  BY <1>1
<1>3. \A u \in Threads :
         pages'[u].at = "read" => OnRecord(notes', creations', pages'[u].form, pages'[u].id)
  <2>1. pages'[t] = h /\ \A u \in Threads : u # t => pages'[u] = pages[u]
    BY <1>1
  <2>2. \A u \in Threads :
           pages[u].at = "read" => OnRecord(notes', creations', pages[u].form, pages[u].id)
    BY RecordKept DEF Inv, FormsFit
  <2>. QED
    BY <2>1, <2>2 DEF OnRecord
<1>4. \A a \in answers' : /\ a.form \in Forms /\ a.id \in Nat
                           /\ OnRecord(notes', creations', a.form, a.id)
  BY RecordKept DEF Inv, FormsFit
<1>. QED
  BY <1>2, <1>3, <1>4 DEF FormsFit, OnRecord

(* A step of a page that leaves roles and inbox alone. *)
LEMMA PageSteps ==
    ASSUME Inv, UNCHANGED <<roles, inbox, passed>>, left' \in Budget,
           TasksFit', TasksGrow, NotesFit', CreationsFit', FormsFit'
    PROVE  Inv'
<1>1. RolesFit' /\ SpanGrows
  BY RolesStay DEF inbox
<1>2. InboxFit'
  BY <1>1, InboxKept DEF Inv
<1>. QED
  BY <1>1, <1>2 DEF Inv

LEMMA SendKeeps ==
    ASSUME Inv, NEW t \in Threads, NEW f \in Forms, Send(t, f)
    PROVE  Inv'
<1>. DEFINE h == [at |-> "enter", form |-> f]
<1>1. h \in PagePlace /\ h.at = "enter"
  BY DEF PagePlace
<1>2. left' \in Budget
  BY Used DEF Inv, Send
<1>3. /\ TasksFit' /\ TasksGrow /\ NotesFit' /\ CreationsFit' /\ NotesGrow /\ CreationsGrow
  BY TablesStay DEF Send
<1>4. pages' = [pages EXCEPT ![t] = h] /\ answers' = answers
      /\ UNCHANGED <<roles, inbox, passed>>
  BY DEF Send
<1>. HIDE DEF h
<1>5. FormsFit'
  BY <1>1, <1>3, <1>4, PageMoves
<1>. QED
  BY <1>2, <1>3, <1>4, <1>5, PageSteps

(* A turn, once the tables are seen to be fit. *)
LEMMA Turned ==
    ASSUME Inv, NEW t \in Threads, NEW h \in PagePlace, Turn(t, h),
           h.at = "read" => OnRecord(notes', creations', h.form, h.id),
           TasksFit', TasksGrow, NotesFit', NotesGrow, CreationsFit', CreationsGrow
    PROVE  Inv'
<1>1. FormsFit'
  BY PageMoves DEF Turn
<1>. QED
  BY <1>1, PageSteps DEF Turn, Inv

LEMMA TurnsIdle ==
    Idle \in PagePlace /\ Idle.at = "idle"
  BY DEF PagePlace, Idle

LEMMA EnterKeeps ==
    ASSUME Inv, NEW t \in Threads, Enter(t)
    PROVE  Inv'
<1>. DEFINE f == pages[t].form
            h == [at |-> "write", form |-> f]
<1>1. f \in Forms
  BY PageHolds DEF Inv, FormsFit, Enter
<1>2. h \in PagePlace /\ h.at = "write"
  BY <1>1 DEF PagePlace
<1>3. Turn(t, h) \/ Turn(t, Idle)
  BY DEF Enter
<1>4. /\ TasksFit' /\ TasksGrow /\ NotesFit' /\ CreationsFit' /\ NotesGrow /\ CreationsGrow
  BY TablesStay DEF Enter
<1>. HIDE DEF h
<1>. QED
  BY <1>2, <1>3, <1>4, TurnsIdle, Turned

LEMMA ReadBackKeeps ==
    ASSUME Inv, NEW t \in Threads, pages[t].at = "write", NEW i \in Nat, ReadBack(t, i),
           OnRecord(notes', creations', pages[t].form, i),
           TasksFit', TasksGrow, NotesFit', NotesGrow, CreationsFit', CreationsGrow
    PROVE  Inv'
<1>. DEFINE f == pages[t].form
            h == [at |-> "read", form |-> f, id |-> i]
<1>1. f \in Forms
  BY PageHolds DEF Inv, FormsFit
<1>2. h \in PagePlace /\ h.form = f /\ h.id = i
  BY <1>1 DEF PagePlace
<1>3. Turn(t, h)
  BY DEF ReadBack
<1>4. OnRecord(notes', creations', h.form, h.id)
  BY <1>2 DEF OnRecord
<1>. HIDE DEF h
<1>. QED
  BY <1>2, <1>3, <1>4, Turned

LEMMA WriteFormKeeps ==
    ASSUME Inv, NEW t \in Threads, WriteForm(t)
    PROVE  Inv'
<1>. DEFINE f == pages[t].form
            n == [key |-> <<"form", f.request>>, by |-> f.by, chat |-> f.chat,
                  task |-> f.task, kind |-> f.kind, says |-> f.says]
<1>1. pages[t].at = "write" /\ f \in Forms /\ f.what = "note"
  BY PageHolds DEF WriteForm, Inv, FormsFit
<1>2. f \in NoteForm
  BY <1>1, FormAssumption DEF FormAssumption, Creation
<1>3. /\ n.key = <<"form", f.request>> /\ n.key[1] = "form"
      /\ n.key \in ({"note", "message"} \X Texts) \cup ({"form", "page"} \X Nat)
      /\ n.by = f.by /\ n.by \in People /\ n.task = f.task
      /\ n.kind = f.kind /\ n.kind \in NoteKinds /\ n.says = f.says /\ n.says \in Nat
  BY <1>2 DEF NoteForm
<1>4. /\ UNCHANGED <<tasks, creations>>
      /\ \/ \E i \in Keyed(n.key) :
               /\ IF SameNote(i, n) THEN ReadBack(t, i) ELSE Turn(t, Idle)
               /\ UNCHANGED notes
         \/ /\ Keyed(n.key) = {} /\ Notable(n)
            /\ notes' = Noted(n, tasks[n.task])
            /\ ReadBack(t, Len(notes'))
         \/ /\ Keyed(n.key) = {} /\ ~Notable(n)
            /\ Turn(t, Idle)
            /\ UNCHANGED notes
  BY DEF WriteForm
<1>. HIDE DEF n
<1>5. ASSUME UNCHANGED notes, Turn(t, Idle)
      PROVE  Inv'
  BY <1>4, <1>5, TablesStay, TurnsIdle, Turned
<1>6. ASSUME NEW i \in Keyed(n.key), SameNote(i, n), ReadBack(t, i), UNCHANGED notes
      PROVE  Inv'
  <2>1. i \in DOMAIN notes /\ i \in Nat
    BY <1>6 DEF Keyed, Inv, NotesFit
  <2>2. OnRecord(notes, creations, f, i)
    BY <1>1, <1>3, <1>6, <2>1 DEF OnRecord, Keyed, SameNote
  <2>3. /\ TasksFit' /\ TasksGrow /\ NotesFit' /\ CreationsFit' /\ NotesGrow
        /\ CreationsGrow
    BY <1>4, <1>6, TablesStay
  <2>4. OnRecord(notes', creations', pages[t].form, i)
    BY <2>2, <1>4, <1>6, <1>1 DEF OnRecord, ReadBack, Turn
  <2>. QED
    BY <1>1, <1>6, <2>1, <2>3, <2>4, ReadBackKeeps
<1>7. ASSUME Keyed(n.key) = {}, Notable(n), notes' = Noted(n, tasks[n.task]),
             ReadBack(t, Len(notes'))
      PROVE  Inv'
  <2>1. /\ NotesFit' /\ NotesGrow /\ TasksFit' /\ TasksGrow
        /\ Len(notes') \in DOMAIN notes'
        /\ LET new == notes'[Len(notes')]
           IN  /\ new.key = n.key /\ new.by = n.by /\ new.task = n.task
               /\ new.kind = n.kind /\ new.says = n.says
    BY <1>3, <1>4, <1>7, NotedKeeps
  <2>2. CreationsFit' /\ CreationsGrow
    BY <1>4, <2>1, CreationsKept DEF Inv
  <2>3. Len(notes') \in Nat
    BY <2>1 DEF NotesFit
  <2>4. OnRecord(notes', creations', f, Len(notes'))
    BY <1>1, <1>3, <2>1 DEF OnRecord
  <2>. QED
    BY <1>1, <1>7, <2>1, <2>2, <2>3, <2>4, ReadBackKeeps
<1>. QED
  BY <1>4, <1>5, <1>6, <1>7

LEMMA CreateKeeps ==
    ASSUME Inv, NEW t \in Threads, Create(t)
    PROVE  Inv'
<1>. DEFINE f == pages[t].form
<1>1. pages[t].at = "write" /\ f \in Forms /\ f.what = "create"
  BY PageHolds DEF Create, Inv, FormsFit
<1>2. f \in Creation
  BY <1>1, FormAssumption DEF FormAssumption, NoteForm
<1>3. ASSUME UNCHANGED <<tasks, notes, creations>>, Turn(t, Idle)
      PROVE  Inv'
  BY <1>3, TablesStay, TurnsIdle, Turned
<1>4. ASSUME NEW i \in Requested(f.request), SameCreation(i, f), ReadBack(t, i),
             UNCHANGED <<tasks, notes, creations>>
      PROVE  Inv'
  <2>1. i \in DOMAIN creations /\ i \in Nat
    BY <1>4 DEF Requested, Inv, CreationsFit
  <2>2. OnRecord(notes, creations, f, i)
    BY <1>1, <1>4, <2>1 DEF OnRecord, SameCreation
  <2>3. /\ TasksFit' /\ TasksGrow /\ NotesFit' /\ CreationsFit' /\ NotesGrow
        /\ CreationsGrow
    BY <1>4, TablesStay
  <2>4. OnRecord(notes', creations', pages[t].form, i)
    BY <2>2, <1>1, <1>4 DEF OnRecord
  <2>. QED
    BY <1>1, <1>4, <2>1, <2>3, <2>4, ReadBackKeeps
<1>5. ASSUME Requested(f.request) = {}, UNCHANGED notes,
             tasks' = Append(tasks, CreatedTask(f)),
             creations' = Append(creations, [form |-> f, task |-> Len(tasks')]),
             ReadBack(t, Len(creations'))
      PROVE  Inv'
  <2>1. CreatedTask(f) \in TaskRow /\ CreatedTask(f).status = "open"
    BY <1>2, BoundAssumption DEF BoundAssumption, Creation, CreatedTask, TaskRow
  <2>2. TasksFit' /\ TasksGrow /\ Len(tasks') \in DOMAIN tasks'
    BY <1>5, <2>1, TaskAppended DEF Inv
  <2>3. /\ CreationsFit' /\ CreationsGrow
        /\ Len(creations') \in DOMAIN creations' /\ creations'[Len(creations')].form = f
    BY <1>1, <1>5, <2>2, CreationAppended DEF Inv
  <2>4. NotesFit' /\ NotesGrow
    BY <1>5, <2>2, NotesKept DEF Inv
  <2>5. Len(creations') \in Nat
    BY <2>3 DEF CreationsFit
  <2>6. OnRecord(notes', creations', f, Len(creations'))
    BY <1>1, <2>3 DEF OnRecord
  <2>. QED
    BY <1>1, <1>5, <2>2, <2>3, <2>4, <2>5, <2>6, ReadBackKeeps
<1>. QED
  BY <1>3, <1>4, <1>5 DEF Create

LEMMA TellKeeps ==
    ASSUME Inv, NEW t \in Threads, Tell(t)
    PROVE  Inv'
<1>. DEFINE a == [form |-> pages[t].form, id |-> pages[t].id]
<1>1. /\ a.form = pages[t].form /\ a.id = pages[t].id
      /\ a.form \in Forms /\ a.id \in Nat /\ OnRecord(notes, creations, a.form, a.id)
  BY PageHolds DEF Tell, Inv, FormsFit
<1>2. /\ TasksFit' /\ TasksGrow /\ NotesFit' /\ CreationsFit' /\ NotesGrow /\ CreationsGrow
  BY TablesStay DEF Tell
<1>3. answers' \ answers \subseteq {a} /\ pages' = [pages EXCEPT ![t] = Idle]
      /\ UNCHANGED <<roles, inbox, passed, left>>
  BY DEF Tell
<1>. HIDE DEF a
<1>4. FormsFit'
  BY <1>1, <1>2, <1>3, TurnsIdle, PageMoves
<1>. QED
  BY <1>2, <1>3, <1>4, PageSteps DEF Inv

LEMMA HangupKeeps ==
    ASSUME Inv, NEW t \in Threads, Hangup(t)
    PROVE  Inv'
<1>1. left' \in Budget
  BY Used DEF Inv, Hangup
<1>2. /\ TasksFit' /\ TasksGrow /\ NotesFit' /\ CreationsFit' /\ NotesGrow /\ CreationsGrow
  BY TablesStay DEF Hangup
<1>3. FormsFit'
  BY <1>2, TurnsIdle, PageMoves DEF Hangup
<1>. QED
  BY <1>1, <1>2, <1>3, PageSteps DEF Hangup

-----------------------------------------------------------------------------
(* Cards and pages act on tasks, the clock and the directory move. *)

LEMMA ActKeeps ==
    ASSUME Inv, NEW p \in People, NEW t \in DOMAIN tasks, NEW action \in TaskActions,
           Act(p, t, action)
    PROVE  Inv'
<1>1. left.acts \in Nat /\ left' \in Budget
  BY Used DEF Inv, Act, Budget
<1>2. TasksFit' /\ TasksGrow /\ NotesFit' /\ NotesGrow
  BY <1>1, ChangeNoted DEF Act
<1>3. CreationsFit' /\ CreationsGrow
  BY <1>2, CreationsKept DEF Inv, Act
<1>4. FormsFit'
  BY <1>2, <1>3, FormsKept DEF Inv, Act
<1>. QED
  BY <1>1, <1>2, <1>3, <1>4, PageSteps DEF Act

LEMMA ReassignKeeps ==
    ASSUME Inv, NEW p \in People, NEW t \in DOMAIN tasks, NEW owners \in SUBSET People,
           Reassign(p, t, owners)
    PROVE  Inv'
<1>1. left' \in Budget
  BY Used DEF Inv, Reassign
<1>2. tasks' = [tasks EXCEPT ![t].owners = owners]
      /\ UNCHANGED <<roles, notes, creations, inbox, forms, passed>>
  BY DEF Reassign
<1>3. TasksFit' /\ TasksGrow
  <2>1. tasks \in Seq(TaskRow) /\ \A u \in DOMAIN tasks : tasks[u] \in TaskRow
    BY Element DEF Inv, TasksFit
  <2>. DEFINE new == [tasks[t] EXCEPT !.owners = owners]
  <2>2. /\ new \in TaskRow /\ new.chat = tasks[t].chat /\ new.cycle = tasks[t].cycle
        /\ new.status = tasks[t].status /\ new.review = tasks[t].review
    BY <2>1 DEF TaskRow
  <2>3. tasks' = [tasks EXCEPT ![t] = new]
    BY <1>2
  <2>. HIDE DEF new
  <2>4. tasks' \in Seq(TaskRow) /\ DOMAIN tasks' = DOMAIN tasks /\ tasks'[t] = new
        /\ \A u \in DOMAIN tasks : u # t => tasks'[u] = tasks[u]
    BY <2>1, <2>2, <2>3
  <2>5. \A u \in DOMAIN tasks : tasks[u].cycle \in Int
    BY <2>1, BoundAssumption DEF TaskRow, BoundAssumption
  <2>6. \A u \in DOMAIN tasks :
           tasks'[u].status = tasks[u].status /\ tasks'[u].review = tasks[u].review
           /\ tasks'[u].chat = tasks[u].chat /\ tasks'[u].cycle = tasks[u].cycle
    BY <2>2, <2>4
  <2>7. \A u \in DOMAIN tasks :
           tasks[u].status = "done" => tasks[u].review \in {"pending", "accepted"}
    BY DEF Inv, TasksFit
  <2>8. TasksFit'
    BY <2>4, <2>6, <2>7 DEF TasksFit
  <2>. QED
    BY <2>4, <2>5, <2>6, <2>8 DEF TasksGrow
<1>4. NotesFit' /\ NotesGrow
  BY <1>2, <1>3, NotesKept DEF Inv
<1>5. CreationsFit' /\ CreationsGrow
  BY <1>2, <1>3, CreationsKept DEF Inv
<1>6. FormsFit'
  BY <1>2, <1>4, <1>5, FormsKept DEF Inv
<1>. QED
  BY <1>1, <1>2, <1>3, <1>4, <1>5, <1>6, PageSteps

LEMMA DeadlineKeeps ==
    ASSUME Inv, DeadlinePasses
    PROVE  Inv'
<1>1. left' \in Budget
  BY Used DEF Inv, DeadlinePasses
<1>2. RolesFit' /\ SpanGrows
  BY RolesStay DEF DeadlinePasses, inbox
<1>3. /\ TasksFit' /\ TasksGrow /\ NotesFit' /\ CreationsFit' /\ NotesGrow /\ CreationsGrow
  BY TablesStay DEF DeadlinePasses
<1>4. FormsFit' /\ InboxFit'
  BY <1>2, <1>3, FormsKept, InboxKept DEF Inv, DeadlinePasses
<1>. QED
  BY <1>1, <1>2, <1>3, <1>4 DEF Inv, DeadlinePasses

LEMMA RolesChange ==
    ASSUME Inv, RolesFit', SpanGrows, left' \in Budget,
           UNCHANGED <<tasks, notes, creations, inbox, forms, passed>>
    PROVE  Inv'
<1>1. /\ TasksFit' /\ TasksGrow /\ NotesFit' /\ CreationsFit' /\ NotesGrow /\ CreationsGrow
  BY TablesStay
<1>2. FormsFit' /\ InboxFit'
  BY <1>1, FormsKept, InboxKept DEF Inv
<1>. QED
  BY <1>1, <1>2 DEF Inv

LEMMA RolesRecorded ==
    ASSUME Inv, NEW table, table \subseteq Chats \X People, Administering(table),
           UNCHANGED hand
    PROVE  admins' = table /\ span' \subseteq SUBSET Chats /\ SpanGrows
<1>1. admins' = table /\ span \subseteq SUBSET Chats
      /\ span' = IF hand = Idle THEN span ELSE span \cup {GroupsOf(Sender, table)}
  BY DEF Administering, Inv, RolesFit
<1>2. GroupsOf(Sender, table) \subseteq Chats
  BY DEF GroupsOf
<1>3. Recorded(hand)'
  BY <1>1 DEF Recorded, Idle, Sender, GroupsOf
<1>. QED
  BY <1>1, <1>2, <1>3 DEF SpanGrows

LEMMA DirectoryKeeps ==
    ASSUME Inv, NEW c \in Chats, NEW p \in People,
           Appoint(c, p) \/ Dismiss(c, p) \/ Leave(c, p) \/ Join(c, p)
    PROVE  Inv'
<1>1. left' \in Budget
  BY Used DEF Inv, Appoint, Dismiss, Leave, Join
<1>2. RolesFit
  BY DEF Inv
<1>3. CASE Appoint(c, p)
  <2>1. admins' \subseteq Chats \X People /\ span' \subseteq SUBSET Chats /\ SpanGrows
    BY <1>2, <1>3, RolesRecorded DEF Appoint, RolesFit, inbox
  <2>2. RolesFit'
    BY <1>2, <1>3, <2>1 DEF Appoint, RolesFit
  <2>. QED
    BY <1>1, <1>3, <2>1, <2>2, RolesChange DEF Appoint
<1>4. CASE Dismiss(c, p)
  <2>1. admins' \subseteq Chats \X People /\ span' \subseteq SUBSET Chats /\ SpanGrows
    BY <1>2, <1>4, RolesRecorded DEF Dismiss, RolesFit, inbox
  <2>2. RolesFit'
    BY <1>2, <1>4, <2>1 DEF Dismiss, RolesFit
  <2>. QED
    BY <1>1, <1>4, <2>1, <2>2, RolesChange DEF Dismiss
<1>5. CASE Leave(c, p)
  <2>1. admins' \subseteq Chats \X People /\ span' \subseteq SUBSET Chats /\ SpanGrows
    BY <1>2, <1>5, RolesRecorded DEF Leave, RolesFit, inbox
  <2>2. RolesFit'
    BY <1>2, <1>5, <2>1 DEF Leave, RolesFit
  <2>. QED
    BY <1>1, <1>5, <2>1, <2>2, RolesChange DEF Leave
<1>6. CASE Join(c, p)
  <2>1. UNCHANGED <<admins, span, hand>>
    BY <1>6 DEF Join, inbox
  <2>2. SpanGrows
    BY <2>1 DEF Inv, InboxFit, HandFit, SpanGrows, Recorded, GroupsOf
  <2>3. RolesFit'
    BY <1>2, <1>6, <2>1 DEF Join, RolesFit
  <2>. QED
    BY <1>1, <1>6, <2>2, <2>3, RolesChange DEF Join
<1>. QED
  BY <1>3, <1>4, <1>5, <1>6

LEMMA InitKeeps ==
    ASSUME Init
    PROVE  Inv
<1>1. RolesFit
  BY StartAssumption DEF Init, RolesFit, StartAssumption
<1>2. TasksFit
  BY StartAssumption DEF Init, TasksFit, StartAssumption
<1>3. NotesFit /\ CreationsFit
  BY DEF Init, NotesFit, NotesFollowCycles, CreationsFit
<1>4. InboxFit
  BY IdleFits DEF Init, InboxFit, HandFit, Recorded, CommandsSettledOnce
<1>5. FormsFit
  BY TurnsIdle DEF Init, FormsFit
<1>. QED
  BY <1>1, <1>2, <1>3, <1>4, <1>5, BoundAssumption DEF Init, Inv, BoundAssumption

LEMMA StutterKeeps ==
    ASSUME Inv, UNCHANGED vars
    PROVE  Inv'
<1>1. RolesFit' /\ SpanGrows /\ left' \in Budget
  BY RolesStay DEF Inv, vars, inbox
<1>. QED
  BY <1>1, RolesChange DEF vars

LEMMA NextKeeps ==
    ASSUME Inv, [Next]_vars
    PROVE  Inv'
<1>1. CASE Listener
  BY <1>1, ListenerKeeps
<1>2. CASE \E t \in Threads : Page(t)
  BY <1>2, SendKeeps, EnterKeeps, WriteFormKeeps, CreateKeeps, TellKeeps, HangupKeeps
  DEF Page
<1>3. CASE Others
  BY <1>3, ActKeeps, ReassignKeeps, DirectoryKeeps, DeadlineKeeps DEF Others, TaskActions
<1>4. CASE UNCHANGED vars
  BY <1>4, StutterKeeps
<1>. QED
  BY <1>1, <1>2, <1>3, <1>4 DEF Next

LEMMA Invariance == Spec => []Inv
<1>1. Init => Inv
  BY InitKeeps
<1>2. Inv /\ [Next]_vars => Inv'
  BY NextKeeps
<1>. QED
  BY <1>1, <1>2, PTL DEF Spec

-----------------------------------------------------------------------------
(* What an answer shows: nothing, or what the scope in hand gives. *)

LEMMA ShownInSight ==
    ASSUME Inv, Show, NEW r \in replies' \ replies
    PROVE  InSight(r)
<1>1. hand.at = "show" /\ r.m = hand.m /\ r.shows = Listed(hand.scope, hand.whose)
  BY DEF Show, Answer, Reply
<1>2. hand.whose = {Sender} \/ InScope(Sender, hand.scope)
  BY <1>1, InHand DEF HandFit, Sender
<1>3. GroupsOf(Sender, admins) \in span
  BY <1>1, InHand
<1>4. \A t \in r.shows : /\ tasks[t].chat \in hand.scope
                         /\ hand.whose = {} \/ hand.whose \subseteq tasks[t].owners
  BY <1>1 DEF Listed
<1>5. CASE hand.whose = {Sender}
  <2>1. \A t \in r.shows : Text[r.m].by \in tasks[t].owners
    BY <1>1, <1>4, <1>5 DEF Sender
  <2>. QED
    BY <1>3, <2>1 DEF InSight
<1>6. CASE InScope(Sender, hand.scope)
  BY <1>1, <1>4, <1>6 DEF InSight, InScope, Sender
<1>. QED
  BY <1>2, <1>5, <1>6

LEMMA NothingShown ==
    ASSUME Inv, hand.at \notin {"idle", "save"}, NEW ok, Reply(ok, {}),
           NEW r \in replies' \ replies
    PROVE  InSight(r)
<1>1. r.m = hand.m /\ r.shows = {}
  BY DEF Reply
<1>2. GroupsOf(Sender, admins) \in span
  BY InHand
<1>. QED
  BY <1>1, <1>2 DEF InSight

LEMMA AnswersInSight ==
    ASSUME Inv, Next, NEW r \in replies' \ replies
    PROVE  InSight(r)
<1>1. CASE Show
  BY <1>1, ShownInSight
<1>2. CASE AskPerson \/ Resolve \/ Find \/ Judge \/ Misread
  <2>1. hand.at \notin {"idle", "save"} /\ Reply(FALSE, {})
    BY <1>2 DEF AskPerson, Resolve, Find, Judge, Misread, Answer, Goto
  <2>. QED
    BY <2>1, NothingShown
<1>3. CASE \E kind \in NoteKinds : WriteNote(kind)
  <2>1. hand.at \notin {"idle", "save"} /\ (Reply(TRUE, {}) \/ Reply(FALSE, {}))
    BY <1>3 DEF WriteNote
  <2>. QED
    BY <2>1, NothingShown
<1>4. CASE \E action \in {"complete", "cancel", "accept", "reopen"} : WriteChange(action)
  <2>1. hand.at \notin {"idle", "save"} /\ (Reply(TRUE, {}) \/ Reply(FALSE, {}))
    BY <1>4 DEF WriteChange
  <2>. QED
    BY <2>1, NothingShown
<1>5. CASE Listener /\ UNCHANGED replies
  BY <1>5
<1>6. CASE (\E t \in Threads : Page(t)) \/ Others
  <2>1. UNCHANGED replies
    BY <1>6 DEF Page, Send, Enter, WriteForm, Create, Tell, Hangup, Turn, ReadBack, Others,
                Act, Reassign, Appoint, Dismiss, Leave, Join, DeadlinePasses, inbox
  <2>. QED
    BY <2>1
<1>7. Listener => \/ Show \/ AskPerson \/ Resolve \/ Find \/ Judge \/ Misread
                  \/ \E kind \in NoteKinds : WriteNote(kind)
                  \/ \E action \in {"complete", "cancel", "accept", "reopen"} :
                        WriteChange(action)
                  \/ UNCHANGED replies
  BY DEF Listener, Receive, Save, Understand, ListCommand, ReadScope, ReadAdmitted, Begin,
         Crash, Goto
<1>. QED
  BY <1>1, <1>2, <1>3, <1>4, <1>5, <1>6, <1>7 DEF Next

-----------------------------------------------------------------------------
(* The theorems. *)

(* Every row and every place of the listener and of a page is one the program can
   have, whatever is said, sent and changed. *)
THEOREM TypeCorrect == Spec => []TypeOK
  BY Invariance, InvGives, PTL

(* A stored command is answered once, for any messages, deliveries and crashes. *)
THEOREM CommandsSettled == Spec => []CommandsSettledOnce
  BY Invariance, InvGives, PTL

(* No list shows more than its reader could see at one moment while the question was
   in hand, for any groups, people, and order of changes. *)
THEOREM ListsInScope == Spec => ListsStayInScope
<1>1. Inv /\ [Next]_vars => [\A r \in replies' \ replies : InSight(r)]_vars
  BY AnswersInSight
<1>. QED
  BY <1>1, Invariance, PTL DEF Spec, ListsStayInScope

(* A page is told of a success only for what is on record, and of one record per
   request id, for any number of threads and forms. *)
THEOREM AnswersTrue == Spec => []AnswersFit
  BY Invariance, InvGives, PTL

(* Notes never go back to an earlier completion. *)
THEOREM NotesInOrder == Spec => []NotesFollowCycles
  BY Invariance, InvGives, PTL
=============================================================================
