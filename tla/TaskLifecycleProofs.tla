------------------------ MODULE TaskLifecycleProofs ------------------------
(***************************************************************************)
(* Proofs about TaskLifecycle, for every value of its constants.           *)
(*                                                                         *)
(* The invariant is stated as predicates on the tables that a transaction  *)
(* writes: T stands for tasks, E for evidence, L for the audit log, S for  *)
(* the submissions and A for the history of evidence.  A detection run     *)
(* passes through several such states within one step.                     *)
(***************************************************************************)
EXTENDS TaskLifecycle, TLAPS

Absent(tk) == tk.status = "absent"

RowsFit(T) ==
    /\ T \in [Tasks -> TaskRow]
    /\ \A t \in Tasks : Absent(T[t]) => T[t] = NoTask

(* MergesEnd, of any tables. *)
MergedIn(T) == {t \in Tasks : T[t].into # None}

MergesFit(T, E) ==
    /\ \A U \in SUBSET MergedIn(T) : U # {} => \E t \in U : T[t].into \notin U
    /\ \A t \in MergedIn(T) : T[t].status = "cancelled" /\ E[t] = {}

(* ReviewMatchesSubmission, of one row. *)
ReviewFits(S, t, tk) ==
    /\ tk.cycle = 0 => tk.review = "none"
    /\ tk.cycle > 0 => S[<<t, tk.cycle>>] = tk.review
    /\ tk.status = "done" => tk.cycle > 0 /\ tk.review \in {"pending", "accepted"}
    /\ \A c \in Cycles : S[<<t, c>>] # "none" <=> c <= tk.cycle

ReviewsFit(T, S) == \A t \in Tasks : ReviewFits(S, t, T[t])

OnceIn(L) ==
    \A i, j \in DOMAIN L : L[i].request # None /\ L[i].request = L[j].request => i = j

LogFits(L) ==
    /\ L \in Seq(Event)
    /\ \A i \in DOMAIN L : L[i].action = "overdue" => L[i].after = "overdue"
    /\ OnceIn(L)

(* OverdueIsAudited, of one row. *)
OverdueFits(L, t, tk) ==
    tk.status = "overdue" =>
        \E i \in DOMAIN L : /\ L[i].task = t /\ L[i].after = "overdue"
                            /\ L[i].deadline = tk.deadline

OverduesFit(T, L) == \A t \in Tasks : OverdueFits(L, t, T[t])

(* AuditExplainsStatus, of one task: its events form a chain up to its status. *)
EventsIn(L, t) == {i \in DOMAIN L : L[i].task = t}

FollowsIn(L, t, before, after) ==
    \/ after = before
    \/ before = "pending" /\ after \in {"todo", "overdue"}
    \/ before = "todo" /\ after = "overdue"
          /\ \E i \in EventsIn(L, t) : L[i].action = "overdue"

ChainFits(L, t) ==
    \A i, j \in EventsIn(L, t) :
        i < j /\ (\A k \in EventsIn(L, t) : k <= i \/ k >= j)
            => FollowsIn(L, t, L[i].after, L[j].before)

EndFits(L, t, status) ==
    \A i \in EventsIn(L, t) :
        (\A k \in EventsIn(L, t) : k <= i) => FollowsIn(L, t, L[i].after, status)

SilentFits(L, t, status) == status = "absent" => EventsIn(L, t) = {}

ExplainFits(L, t, status) ==
    ChainFits(L, t) /\ EndFits(L, t, status) /\ SilentFits(L, t, status)

ExplainsFit(T, L) == \A t \in Tasks : ExplainFits(L, t, T[t].status)

(* EvidenceFollowsMerge, of any tables. *)
ClosedIn(T, U) == \A v \in U : T[v].into # None => T[v].into \in U

ReachedIn(T, t) ==
    {u \in Tasks : \A U \in SUBSET Tasks : (t \in U /\ ClosedIn(T, U)) => u \in U}

EvidenceFits(T, E, A) ==
    \A a \in A : \E u \in ReachedIn(T, a[2]) \ MergedIn(T) : a[1] \in E[u]

Tables(T, E, L, S, A) ==
    /\ RowsFit(T) /\ E \in [Tasks -> SUBSET Messages] /\ LogFits(L)
    /\ MergesFit(T, E) /\ ReviewsFit(T, S)
    /\ OverduesFit(T, L) /\ ExplainsFit(T, L)
    /\ EvidenceFits(T, E, A)

(* A request asks for what its channel offers, and a merge names the task it goes to. *)
AsksFit ==
    \A r \in Requests :
        request[r] # None =>
            /\ request[r].action \in ChannelActions[request[r].channel]
            /\ request[r].action = "merge" => request[r].target \in Tasks

Inv == TypeOK /\ AsksFit /\ Tables(task, evidence, log, submission, attached)

-----------------------------------------------------------------------------
(* The invariant contains the properties. *)

LEMMA InvGives ==
    ASSUME Inv
    PROVE  /\ ReviewMatchesSubmission /\ MergesEnd /\ EvidenceFollowsMerge
           /\ RequestActsOnce /\ AuditExplainsStatus /\ OverdueIsAudited
<1>1. ReviewMatchesSubmission
  BY DEF Inv, Tables, ReviewsFit, ReviewFits, ReviewMatchesSubmission
<1>2. MergesEnd
  BY DEF Inv, Tables, MergesFit, MergedIn, MergesEnd, Merged
<1>3. EvidenceFollowsMerge
  BY DEF Inv, Tables, EvidenceFits, MergedIn, ReachedIn, ClosedIn, EvidenceFollowsMerge,
         Merged, Reached
<1>4. RequestActsOnce
  BY DEF Inv, Tables, LogFits, OnceIn, RequestActsOnce
<1>5. AuditExplainsStatus
  BY DEF Inv, Tables, ExplainsFit, ExplainFits, ChainFits, EndFits, FollowsIn, EventsIn,
         AuditExplainsStatus, EventsOf, Follows
<1>6. OverdueIsAudited
  BY DEF Inv, Tables, OverduesFit, OverdueFits, OverdueIsAudited, EventsOf
<1>. QED
  BY <1>1, <1>2, <1>3, <1>4, <1>5, <1>6

-----------------------------------------------------------------------------
(* Rows. *)

LEMMA NoTaskRow == NoTask \in TaskRow
  BY BoundAssumption DEF NoTask, TaskRow, Reviews, BoundAssumption

(* Setting one field to a value of its column gives a row. *)
LEMMA SetField ==
    ASSUME NEW tk \in TaskRow
    PROVE  /\ \A x \in Statuses : [tk EXCEPT !.status = x] \in TaskRow
           /\ \A x \in Deadlines \cup {None} : [tk EXCEPT !.deadline = x] \in TaskRow
           /\ \A x \in SUBSET Members : [tk EXCEPT !.owners = x] \in TaskRow
           /\ \A x \in Titles \cup {None} : [tk EXCEPT !.title = x] \in TaskRow
           /\ \A x \in Reviews : [tk EXCEPT !.review = x] \in TaskRow
           /\ \A x \in 0..MaxCycles : [tk EXCEPT !.cycle = x] \in TaskRow
           /\ \A x \in Tasks \cup {None} : [tk EXCEPT !.into = x] \in TaskRow
  BY DEF TaskRow

(* Marking changes the status alone, from todo to overdue. *)
LEMMA MarkedRow ==
    ASSUME NEW tk \in TaskRow, NEW at
    PROVE  /\ MarkedOverdue(tk, at) \in TaskRow
           /\ FallsDue(tk, at) => tk.status = "todo" /\ MarkedOverdue(tk, at).status = "overdue"
           /\ ~FallsDue(tk, at) => MarkedOverdue(tk, at) = tk
           /\ MarkedOverdue(tk, at).deadline = tk.deadline
           /\ MarkedOverdue(tk, at).owners = tk.owners
           /\ MarkedOverdue(tk, at).title = tk.title
           /\ MarkedOverdue(tk, at).review = tk.review
           /\ MarkedOverdue(tk, at).cycle = tk.cycle
           /\ MarkedOverdue(tk, at).into = tk.into
<1>1. "overdue" \in Statuses
  BY DEF Statuses
<1>2. [tk EXCEPT !.status = "overdue"] \in TaskRow
  BY <1>1, SetField
<1>. QED
  BY <1>2 DEF MarkedOverdue, FallsDue, TaskRow
-----------------------------------------------------------------------------
(* The audit log: what one more event keeps. *)

LEMMA Appended ==
    ASSUME NEW L \in Seq(Event), NEW e \in Event
    PROVE  /\ Append(L, e) \in Seq(Event)
           /\ Len(L) \in Nat /\ DOMAIN L = 1..Len(L)
           /\ DOMAIN Append(L, e) = 1..(Len(L) + 1)
           /\ \A i \in 1..Len(L) : Append(L, e)[i] = L[i] /\ L[i] \in Event
           /\ Append(L, e)[Len(L) + 1] = e
  OBVIOUS

LEMMA EventsAppended ==
    ASSUME NEW L \in Seq(Event), NEW e \in Event, NEW t
    PROVE  /\ EventsIn(L, t) \subseteq 1..Len(L)
           /\ e.task # t => EventsIn(Append(L, e), t) = EventsIn(L, t)
           /\ e.task = t => EventsIn(Append(L, e), t) = EventsIn(L, t) \cup {Len(L) + 1}
  BY Appended DEF EventsIn

LEMMA FollowsAppended ==
    ASSUME NEW L \in Seq(Event), NEW e \in Event, NEW t, NEW before, NEW after,
           FollowsIn(L, t, before, after)
    PROVE  FollowsIn(Append(L, e), t, before, after)
  BY Appended, EventsAppended DEF FollowsIn

(* An event of another task changes nothing. *)
LEMMA ExplainsOther ==
    ASSUME NEW L \in Seq(Event), NEW e \in Event, NEW t, e.task # t, NEW status,
           ExplainFits(L, t, status)
    PROVE  ExplainFits(Append(L, e), t, status)
<1>. DEFINE M == Append(L, e)
<1>1. /\ EventsIn(M, t) = EventsIn(L, t) /\ EventsIn(L, t) \subseteq 1..Len(L)
      /\ \A i \in 1..Len(L) : M[i] = L[i]
  BY Appended, EventsAppended
<1>2. \A i, j \in 1..Len(L) :
         FollowsIn(L, t, L[i].after, L[j].before) => FollowsIn(M, t, M[i].after, M[j].before)
  BY <1>1, FollowsAppended
<1>3. \A i \in 1..Len(L) :
         FollowsIn(L, t, L[i].after, status) => FollowsIn(M, t, M[i].after, status)
  BY <1>1, FollowsAppended
<1>. HIDE DEF M
<1>4. ChainFits(M, t)
  BY <1>1, <1>2 DEF ExplainFits, ChainFits
<1>5. EndFits(M, t, status) /\ SilentFits(M, t, status)
  BY <1>1, <1>3 DEF ExplainFits, EndFits, SilentFits
<1>. QED
  BY <1>4, <1>5 DEF ExplainFits, M

(* An event that begins at the task's status explains the status it ends at. *)
LEMMA ExplainsOwn ==
    ASSUME NEW L \in Seq(Event), NEW e \in Event, NEW t, e.task = t, NEW status,
           ExplainFits(L, t, status), e.before = status
    PROVE  ExplainFits(Append(L, e), t, e.after)
<1>. DEFINE M == Append(L, e)
            n == Len(L)
<1>1. /\ EventsIn(M, t) = EventsIn(L, t) \cup {n + 1} /\ EventsIn(L, t) \subseteq 1..n
      /\ \A i \in 1..n : M[i] = L[i]
      /\ M[n + 1] = e /\ n \in Nat
  BY Appended, EventsAppended
<1>2. \A i, j \in 1..n :
         FollowsIn(L, t, L[i].after, L[j].before) => FollowsIn(M, t, M[i].after, M[j].before)
  BY <1>1, FollowsAppended
<1>3. \A i \in 1..n :
         FollowsIn(L, t, L[i].after, status) => FollowsIn(M, t, M[i].after, M[n + 1].before)
  BY <1>1, FollowsAppended
<1>4. FollowsIn(M, t, M[n + 1].after, e.after)
  BY <1>1 DEF FollowsIn
<1>5. e.after # "absent"
  BY DEF Event, Statuses
<1>. HIDE DEF M, n
<1>6. ASSUME NEW i \in EventsIn(M, t), NEW j \in EventsIn(M, t), i < j,
             \A k \in EventsIn(M, t) : k <= i \/ k >= j
      PROVE  FollowsIn(M, t, M[i].after, M[j].before)
  <2>1. i \in EventsIn(L, t) /\ i \in 1..n
    BY <1>1, <1>6
  <2>2. CASE j = n + 1
    <3>1. \A k \in EventsIn(L, t) : k <= i
      BY <1>1, <1>6, <2>2
    <3>. QED
      BY <1>3, <2>1, <2>2, <3>1 DEF ExplainFits, EndFits
  <2>3. CASE j # n + 1
    <3>1. j \in EventsIn(L, t) /\ j \in 1..n
      BY <1>1, <2>3
    <3>2. \A k \in EventsIn(L, t) : k <= i \/ k >= j
      BY <1>1, <1>6
    <3>. QED
      BY <1>2, <1>6, <2>1, <3>1, <3>2 DEF ExplainFits, ChainFits
  <2>. QED
    BY <2>2, <2>3
<1>7. ASSUME NEW i \in EventsIn(M, t), \A k \in EventsIn(M, t) : k <= i
      PROVE  FollowsIn(M, t, M[i].after, e.after)
  <2>1. n + 1 <= i
    BY <1>1, <1>7
  <2>2. i \in 1..n \/ i = n + 1
    BY <1>1, <1>7
  <2>3. i = n + 1
    BY <1>1, <2>1, <2>2
  <2>. QED
    BY <1>4, <2>3
<1>. QED
  BY <1>5, <1>6, <1>7 DEF ExplainFits, ChainFits, EndFits, SilentFits, M

LEMMA OverdueAppended ==
    ASSUME NEW L \in Seq(Event), NEW e \in Event, NEW t, NEW tk, OverdueFits(L, t, tk)
    PROVE  OverdueFits(Append(L, e), t, tk)
  BY Appended DEF OverdueFits

LEMMA OverdueOwn ==
    ASSUME NEW L \in Seq(Event), NEW e \in Event, NEW tk,
           e.after = tk.status, e.deadline = tk.deadline
    PROVE  OverdueFits(Append(L, e), e.task, tk)
<1>1. Len(L) + 1 \in DOMAIN Append(L, e) /\ Append(L, e)[Len(L) + 1] = e
  BY Appended
<1>. QED
  BY <1>1 DEF OverdueFits

LEMMA LogAppended ==
    ASSUME NEW L, LogFits(L), NEW e \in Event,
           e.action = "overdue" => e.after = "overdue",
           e.request # None => \A i \in DOMAIN L : L[i].request # e.request
    PROVE  LogFits(Append(L, e))
<1>1. L \in Seq(Event)
  BY DEF LogFits
<1>2. /\ Append(L, e) \in Seq(Event)
      /\ Len(L) \in Nat /\ DOMAIN L = 1..Len(L)
      /\ DOMAIN Append(L, e) = 1..(Len(L) + 1)
      /\ \A i \in 1..Len(L) : Append(L, e)[i] = L[i]
      /\ Append(L, e)[Len(L) + 1] = e
  BY <1>1, Appended
<1>3. \A i \in DOMAIN Append(L, e) : i \in DOMAIN L \/ i = Len(L) + 1
  BY <1>2
<1>4. OnceIn(Append(L, e))
  BY <1>2, <1>3 DEF LogFits, OnceIn
<1>. QED
  BY <1>2, <1>3, <1>4 DEF LogFits

-----------------------------------------------------------------------------
(* What a transaction writes to one task. *)

(* A row that is not merged is replaced by one that is not, with what goes with
   it: more evidence, and a log and submissions that fit. *)
LEMMA RowWritten ==
    ASSUME NEW T, NEW E, NEW L, NEW S, NEW A, Tables(T, E, L, S, A),
           NEW t \in Tasks, NEW tk \in TaskRow, ~Absent(tk),
           T[t].into = None, tk.into = None,
           NEW F \in [Tasks -> SUBSET Messages],
           \A u \in Tasks : E[u] \subseteq F[u] /\ (u # t => F[u] = E[u]),
           NEW M, LogFits(M), ExplainFits(M, t, tk.status), OverdueFits(M, t, tk),
           \A u \in Tasks \ {t} :
               ExplainFits(M, u, T[u].status) /\ OverdueFits(M, u, T[u]),
           NEW R, ReviewFits(R, t, tk),
           \A u \in Tasks \ {t} : ReviewFits(R, u, T[u])
    PROVE  Tables([T EXCEPT ![t] = tk], F, M, R, A)
<1>. DEFINE V == [T EXCEPT ![t] = tk]
<1>0. T \in [Tasks -> TaskRow]
  BY DEF Tables, RowsFit
<1>1. V[t] = tk /\ \A u \in Tasks \ {t} : V[u] = T[u]
  BY <1>0
<1>2. RowsFit(V)
  BY <1>0, <1>1 DEF Tables, RowsFit
<1>3. \A u \in Tasks : V[u].into = T[u].into
  BY <1>1
<1>. HIDE DEF V
<1>4. MergedIn(V) = MergedIn(T) /\ t \notin MergedIn(T)
  BY <1>3 DEF MergedIn
<1>5. MergesFit(V, F)
  <2>1. MergesFit(T, E)
    BY DEF Tables
  <2>2. \A U \in SUBSET MergedIn(V) : U # {} => \E u \in U : V[u].into \notin U
    <3>1. \A u \in MergedIn(T) : V[u].into = T[u].into
      BY <1>3 DEF MergedIn
    <3>. QED
      BY <1>4, <2>1, <3>1 DEF MergesFit
  <2>3. \A u \in MergedIn(V) : V[u].status = "cancelled" /\ F[u] = {}
    <3>1. \A u \in MergedIn(T) : u \in Tasks \ {t}
      BY <1>4 DEF MergedIn
    <3>. QED
      BY <1>1, <1>4, <2>1, <3>1 DEF MergesFit
  <2>. QED
    BY <2>2, <2>3 DEF MergesFit
<1>6. ReviewsFit(V, R)
  BY <1>1 DEF ReviewsFit
<1>7. OverduesFit(V, M) /\ ExplainsFit(V, M)
  BY <1>1 DEF OverduesFit, ExplainsFit
<1>8. EvidenceFits(V, F, A)
  <2>1. \A U \in SUBSET Tasks : ClosedIn(V, U) <=> ClosedIn(T, U)
    BY <1>3 DEF ClosedIn
  <2>2. \A u : ReachedIn(V, u) = ReachedIn(T, u)
    BY <2>1 DEF ReachedIn
  <2>3. \A u : \A v \in ReachedIn(T, u) : v \in Tasks
    BY DEF ReachedIn
  <2>. QED
    BY <1>4, <2>2, <2>3 DEF Tables, EvidenceFits
<1>. QED
  BY <1>2, <1>5, <1>6, <1>7, <1>8 DEF Tables, V

(* Marking a task overdue, with its event unless there is one already. *)
LEMMA MarkFits ==
    ASSUME NEW T, NEW E, NEW L, NEW S, NEW A, Tables(T, E, L, S, A),
           NEW t \in Tasks, NEW at, FallsDue(T[t], at), NEW M,
           M = LoggedOverdue(L, t, T[t], at)
    PROVE  /\ LogFits(M) /\ ExplainFits(M, t, "overdue")
           /\ OverdueFits(M, t, MarkedOverdue(T[t], at))
           /\ \A u \in Tasks \ {t} :
                  ExplainFits(M, u, T[u].status) /\ OverdueFits(M, u, T[u])
<1>. DEFINE tk == T[t]
            d == tk.deadline
            e == OverdueEvent(t, tk)
            mk == MarkedOverdue(tk, at)
<1>0. tk \in TaskRow /\ tk.status = "todo" /\ mk.status = "overdue" /\ mk.deadline = d
  BY MarkedRow DEF Tables, RowsFit, FallsDue
<1>1. /\ L \in Seq(Event) /\ LogFits(L) /\ ExplainFits(L, t, "todo")
      /\ \A u \in Tasks : ExplainFits(L, u, T[u].status) /\ OverdueFits(L, u, T[u])
  BY <1>0 DEF Tables, LogFits, ExplainsFit, OverduesFit
<1>2. CASE Logs(L, t, d)
  <2>1. M = L
    BY <1>2 DEF LoggedOverdue
  <2>2. PICK i \in DOMAIN L : L[i].task = t /\ L[i].action = "overdue" /\ L[i].deadline = d
    BY <1>2 DEF Logs
  <2>3. OverdueFits(L, t, mk)
    BY <1>0, <1>1, <2>2 DEF OverdueFits, LogFits
  <2>4. i \in EventsIn(L, t)
    BY <2>2 DEF EventsIn
  <2>5. \A before : FollowsIn(L, t, before, "todo") => FollowsIn(L, t, before, "overdue")
    BY <2>2, <2>4 DEF FollowsIn
  <2>6. ExplainFits(L, t, "overdue")
    BY <1>1, <2>5 DEF ExplainFits, EndFits, SilentFits
  <2>. QED
    BY <1>1, <2>1, <2>3, <2>6
<1>3. CASE ~Logs(L, t, d)
  <2>1. M = Append(L, e)
    BY <1>3 DEF LoggedOverdue
  <2>2. e \in Event /\ e.task = t /\ e.before = "todo" /\ e.after = "overdue"
           /\ e.request = None /\ e.deadline = d
    BY <1>0, NullAssumption DEF OverdueEvent, Event, TaskRow, Statuses
  <2>. HIDE DEF e
  <2>3. LogFits(M)
    BY <1>1, <2>1, <2>2, LogAppended
  <2>4. ExplainFits(M, t, "overdue")
    BY <1>1, <2>1, <2>2, ExplainsOwn
  <2>5. OverdueFits(M, t, mk)
    BY <1>0, <1>1, <2>1, <2>2, OverdueOwn
  <2>6. \A u \in Tasks \ {t} : ExplainFits(M, u, T[u].status) /\ OverdueFits(M, u, T[u])
    BY <1>1, <2>1, <2>2, ExplainsOther, OverdueAppended
  <2>. QED
    BY <2>3, <2>4, <2>5, <2>6
<1>. QED
  BY <1>2, <1>3

LEMMA MarkKeeps ==
    ASSUME NEW T, NEW E, NEW L, NEW S, NEW A, Tables(T, E, L, S, A),
           NEW t \in Tasks, NEW at
    PROVE  Tables([T EXCEPT ![t] = MarkedOverdue(T[t], at)], E,
                  LoggedOverdue(L, t, T[t], at), S, A)
<1>. DEFINE mk == MarkedOverdue(T[t], at)
            M == LoggedOverdue(L, t, T[t], at)
<1>0. /\ T \in [Tasks -> TaskRow] /\ E \in [Tasks -> SUBSET Messages]
      /\ \A u \in Tasks : ReviewFits(S, u, T[u])
  BY DEF Tables, RowsFit, ReviewsFit
<1>1. CASE ~FallsDue(T[t], at)
  <2>1. mk = T[t] /\ M = L
    BY <1>1 DEF MarkedOverdue, LoggedOverdue
  <2>2. [T EXCEPT ![t] = mk] = T
    BY <1>0, <2>1
  <2>. QED
    BY <2>1, <2>2
<1>2. CASE FallsDue(T[t], at)
  <2>1. /\ T[t] \in TaskRow /\ mk \in TaskRow /\ T[t].status = "todo"
        /\ mk.status = "overdue" /\ mk.into = T[t].into
        /\ mk.review = T[t].review /\ mk.cycle = T[t].cycle
    BY <1>0, <1>2, MarkedRow
  <2>2. T[t].into = None
    BY <2>1 DEF Tables, MergesFit, MergedIn
  <2>3. ReviewFits(S, t, mk)
    BY <1>0, <2>1 DEF ReviewFits
  <2>4. /\ LogFits(M) /\ ExplainFits(M, t, mk.status) /\ OverdueFits(M, t, mk)
        /\ \A u \in Tasks \ {t} :
               ExplainFits(M, u, T[u].status) /\ OverdueFits(M, u, T[u])
    BY <1>2, <2>1, MarkFits
  <2>5. ~Absent(mk)
    BY <2>1 DEF Absent
  <2>. HIDE DEF mk, M
  <2>6. Tables([T EXCEPT ![t] = mk], E, M, S, A)
    BY <1>0, <2>1, <2>2, <2>3, <2>4, <2>5, RowWritten
  <2>. QED
    BY <2>6 DEF mk, M
<1>. QED
  BY <1>1, <1>2

-----------------------------------------------------------------------------
(* A detection run. *)

(* A row is written, then marked: what Materialize and Apply end with. *)
LEMMA WriteAndMark ==
    ASSUME NEW T, NEW E, NEW L, NEW R, NEW A, NEW F,
           NEW t \in Tasks, NEW tk, T \in [Tasks -> TaskRow],
           Tables([T EXCEPT ![t] = tk], F, L, R, A), NEW at
    PROVE  Tables([T EXCEPT ![t] = MarkedOverdue(tk, at)], F,
                  LoggedOverdue(L, t, tk, at), R, A)
<1>. DEFINE V == [T EXCEPT ![t] = tk]
<1>1. V[t] = tk
  OBVIOUS
<1>2. \A x : [V EXCEPT ![t] = x] = [T EXCEPT ![t] = x]
  OBVIOUS
<1>3. Tables(V, F, L, R, A)
  OBVIOUS
<1>. HIDE DEF V
<1>4. Tables([V EXCEPT ![t] = MarkedOverdue(V[t], at)], F, LoggedOverdue(L, t, V[t], at), R, A)
  BY <1>3, MarkKeeps
<1>. QED
  BY <1>1, <1>2, <1>4

LEMMA CandidateOwned ==
    ASSUME NEW c \in Candidate
    PROVE  c.owners # {}
  BY DEF Candidate

LEMMA CreatedRow ==
    ASSUME NEW c \in Candidate
    PROVE  /\ Created(c) \in TaskRow /\ Created(c).status \in {"todo", "pending"}
           /\ Created(c).into = None /\ Created(c).cycle = 0 /\ Created(c).review = "none"
<1>. DEFINE s == IF c.confident THEN "todo" ELSE "pending"
            a1 == [NoTask EXCEPT !.status = s]
            a2 == [a1 EXCEPT !.deadline = c.deadline]
            a3 == [a2 EXCEPT !.owners = c.owners]
            new == [a3 EXCEPT !.title = c.title]
<1>1. /\ s \in {"todo", "pending"} /\ s \in Statuses
      /\ c.deadline \in Deadlines \cup {None} /\ c.owners \in SUBSET Members
      /\ c.title \in Titles \cup {None}
  BY DEF Statuses, Candidate
<1>2. Created(c) = new
  BY NoTaskRow DEF Created, TaskRow
<1>3. /\ NoTask.into = None /\ NoTask.cycle = 0 /\ NoTask.review = "none"
  BY DEF NoTask
<1>. HIDE DEF s
<1>4. a1 \in TaskRow /\ a1.status = s /\ a1.into = None /\ a1.cycle = 0 /\ a1.review = "none"
  BY <1>1, <1>3, NoTaskRow, SetField DEF TaskRow
<1>. HIDE DEF a1
<1>5. a2 \in TaskRow /\ a2.status = s /\ a2.into = None /\ a2.cycle = 0 /\ a2.review = "none"
  BY <1>1, <1>4, SetField DEF TaskRow
<1>. HIDE DEF a2
<1>6. a3 \in TaskRow /\ a3.status = s /\ a3.into = None /\ a3.cycle = 0 /\ a3.review = "none"
  BY <1>1, <1>5, SetField DEF TaskRow
<1>. HIDE DEF a3
<1>7. new \in TaskRow /\ new.status = s /\ new.into = None /\ new.cycle = 0 /\ new.review = "none"
  BY <1>1, <1>6, SetField DEF TaskRow
<1>. QED
  BY <1>1, <1>2, <1>7 DEF s

LEMMA RefinedRow ==
    ASSUME NEW tk \in TaskRow, NEW c \in Candidate
    PROVE  /\ Refined(tk, c) \in TaskRow
           /\ Refined(tk, c).status \in {tk.status} \cup
                  (IF tk.status = "pending" THEN {"todo"} ELSE {})
           /\ tk.status = "overdue" => Refined(tk, c).deadline = tk.deadline
           /\ Refined(tk, c).into = tk.into
           /\ Refined(tk, c).cycle = tk.cycle /\ Refined(tk, c).review = tk.review
<1>. DEFINE refines == Refines(tk, c) /\ tk.status \in {"pending", "todo"}
            d == IF refines THEN c.deadline ELSE tk.deadline
            n == IF refines /\ c.surer THEN c.title ELSE tk.title
            s == IF tk.status = "pending" /\ c.confident THEN "todo" ELSE tk.status
            new == [tk EXCEPT !.deadline = d, !.title = n, !.status = s]
<1>1. /\ d \in Deadlines \cup {None} /\ n \in Titles \cup {None}
      /\ s \in Statuses \cup {"absent"}
      /\ s \in {tk.status} \cup (IF tk.status = "pending" THEN {"todo"} ELSE {})
      /\ tk.status = "overdue" => d = tk.deadline
  BY DEF TaskRow, Candidate, Statuses
<1>2. Refined(tk, c) = new
  BY DEF Refined
<1>. HIDE DEF d, n, s
<1>3. /\ new \in TaskRow /\ new.status = s /\ new.deadline = d /\ new.into = tk.into
      /\ new.cycle = tk.cycle /\ new.review = tk.review
  BY <1>1 DEF TaskRow
<1>. QED
  BY <1>1, <1>2, <1>3

(* A new row, with its evidence. *)
LEMMA CreateKeeps ==
    ASSUME NEW T, NEW E, NEW L, NEW S, NEW A, Tables(T, E, L, S, A),
           NEW t \in Tasks, Absent(T[t]), NEW c \in Candidate
    PROVE  Tables([T EXCEPT ![t] = Created(c)], [E EXCEPT ![t] = E[t] \cup c.messages],
                  L, S, A)
<1>. DEFINE tk == Created(c)
            F == [E EXCEPT ![t] = E[t] \cup c.messages]
<1>1. /\ T[t] = NoTask /\ LogFits(L) /\ E \in [Tasks -> SUBSET Messages]
      /\ \A u \in Tasks : /\ ReviewFits(S, u, T[u])
                          /\ ExplainFits(L, u, T[u].status) /\ OverdueFits(L, u, T[u])
  BY DEF Tables, RowsFit, ReviewsFit, ExplainsFit, OverduesFit
<1>2. c.messages \subseteq Messages
  BY DEF Candidate
<1>3. F \in [Tasks -> SUBSET Messages]
  BY <1>1, <1>2
<1>4. \A u \in Tasks : E[u] \subseteq F[u] /\ (u # t => F[u] = E[u])
  BY <1>1
<1>5. /\ tk \in TaskRow /\ tk.status \in {"todo", "pending"}
      /\ tk.into = None /\ tk.cycle = 0 /\ tk.review = "none"
  BY CreatedRow
<1>6. T[t].into = None /\ T[t].cycle = 0 /\ T[t].status = "absent"
  BY <1>1 DEF NoTask
<1>. HIDE DEF tk, F
<1>7. ~Absent(tk) /\ OverdueFits(L, t, tk)
  BY <1>5 DEF Absent, OverdueFits
<1>8. ReviewFits(S, t, tk)
  BY <1>1, <1>5, <1>6 DEF ReviewFits
<1>9. ExplainFits(L, t, tk.status)
  <2>1. EventsIn(L, t) = {}
    BY <1>1, <1>6 DEF ExplainFits, SilentFits
  <2>. QED
    BY <2>1 DEF ExplainFits, ChainFits, EndFits, SilentFits
<1>10. Tables([T EXCEPT ![t] = tk], F, L, S, A)
  BY <1>1, <1>3, <1>4, <1>5, <1>6, <1>7, <1>8, <1>9, RowWritten
<1>. QED
  BY <1>10 DEF tk, F

(* A row that is found again, refined and activated, with more evidence.  A merged
   task has no evidence and so is not found. *)
LEMMA RefineKeeps ==
    ASSUME NEW T, NEW E, NEW L, NEW S, NEW A, Tables(T, E, L, S, A),
           NEW t \in Tasks, NEW c \in Candidate, E[t] # {}, ~Absent(T[t])
    PROVE  Tables([T EXCEPT ![t] = Refined(T[t], c)],
                  [E EXCEPT ![t] = E[t] \cup c.messages], L, S, A)
<1>. DEFINE old == T[t]
            tk == Refined(old, c)
            F == [E EXCEPT ![t] = E[t] \cup c.messages]
<1>1. /\ old \in TaskRow /\ LogFits(L) /\ E \in [Tasks -> SUBSET Messages]
      /\ \A u \in Tasks : /\ ReviewFits(S, u, T[u])
                          /\ ExplainFits(L, u, T[u].status) /\ OverdueFits(L, u, T[u])
  BY DEF Tables, RowsFit, ReviewsFit, ExplainsFit, OverduesFit
<1>2. c.messages \subseteq Messages
  BY DEF Candidate
<1>3. F \in [Tasks -> SUBSET Messages]
  BY <1>1, <1>2
<1>4. \A u \in Tasks : E[u] \subseteq F[u] /\ (u # t => F[u] = E[u])
  BY <1>1
<1>5. old.into = None
  BY DEF Tables, MergesFit, MergedIn
<1>6. /\ tk \in TaskRow
      /\ tk.status = old.status \/ (old.status = "pending" /\ tk.status = "todo")
      /\ old.status = "overdue" => tk.deadline = old.deadline
      /\ tk.into = None /\ tk.cycle = old.cycle /\ tk.review = old.review
  BY <1>1, <1>5, RefinedRow
<1>. HIDE DEF tk, F
<1>7. ~Absent(tk)
  BY <1>6 DEF Absent
<1>8. ReviewFits(S, t, tk) /\ OverdueFits(L, t, tk)
  BY <1>1, <1>6 DEF ReviewFits, OverdueFits
<1>9. ExplainFits(L, t, tk.status)
  <2>1. CASE tk.status = old.status
    BY <1>1, <2>1
  <2>2. CASE old.status = "pending" /\ tk.status = "todo"
    <3>1. \A before : FollowsIn(L, t, before, "pending") => FollowsIn(L, t, before, "todo")
      BY DEF FollowsIn
    <3>. QED
      BY <1>1, <2>2, <3>1 DEF ExplainFits, EndFits, SilentFits
  <2>. QED
    BY <1>6, <2>1, <2>2
<1>10. Tables([T EXCEPT ![t] = tk], F, L, S, A)
  BY <1>1, <1>3, <1>4, <1>5, <1>6, <1>7, <1>8, <1>9, RowWritten
<1>. QED
  BY <1>10 DEF tk, F

(* One candidate, on any board. *)
LEMMA AfterKeeps ==
    ASSUME NEW b, NEW S, NEW A, Tables(b.task, b.evidence, b.log, S, A),
           NEW c \in Candidate, NEW d \in After(b, c)
    PROVE  Tables(d.task, d.evidence, d.log, S, A)
<1>. DEFINE T == b.task
            E == b.evidence
            L == b.log
            Board1(t, tk) == [task |-> [T EXCEPT ![t] = MarkedOverdue(tk, now)],
                              evidence |-> [E EXCEPT ![t] = E[t] \cup c.messages],
                              log |-> LoggedOverdue(L, t, tk, now)]
<1>0. T \in [Tasks -> TaskRow]
  BY DEF Tables, RowsFit
<1>1. \/ \E t \in Tasks : Absent(T[t]) /\ d = Board1(t, Created(c))
      \/ \E t \in Matches(b, c) : d = Board1(t, Refined(T[t], c))
  BY DEF After, Absent
<1>2. ASSUME NEW t \in Tasks, NEW tk, d = Board1(t, tk),
             Tables([T EXCEPT ![t] = tk], [E EXCEPT ![t] = E[t] \cup c.messages], L, S, A)
      PROVE  Tables(d.task, d.evidence, d.log, S, A)
  <2>1. /\ d.task = [T EXCEPT ![t] = MarkedOverdue(tk, now)]
        /\ d.evidence = [E EXCEPT ![t] = E[t] \cup c.messages]
        /\ d.log = LoggedOverdue(L, t, tk, now)
    BY <1>2
  <2>. QED
    BY <1>0, <1>2, <2>1, WriteAndMark
<1>3. CASE \E t \in Tasks : Absent(T[t]) /\ d = Board1(t, Created(c))
  <2>1. PICK t \in Tasks : Absent(T[t]) /\ d = Board1(t, Created(c))
    BY <1>3
  <2>2. Tables([T EXCEPT ![t] = Created(c)], [E EXCEPT ![t] = E[t] \cup c.messages], L, S, A)
    BY <2>1, CreateKeeps
  <2>. QED
    BY <1>2, <2>1, <2>2
<1>4. CASE \E t \in Matches(b, c) : d = Board1(t, Refined(T[t], c))
  <2>1. PICK t \in Matches(b, c) : d = Board1(t, Refined(T[t], c))
    BY <1>4
  <2>2. t \in Tasks /\ T[t].owners = c.owners /\ E[t] \cap c.messages # {}
    <3>. HIDE DEF Board1
    <3>. QED  BY <2>1 DEF Matches
  <2>3. E[t] # {}
    <3>. HIDE DEF Board1
    <3>. QED  BY <2>2
  <2>4. ~Absent(T[t])
    <3>1. Absent(T[t]) => T[t] = NoTask
      BY <2>2 DEF Tables, RowsFit
    <3>2. c.owners # {}
      BY CandidateOwned
    <3>. HIDE DEF T, E, L, Board1
    <3>. QED
      BY <2>2, <3>1, <3>2 DEF NoTask
  <2>5. Tables([T EXCEPT ![t] = Refined(T[t], c)],
               [E EXCEPT ![t] = E[t] \cup c.messages], L, S, A)
    BY <2>2, <2>3, <2>4, RefineKeeps
  <2>. HIDE DEF T, E, L, Board1
  <2>. QED
    BY <1>2, <2>1, <2>2, <2>5
<1>. QED
  BY <1>1, <1>3, <1>4

(* Evidence rows that are written now are where they were written. *)
LEMMA AttachedNow ==
    ASSUME NEW T, NEW E, NEW F, NEW L, NEW S, NEW A, NEW B, Tables(T, F, L, S, A),
           B = A \cup UNION {(F[t] \ E[t]) \X {t} : t \in Tasks}
    PROVE  Tables(T, F, L, S, B)
<1>1. ASSUME NEW a \in B \ A
      PROVE  \E u \in ReachedIn(T, a[2]) \ MergedIn(T) : a[1] \in F[u]
  <2>1. PICK t \in Tasks : a \in (F[t] \ E[t]) \X {t}
    OBVIOUS
  <2>2. a[1] \in F[t] /\ a[2] = t
    BY <2>1
  <2>3. t \notin MergedIn(T)
    BY <2>2 DEF Tables, MergesFit
  <2>4. t \in ReachedIn(T, t)
    BY DEF ReachedIn
  <2>. QED
    BY <2>2, <2>3, <2>4
<1>. QED
  BY <1>1 DEF Tables, EvidenceFits

LEMMA AttachedTypes ==
    ASSUME NEW E, NEW F \in [Tasks -> SUBSET Messages], NEW A \in SUBSET (Messages \X Tasks)
    PROVE  A \cup UNION {(F[t] \ E[t]) \X {t} : t \in Tasks} \subseteq Messages \X Tasks
  OBVIOUS


-----------------------------------------------------------------------------
(* A request. *)

(* What a request that is not a merge makes of a row. *)
LEMMA TransitionRow ==
    ASSUME NEW q \in Ask, NEW tk \in TaskRow, ~Absent(tk), Fits(q, tk),
           q.action # "merge",
           q.action = "complete" => tk.cycle < MaxCycles
    PROVE  LET next == Transition(q, tk)
           IN  /\ next \in TaskRow /\ next.status \in Statuses /\ next.into = tk.into
               /\ next.status = "done" => q.action \in {"complete", "accept"}
               /\ IF q.action = "complete"
                  THEN next.review = "pending" /\ next.cycle = tk.cycle + 1
                  ELSE next.cycle = tk.cycle
               /\ q.action = "accept" => next.review = "accepted"
               /\ q.action = "reopen" => next.review = "rework_required"
               /\ q.action \notin {"complete", "accept", "reopen"} => next.review = tk.review
<1>. DEFINE next == Transition(q, tk)
            Goal == /\ next \in TaskRow /\ next.status \in Statuses /\ next.into = tk.into
                    /\ next.status = "done" => q.action \in {"complete", "accept"}
                    /\ IF q.action = "complete"
                       THEN next.review = "pending" /\ next.cycle = tk.cycle + 1
                       ELSE next.cycle = tk.cycle
                    /\ q.action = "accept" => next.review = "accepted"
                    /\ q.action = "reopen" => next.review = "rework_required"
                    /\ q.action \notin {"complete", "accept", "reopen"} =>
                           next.review = tk.review
<1>1. /\ tk.status \in Statuses /\ tk.cycle \in 0..MaxCycles
      /\ q.deadline \in Deadlines \cup {None} /\ q.owners \in SUBSET Members
      /\ q.title \in Titles \cup {None}
      /\ {"todo", "overdue", "done", "cancelled"} \subseteq Statuses
      /\ {"pending", "accepted", "rework_required"} \subseteq Reviews
      /\ \A at : Reopened(tk, at) \in {"todo", "overdue"}
  BY DEF TaskRow, Absent, Ask, Statuses, Reviews, Reopened
<1>2. CASE q.action = "complete"
  <2>. DEFINE a == [tk EXCEPT !.status = "done"]
              b == [a EXCEPT !.review = "pending"]
              c == [b EXCEPT !.cycle = tk.cycle + 1]
  <2>1. tk.cycle + 1 \in 0..MaxCycles
    BY <1>1, <1>2, BoundAssumption
  <2>2. next = c
    BY <1>2 DEF Transition, TaskRow
  <2>3. a \in TaskRow /\ a.status = "done" /\ a.into = tk.into
    BY <1>1, SetField DEF TaskRow
  <2>. HIDE DEF a
  <2>4. b \in TaskRow /\ b.status = "done" /\ b.into = tk.into /\ b.review = "pending"
    BY <1>1, <2>3, SetField DEF TaskRow
  <2>. HIDE DEF b
  <2>5. c \in TaskRow /\ c.status = "done" /\ c.into = tk.into /\ c.review = "pending"
           /\ c.cycle = tk.cycle + 1
    BY <2>1, <2>4, SetField DEF TaskRow
  <2>. QED
    BY <1>1, <1>2, <2>2, <2>5
<1>3. CASE q.action = "accept"
  <2>1. next = [tk EXCEPT !.review = "accepted"]
    BY <1>3 DEF Transition
  <2>. QED
    BY <1>1, <1>3, <2>1, SetField DEF TaskRow
<1>4. CASE q.action = "reopen"
  <2>. DEFINE s == Reopened(tk, q.at)
              a == [tk EXCEPT !.status = s]
              b == [a EXCEPT !.review = "rework_required"]
  <2>1. next = b
    BY <1>4 DEF Transition, TaskRow
  <2>2. s \in {"todo", "overdue"} /\ s \in Statuses
    BY <1>1
  <2>. HIDE DEF s
  <2>3. a \in TaskRow /\ a.status = s /\ a.into = tk.into /\ a.cycle = tk.cycle
    BY <2>2, SetField DEF TaskRow
  <2>. HIDE DEF a
  <2>4. /\ b \in TaskRow /\ b.status = s /\ b.into = tk.into /\ b.cycle = tk.cycle
        /\ b.review = "rework_required"
    BY <1>1, <2>3, SetField DEF TaskRow
  <2>. QED
    BY <1>4, <2>1, <2>2, <2>4
<1>5. CASE q.action \in {"confirm", "cancel", "invalidate", "restore"}
  <2>1. PICK s \in {"todo", "overdue", "cancelled"} : next = [tk EXCEPT !.status = s]
    BY <1>1, <1>5 DEF Transition
  <2>2. next \in TaskRow
    BY <1>1, <2>1, SetField
  <2>3. /\ next.status = s /\ next.into = tk.into /\ next.cycle = tk.cycle
        /\ next.review = tk.review
    BY <2>1 DEF TaskRow
  <2>. QED
    BY <1>1, <1>5, <2>2, <2>3
<1>6. CASE q.action = "reschedule"
  <2>. DEFINE a == [tk EXCEPT !.status = "todo"]
              b == [a EXCEPT !.deadline = q.deadline]
  <2>1. next = b
    BY <1>6 DEF Transition, TaskRow
  <2>2. /\ a \in TaskRow /\ a.status = "todo" /\ a.into = tk.into /\ a.cycle = tk.cycle
        /\ a.review = tk.review
    BY <1>1, SetField DEF TaskRow
  <2>. HIDE DEF a
  <2>3. /\ b \in TaskRow /\ b.status = "todo" /\ b.into = tk.into /\ b.cycle = tk.cycle
        /\ b.review = tk.review
    BY <1>1, <2>2, SetField DEF TaskRow
  <2>. QED
    BY <1>1, <1>6, <2>1, <2>3
<1>7. CASE q.action \in {"rename", "reassign"}
  <2>1. next = [tk EXCEPT !.title = q.title] \/ next = [tk EXCEPT !.owners = q.owners]
    BY <1>7 DEF Transition
  <2>2. next \in TaskRow
    BY <1>1, <2>1, SetField
  <2>3. /\ next.status = tk.status /\ next.into = tk.into /\ next.cycle = tk.cycle
        /\ next.review = tk.review
    BY <2>1 DEF TaskRow
  <2>4. Open(tk)
    BY <1>7 DEF Fits, StatusFits
  <2>. QED
    BY <1>1, <1>7, <2>2, <2>3, <2>4 DEF Open
<1>8. q.action \in {"confirm", "complete", "accept", "reopen", "cancel", "invalidate",
                    "reschedule", "rename", "reassign", "restore"}
  BY DEF Ask, AllActions, ChannelActions, Channels
<1>9. Goal
  BY <1>2, <1>3, <1>4, <1>5, <1>6, <1>7, <1>8
<1>. QED
  BY <1>9

(* The submission that goes with it. *)
LEMMA SubmittedFits ==
    ASSUME NEW q \in Ask, NEW tk \in TaskRow, ~Absent(tk), Fits(q, tk),
           q.action # "merge", q.action \in ChannelActions[q.channel],
           q.action = "complete" => tk.cycle < MaxCycles,
           submission \in [Tasks \X Cycles -> Reviews],
           ReviewFits(submission, q.task, tk)
    PROVE  LET next == Transition(q, tk)
               R == Submitted(q, tk)
           IN  /\ R \in [Tasks \X Cycles -> Reviews]
               /\ ReviewFits(R, q.task, next)
               /\ \A u \in Tasks \ {q.task} : \A x \in TaskRow :
                      ReviewFits(submission, u, x) => ReviewFits(R, u, x)
               /\ \A u \in Tasks : \A c \in Cycles :
                      R[<<u, c>>] # submission[<<u, c>>] => u = q.task /\ c = next.cycle
<1>. DEFINE next == Transition(q, tk)
            R == Submitted(q, tk)
            v == Verdict[q.action]
            Goal == /\ R \in [Tasks \X Cycles -> Reviews]
                    /\ ReviewFits(R, q.task, next)
                    /\ \A u \in Tasks \ {q.task} : \A x \in TaskRow :
                           ReviewFits(submission, u, x) => ReviewFits(R, u, x)
                    /\ \A u \in Tasks : \A c \in Cycles :
                           R[<<u, c>>] # submission[<<u, c>>] =>
                               u = q.task /\ c = next.cycle
<1>0. /\ q.task \in Tasks /\ tk.cycle \in 0..MaxCycles /\ MaxCycles \in Nat
      /\ tk.status \in Statuses
  BY BoundAssumption DEF Ask, TaskRow, Absent
<1>1. /\ next \in TaskRow /\ next.status \in Statuses
      /\ next.status = "done" => q.action \in {"complete", "accept"}
      /\ IF q.action = "complete"
         THEN next.review = "pending" /\ next.cycle = tk.cycle + 1
         ELSE next.cycle = tk.cycle
      /\ q.action = "accept" => next.review = "accepted"
      /\ q.action = "reopen" => next.review = "rework_required"
      /\ q.action \notin {"complete", "accept", "reopen"} => next.review = tk.review
  BY TransitionRow
<1>2. ASSUME q.action \notin {"complete", "accept", "reopen"}
      PROVE  Goal
  <2>1. R = submission
    BY <1>2 DEF Submitted, Verdict
  <2>2. ReviewFits(submission, q.task, next)
    BY <1>1, <1>2 DEF ReviewFits
  <2>. QED
    BY <2>1, <2>2
<1>3. ASSUME q.action \in {"complete", "accept", "reopen"}
      PROVE  Goal
  <2>1. R = [submission EXCEPT ![<<q.task, next.cycle>>] = v]
    BY <1>3 DEF Submitted, Verdict
  <2>2. v = next.review /\ v \in {"pending", "accepted", "rework_required"}
    BY <1>1, <1>3 DEF Verdict
  <2>3. next.cycle \in Cycles
    <3>1. q.action = "complete" => next.cycle \in Cycles
      BY <1>0, <1>1 DEF Cycles
    <3>2. q.action \in {"accept", "reopen"} => tk.cycle >= 1
      <4>1. q.action \in {"accept", "reopen"} => q.channel \notin {"message", "card"}
        BY DEF Ask, Channels, ChannelActions
      <4>. QED
        BY <4>1 DEF Fits, StatusFits
    <3>. QED
      BY <1>0, <1>1, <1>3, <3>1, <3>2 DEF Cycles
  <2>. HIDE DEF next, R, v
  <2>4. <<q.task, next.cycle>> \in Tasks \X Cycles /\ v \in Reviews
    BY <1>0, <2>2, <2>3 DEF Reviews
  <2>5. R \in [Tasks \X Cycles -> Reviews]
    BY <2>1, <2>4
  <2>6. R[<<q.task, next.cycle>>] = v
    BY <2>1, <2>4
  <2>7. \A u \in Tasks : \A c \in Cycles :
            ~(u = q.task /\ c = next.cycle) => R[<<u, c>>] = submission[<<u, c>>]
    BY <2>1
  <2>8. \A u \in Tasks \ {q.task} : \A x \in TaskRow :
            ReviewFits(submission, u, x) => ReviewFits(R, u, x)
    <3>. SUFFICES ASSUME NEW u \in Tasks \ {q.task}, NEW x \in TaskRow,
                         ReviewFits(submission, u, x)
                  PROVE  ReviewFits(R, u, x)
      OBVIOUS
    <3>1. x.cycle > 0 => x.cycle \in Cycles
      BY <1>0 DEF TaskRow, Cycles
    <3>2. \A c \in Cycles : R[<<u, c>>] = submission[<<u, c>>]
      BY <2>7
    <3>. QED
      BY <3>1, <3>2 DEF ReviewFits
  <2>9. ReviewFits(R, q.task, next)
    <3>1. next.cycle > 0
      BY <1>0, <2>3 DEF Cycles
    <3>2. next.status = "done" => next.review \in {"pending", "accepted"}
      BY <1>1
    <3>3. ASSUME NEW c \in Cycles
          PROVE  R[<<q.task, c>>] # "none" <=> c <= next.cycle
      <4>1. submission[<<q.task, c>>] # "none" <=> c <= tk.cycle
        BY DEF ReviewFits
      <4>2. c \in Nat /\ next.cycle \in Nat /\ tk.cycle \in Nat
        BY <1>0, <2>3 DEF Cycles
      <4>3. CASE c = next.cycle
        BY <2>2, <2>6, <4>2, <4>3
      <4>4. CASE c # next.cycle
        <5>1. R[<<q.task, c>>] = submission[<<q.task, c>>]
          BY <1>0, <2>7, <4>4
        <5>2. next.cycle = tk.cycle \/ next.cycle = tk.cycle + 1
          BY <1>1
        <5>. QED
          BY <4>1, <4>2, <4>4, <5>1, <5>2
      <4>. QED
        BY <4>3, <4>4
    <3>. QED
      BY <2>2, <2>6, <3>1, <3>2, <3>3 DEF ReviewFits
  <2>. QED
    BY <2>5, <2>7, <2>8, <2>9
<1>4. Goal
  BY <1>2, <1>3
<1>. QED
  BY <1>4

(* A merge into a task that is not merged itself: chains get longer at their end
   only, and what was reached through the duplicate is reached through the target. *)
LEMMA MergeKeeps ==
    ASSUME NEW T, NEW E, NEW L, NEW S, NEW A, Tables(T, E, L, S, A),
           NEW t \in Tasks, NEW into \in Tasks \ {t},
           T[t].into = None, T[into].into = None,
           NEW tk \in TaskRow, tk.status = "cancelled", tk.into = into,
           NEW M, LogFits(M), ExplainFits(M, t, tk.status),
           \A u \in Tasks \ {t} :
               ExplainFits(M, u, T[u].status) /\ OverdueFits(M, u, T[u]),
           ReviewFits(S, t, tk)
    PROVE  Tables([T EXCEPT ![t] = tk],
                  [E EXCEPT ![into] = E[into] \cup E[t], ![t] = {}], M, S, A)
<1>. DEFINE V == [T EXCEPT ![t] = tk]
            F == [E EXCEPT ![into] = E[into] \cup E[t], ![t] = {}]
<1>0. /\ T \in [Tasks -> TaskRow] /\ E \in [Tasks -> SUBSET Messages]
      /\ MergesFit(T, E) /\ EvidenceFits(T, E, A) /\ None \notin Tasks
  BY NullAssumption DEF Tables, RowsFit
<1>1. V[t] = tk /\ \A u \in Tasks \ {t} : V[u] = T[u]
  BY <1>0
<1>2. F \in [Tasks -> SUBSET Messages]
  BY <1>0
<1>3. /\ F[t] = {} /\ F[into] = E[into] \cup E[t]
      /\ \A u \in Tasks \ {t, into} : F[u] = E[u]
  BY <1>0
<1>4. RowsFit(V)
  BY <1>0, <1>1 DEF Tables, RowsFit, Absent
<1>. HIDE DEF V, F
<1>5. MergedIn(V) = MergedIn(T) \cup {t} /\ t \notin MergedIn(T) /\ into \notin MergedIn(V)
  BY <1>0, <1>1 DEF MergedIn
<1>6. MergesFit(V, F)
  <2>1. ASSUME NEW U \in SUBSET MergedIn(V), U # {}
        PROVE  \E u \in U : V[u].into \notin U
    <3>1. CASE t \in U
      BY <1>1, <1>5, <2>1, <3>1
    <3>2. CASE t \notin U
      <4>1. U \in SUBSET MergedIn(T)
        BY <1>5, <2>1, <3>2
      <4>2. PICK u \in U : T[u].into \notin U
        BY <1>0, <2>1, <4>1 DEF MergesFit
      <4>3. u \in Tasks \ {t}
        BY <3>2, <4>1 DEF MergedIn
      <4>. QED
        BY <1>1, <4>2, <4>3
    <3>. QED
      BY <3>1, <3>2
  <2>2. ASSUME NEW u \in MergedIn(V)
        PROVE  V[u].status = "cancelled" /\ F[u] = {}
    <3>1. CASE u = t
      BY <1>1, <1>3, <3>1
    <3>2. CASE u # t
      <4>1. u \in MergedIn(T) /\ u \in Tasks \ {t, into}
        BY <1>5, <2>2, <3>2 DEF MergedIn
      <4>. QED
        BY <1>0, <1>1, <1>3, <4>1 DEF MergesFit
    <3>. QED
      BY <3>1, <3>2
  <2>. QED
    BY <2>1, <2>2 DEF MergesFit
<1>7. ReviewsFit(V, S)
  BY <1>1 DEF Tables, ReviewsFit
<1>8. OverduesFit(V, M) /\ ExplainsFit(V, M)
  <2>1. OverdueFits(M, t, tk)
    BY DEF OverdueFits
  <2>. QED
    BY <1>1, <2>1 DEF OverduesFit, ExplainsFit
<1>9. EvidenceFits(V, F, A)
  <2>1. \A U \in SUBSET Tasks : ClosedIn(V, U) => ClosedIn(T, U) /\ (t \in U => into \in U)
    BY <1>0, <1>1 DEF ClosedIn
  <2>2. \A u : /\ ReachedIn(T, u) \subseteq ReachedIn(V, u)
               /\ t \in ReachedIn(T, u) => into \in ReachedIn(V, u)
    BY <2>1 DEF ReachedIn
  <2>. SUFFICES ASSUME NEW a \in A
                PROVE  \E u \in ReachedIn(V, a[2]) \ MergedIn(V) : a[1] \in F[u]
    BY DEF EvidenceFits
  <2>3. PICK u \in ReachedIn(T, a[2]) \ MergedIn(T) : a[1] \in E[u]
    BY <1>0 DEF EvidenceFits
  <2>4. u \in Tasks
    BY <2>3 DEF ReachedIn
  <2>5. CASE u = t
    BY <1>3, <1>5, <2>2, <2>3, <2>5
  <2>6. CASE u # t
    <3>1. a[1] \in F[u]
      BY <1>3, <2>3, <2>4, <2>6
    <3>. QED
      BY <1>5, <2>2, <2>3, <2>6, <3>1
  <2>. QED
    BY <2>5, <2>6
<1>. QED
  BY <1>2, <1>4, <1>6, <1>7, <1>8, <1>9 DEF Tables, V, F

(* The event that goes with a request. *)
LEMMA EventFits ==
    ASSUME NEW q \in Ask, NEW tk \in TaskRow, tk.status \in Statuses, NEW r \in Requests,
           Transition(q, tk) \in TaskRow, Transition(q, tk).status \in Statuses
    PROVE  LET e == LifecycleEvent(r, q, tk)
           IN  /\ e \in Event /\ e.request = r /\ e.task = q.task /\ e.before = tk.status
               /\ e.after = Transition(q, tk).status
               /\ e.deadline = Transition(q, tk).deadline /\ e.action # "overdue"
<1>. DEFINE next == Transition(q, tk)
            role == Role(q, tk)
            e == [request |-> r, task |-> q.task, action |-> q.action, actor |-> q.actor,
                  role |-> role, before |-> tk.status, after |-> next.status,
                  deadline |-> next.deadline, cycle |-> next.cycle]
<1>1. LifecycleEvent(r, q, tk) = e
  BY DEF LifecycleEvent
<1>2. role \in {"owner", "administrator", "system"}
  BY DEF Role
<1>3. q.action # "overdue"
  BY DEF Ask, AllActions, ChannelActions, Channels
<1>4. q.task \in Tasks /\ q.action \in AllActions /\ q.actor \in Members
  BY DEF Ask
<1>5. next.deadline \in Deadlines \cup {None} /\ next.cycle \in 0..MaxCycles
  BY DEF TaskRow
<1>. HIDE DEF next, role
<1>6. e \in Event
  BY <1>2, <1>4, <1>5 DEF Event, next
<1>. QED
  BY <1>1, <1>3, <1>6 DEF next

-----------------------------------------------------------------------------
(* The steps.  What FrozenSubmissions says of one: *)

Frozen ==
    \A t \in Tasks, c \in Cycles :
        submission'[<<t, c>>] # submission[<<t, c>>] => c = task'[t].cycle

(* The task that a request is applied to, and what it makes of it. *)
LEMMA ApplyRow ==
    ASSUME Inv, NEW r \in Requests, Apply(r)
    PROVE  LET q == request[r]
               tk == task[q.task]
               next == Transition(q, tk)
               e == LifecycleEvent(r, q, tk)
           IN  /\ q \in Ask /\ q # None /\ q.task \in Tasks /\ tk \in TaskRow
               /\ ~Applied(r) /\ Acceptable(q, tk)
               /\ q.action = "complete" => tk.cycle < MaxCycles
               /\ Fits(q, tk) /\ Possible(q, tk) /\ ~Absent(tk)
               /\ q.action \in ChannelActions[q.channel]
               /\ q.action = "merge" =>
                      /\ q.target \in Tasks \ {q.task} /\ tk.into = None
                      /\ task[q.target].into = None
                      /\ next \in TaskRow /\ next.status = "cancelled" /\ next.into = q.target
                      /\ next.cycle = tk.cycle /\ next.review = tk.review
               /\ next \in TaskRow /\ next.status \in Statuses
               /\ q.action # "merge" => next.into = tk.into /\ tk.into = None
               /\ e \in Event /\ e.request = r /\ e.task = q.task /\ e.before = tk.status
               /\ e.after = next.status /\ e.deadline = next.deadline
               /\ e.action # "overdue"
<1>. DEFINE q == request[r]
            tk == task[q.task]
            next == Transition(q, tk)
            e == LifecycleEvent(r, q, tk)
<1>0. /\ TypeOK /\ AsksFit /\ Tables(task, evidence, log, submission, attached)
      /\ request \in [Requests -> Ask \cup {None}] /\ task \in [Tasks -> TaskRow]
  BY DEF Inv, TypeOK
<1>1. /\ q \in Ask /\ q # None /\ q.task \in Tasks /\ tk \in TaskRow
      /\ ~Applied(r) /\ Acceptable(q, tk)
      /\ q.action = "complete" => tk.cycle < MaxCycles
  BY <1>0 DEF Apply, At, Ask
<1>3. Fits(q, tk) /\ Possible(q, tk) /\ ~Absent(tk)
  BY <1>1 DEF Acceptable, Fits, StatusFits, Absent, Open
<1>4. q.action = "merge" =>
          /\ q.target \in Tasks \ {q.task} /\ tk.into = None /\ task[q.target].into = None
          /\ next = [tk EXCEPT !.status = "cancelled", !.into = q.target]
  BY <1>0, <1>1, <1>3 DEF Possible, Mergeable, AsksFit, Transition
<1>5. q.action = "merge" =>
          /\ next \in TaskRow /\ next.status = "cancelled" /\ next.into = q.target
          /\ next.cycle = tk.cycle /\ next.review = tk.review
  <2>1. SUFFICES ASSUME q.action = "merge"
                 PROVE  /\ next \in TaskRow /\ next.status = "cancelled"
                        /\ next.into = q.target
                        /\ next.cycle = tk.cycle /\ next.review = tk.review
    OBVIOUS
  <2>. DEFINE a == [tk EXCEPT !.status = "cancelled"]
              b == [a EXCEPT !.into = q.target]
  <2>2. next = b /\ q.target \in Tasks \cup {None} /\ "cancelled" \in Statuses
    BY <1>1, <1>4, <2>1 DEF TaskRow, Statuses
  <2>. HIDE DEF q, tk, next
  <2>3. /\ a \in TaskRow /\ a.status = "cancelled" /\ a.cycle = tk.cycle
        /\ a.review = tk.review
    BY <1>1, <2>2, SetField DEF TaskRow
  <2>. HIDE DEF a
  <2>4. /\ b \in TaskRow /\ b.status = "cancelled" /\ b.cycle = tk.cycle
        /\ b.review = tk.review /\ b.into = q.target
    BY <2>2, <2>3, SetField DEF TaskRow
  <2>. QED
    BY <2>2, <2>4
<1>6. /\ next \in TaskRow /\ next.status \in Statuses
      /\ q.action # "merge" => next.into = tk.into
  <2>1. "cancelled" \in Statuses
    BY DEF Statuses
  <2>. QED
    BY <1>1, <1>3, <1>5, <2>1, TransitionRow
<1>7. q.action # "merge" => tk.into = None
  <2>1. tk.into # None => tk.status = "cancelled"
    BY <1>0, <1>1 DEF Tables, MergesFit, MergedIn
  <2>2. q.channel \in {"message", "card"} => tk.status # "cancelled"
    BY <1>3 DEF Fits, StatusFits, Open
  <2>3. q.channel = "review" => q.action \in {"accept", "reopen"}
    BY <1>0, <1>1 DEF AsksFit, ChannelActions
  <2>4. q.channel = "review" => tk.status # "cancelled"
    BY <1>3, <2>3 DEF Fits, StatusFits
  <2>5. q.channel \in {"message", "review", "card", "page"}
    BY <1>1 DEF Ask, Channels
  <2>. QED
    BY <1>3, <2>1, <2>2, <2>4, <2>5 DEF Fits
<1>8. /\ e \in Event /\ e.request = r /\ e.task = q.task /\ e.before = tk.status
      /\ e.after = next.status /\ e.deadline = next.deadline /\ e.action # "overdue"
  <2>1. tk.status \in Statuses
    BY <1>1, <1>3 DEF TaskRow, Absent
  <2>. QED
    BY <1>1, <1>6, <2>1, EventFits
<1>9. q.action \in ChannelActions[q.channel]
  BY <1>0, <1>1 DEF AsksFit
<1>. HIDE DEF q, tk, next, e
<1>10. /\ q \in Ask /\ q # None /\ q.task \in Tasks /\ tk \in TaskRow
       /\ ~Applied(r) /\ Acceptable(q, tk)
       /\ q.action = "complete" => tk.cycle < MaxCycles
       /\ Fits(q, tk) /\ Possible(q, tk) /\ ~Absent(tk)
       /\ q.action \in ChannelActions[q.channel]
  BY <1>1, <1>3, <1>9
<1>11. q.action = "merge" =>
          /\ q.target \in Tasks \ {q.task} /\ tk.into = None
          /\ task[q.target].into = None
          /\ next \in TaskRow /\ next.status = "cancelled" /\ next.into = q.target
          /\ next.cycle = tk.cycle /\ next.review = tk.review
  BY <1>4, <1>5
<1>. QED
  BY <1>6, <1>7, <1>8, <1>10, <1>11 DEF q, tk, next, e

LEMMA ApplyKeeps ==
    ASSUME Inv, NEW r \in Requests, Apply(r)
    PROVE  Inv' /\ Frozen
<1>. DEFINE q == request[r]
            tk == task[q.task]
            next == Transition(q, tk)
            e == LifecycleEvent(r, q, tk)
            M == Append(log, e)
            R == Submitted(q, tk)
            F == MovedEvidence(q)
            V == [task EXCEPT ![q.task] = next]
<1>0. /\ TypeOK /\ AsksFit /\ Tables(task, evidence, log, submission, attached)
      /\ request \in [Requests -> Ask \cup {None}] /\ task \in [Tasks -> TaskRow]
      /\ submission \in [Tasks \X Cycles -> Reviews]
      /\ evidence \in [Tasks -> SUBSET Messages] /\ log \in Seq(Event) /\ LogFits(log)
      /\ \A u \in Tasks : /\ ReviewFits(submission, u, task[u])
                          /\ ExplainFits(log, u, task[u].status)
                          /\ OverdueFits(log, u, task[u])
  BY DEF Inv, TypeOK, Tables, LogFits, ReviewsFit, ExplainsFit, OverduesFit
<1>1. /\ q \in Ask /\ q # None /\ q.task \in Tasks /\ tk \in TaskRow
      /\ ~Applied(r) /\ Acceptable(q, tk)
      /\ q.action = "complete" => tk.cycle < MaxCycles
  BY ApplyRow
<1>2. /\ task' = [task EXCEPT ![q.task] = MarkedOverdue(next, q.at)]
      /\ submission' = R /\ evidence' = F
      /\ log' = LoggedOverdue(M, q.task, next, q.at)
      /\ request' = [request EXCEPT ![r] =
                        [q EXCEPT !.place = "answered", !.at = None]]
      /\ attached' = attached \cup
             UNION {(evidence'[t] \ evidence[t]) \X {t} : t \in Tasks}
      /\ UNCHANGED <<now, administrators, grants>>
  BY DEF Apply, Answer
<1>3. Fits(q, tk) /\ Possible(q, tk) /\ ~Absent(tk)
  BY ApplyRow
<1>4. q.action = "merge" =>
          /\ q.target \in Tasks \ {q.task} /\ tk.into = None /\ task[q.target].into = None
  BY ApplyRow
<1>5. q.action = "merge" =>
          /\ next \in TaskRow /\ next.status = "cancelled" /\ next.into = q.target
          /\ next.cycle = tk.cycle /\ next.review = tk.review
  BY ApplyRow
<1>6. /\ next \in TaskRow /\ next.status \in Statuses
      /\ q.action # "merge" => next.into = tk.into
  BY ApplyRow
<1>7. q.action # "merge" => tk.into = None
  BY ApplyRow
<1>8. /\ e \in Event /\ e.request = r /\ e.task = q.task /\ e.before = tk.status
      /\ e.after = next.status /\ e.deadline = next.deadline /\ e.action # "overdue"
  BY ApplyRow
<1>9. /\ R \in [Tasks \X Cycles -> Reviews]
      /\ ReviewFits(R, q.task, next)
      /\ \A u \in Tasks \ {q.task} : ReviewFits(R, u, task[u])
      /\ \A u \in Tasks : \A c \in Cycles :
             R[<<u, c>>] # submission[<<u, c>>] => u = q.task /\ c = next.cycle
  <2>1. CASE q.action = "merge"
    <3>1. R = submission
      BY <2>1 DEF Submitted, Verdict
    <3>2. ReviewFits(submission, q.task, next)
      BY <1>0, <1>1, <1>5, <2>1 DEF ReviewFits
    <3>. QED
      BY <1>0, <3>1, <3>2
  <2>2. CASE q.action # "merge"
    <3>1. ReviewFits(submission, q.task, tk) /\ q.action \in ChannelActions[q.channel]
      BY <1>0, <1>1 DEF AsksFit
    <3>. QED
      BY <1>0, <1>1, <1>3, <2>2, <3>1, SubmittedFits
  <2>. QED
    BY <2>1, <2>2
<1>10. /\ LogFits(M) /\ ExplainFits(M, q.task, next.status) /\ OverdueFits(M, q.task, next)
       /\ \A u \in Tasks \ {q.task} :
              ExplainFits(M, u, task[u].status) /\ OverdueFits(M, u, task[u])
  <2>1. \A i \in DOMAIN log : log[i].request # e.request
    BY <1>1, <1>8 DEF Applied, AppliedAt
  <2>. HIDE DEF q, tk, next, e
  <2>2. LogFits(M)
    BY <1>0, <1>8, <2>1, LogAppended
  <2>3. ExplainFits(M, q.task, next.status)
    <3>1. ExplainFits(log, q.task, tk.status)
      BY <1>0, <1>1 DEF tk
    <3>. QED
      BY <1>0, <1>8, <3>1, ExplainsOwn
  <2>4. OverdueFits(M, q.task, next)
    BY <1>0, <1>8, OverdueOwn
  <2>5. \A u \in Tasks \ {q.task} :
            ExplainFits(M, u, task[u].status) /\ OverdueFits(M, u, task[u])
    BY <1>0, <1>8, ExplainsOther, OverdueAppended
  <2>. QED
    BY <2>2, <2>3, <2>4, <2>5
<1>11. Tables(V, F, M, R, attached)
  <2>1. CASE q.action = "merge"
    <3>1. R = submission
      BY <2>1 DEF Submitted, Verdict
    <3>2. F = [evidence EXCEPT ![q.target] = evidence[q.target] \cup evidence[q.task],
                               ![q.task] = {}]
      BY <2>1 DEF MovedEvidence
    <3>3. ReviewFits(submission, q.task, next)
      BY <1>9, <3>1
    <3>. HIDE DEF q, tk, next, e, M, R, F
    <3>4. Tables([task EXCEPT ![q.task] = next],
                 [evidence EXCEPT ![q.target] = evidence[q.target] \cup evidence[q.task],
                                  ![q.task] = {}], M, submission, attached)
      BY <1>0, <1>1, <1>4, <1>5, <1>10, <2>1, <3>3, MergeKeeps DEF tk
    <3>. QED
      BY <3>1, <3>2, <3>4
  <2>2. CASE q.action # "merge"
    <3>1. F = evidence
      BY <2>2 DEF MovedEvidence
    <3>2. ~Absent(next)
      BY <1>6 DEF Absent, Statuses
    <3>. HIDE DEF q, tk, next, e, M, R, F
    <3>3. task[q.task].into = None /\ next.into = None
      BY <1>6, <1>7, <2>2 DEF tk
    <3>4. Tables([task EXCEPT ![q.task] = next], evidence, M, R, attached)
      BY <1>0, <1>1, <1>6, <1>9, <1>10, <3>2, <3>3, RowWritten
    <3>. QED
      BY <3>1, <3>4
  <2>. QED
    BY <2>1, <2>2
<1>12. Tables(task', evidence', log', submission', attached)
  <2>. HIDE DEF q, next, M, R, F
  <2>. QED
    BY <1>0, <1>1, <1>2, <1>11, WriteAndMark
<1>13. Tables(task', evidence', log', submission', attached')
  BY <1>2, <1>12, AttachedNow
<1>14. TypeOK' /\ AsksFit'
  <2>1. [q EXCEPT !.place = "answered", !.at = None] \in Ask
    <3>1. q \in Ask
      BY <1>1
    <3>. HIDE DEF q
    <3>. QED
      BY <3>1 DEF Ask
  <2>2. request' \in [Requests -> Ask \cup {None}]
    BY <1>0, <1>2, <2>1
  <2>3. AsksFit'
    BY <1>0, <1>1, <1>2 DEF AsksFit, Ask
  <2>4. attached' \subseteq Messages \X Tasks
    <3>1. evidence' \in [Tasks -> SUBSET Messages] /\ attached \in SUBSET (Messages \X Tasks)
      BY <1>0, <1>13 DEF Tables, TypeOK
    <3>. QED
      BY <1>2, <3>1, AttachedTypes
  <2>. QED
    BY <1>0, <1>2, <1>9, <1>13, <2>2, <2>3, <2>4 DEF TypeOK, Tables, RowsFit, LogFits
<1>15. Frozen
  <2>1. task'[q.task].cycle = next.cycle
    BY <1>0, <1>1, <1>2, <1>6, MarkedRow
  <2>. QED
    BY <1>2, <1>9, <2>1 DEF Frozen
<1>. QED
  BY <1>13, <1>14, <1>15 DEF Inv

LEMMA MaterializeKeeps ==
    ASSUME Inv, NEW batch \in Batches, Materialize(batch)
    PROVE  Inv' /\ Frozen
<1>1. /\ TypeOK /\ AsksFit /\ Tables(Board.task, Board.evidence, Board.log, submission, attached)
      /\ UNCHANGED <<now, administrators, submission, request, grants>>
  BY DEF Inv, Board, Materialize
<1>2. batch[1] \in Candidate /\ (Len(batch) # 1 => batch[2] \in Candidate)
  BY BatchAssumption
<1>3. PICK first \in After(Board, batch[1]) :
         \E b \in IF Len(batch) = 1 THEN {first} ELSE After(first, batch[2]) :
            /\ task' = b.task /\ evidence' = b.evidence /\ log' = b.log
            /\ attached' = attached \cup
                   UNION {(b.evidence[t] \ evidence[t]) \X {t} : t \in Tasks}
  BY DEF Materialize
<1>4. PICK b \in IF Len(batch) = 1 THEN {first} ELSE After(first, batch[2]) :
            /\ task' = b.task /\ evidence' = b.evidence /\ log' = b.log
            /\ attached' = attached \cup
                   UNION {(b.evidence[t] \ evidence[t]) \X {t} : t \in Tasks}
  BY <1>3
<1>5. Tables(first.task, first.evidence, first.log, submission, attached)
  <2>. HIDE DEF Board
  <2>. QED
    BY <1>1, <1>2, <1>3, AfterKeeps
<1>6. Tables(b.task, b.evidence, b.log, submission, attached)
  BY <1>2, <1>4, <1>5, AfterKeeps
<1>7. Tables(task', evidence', log', submission', attached')
  <2>1. Tables(task', evidence', log', submission, attached)
    BY <1>4, <1>6
  <2>2. attached' = attached \cup
            UNION {(evidence'[t] \ evidence[t]) \X {t} : t \in Tasks}
    BY <1>4
  <2>. QED
    BY <1>1, <2>1, <2>2, AttachedNow
<1>8. TypeOK' /\ AsksFit'
  <2>1. /\ task' \in [Tasks -> TaskRow] /\ log' \in Seq(Event)
        /\ evidence' \in [Tasks -> SUBSET Messages]
    BY <1>7 DEF Tables, RowsFit, LogFits
  <2>2. attached' \subseteq Messages \X Tasks
    <3>1. attached \in SUBSET (Messages \X Tasks)
      BY <1>1 DEF TypeOK
    <3>2. attached' = attached \cup
              UNION {(evidence'[t] \ evidence[t]) \X {t} : t \in Tasks}
      BY <1>4
    <3>. QED
      BY <2>1, <3>1, <3>2, AttachedTypes
  <2>. QED
    BY <1>1, <2>1, <2>2 DEF TypeOK, AsksFit
<1>. QED
  BY <1>1, <1>7, <1>8 DEF Inv, Frozen

LEMMA MarkOverdueKeeps ==
    ASSUME Inv, NEW t \in Tasks, MarkOverdue(t)
    PROVE  Inv' /\ Frozen
<1>1. /\ TypeOK /\ AsksFit /\ Tables(task, evidence, log, submission, attached)
      /\ task' = [task EXCEPT ![t] = MarkedOverdue(task[t], now)]
      /\ log' = LoggedOverdue(log, t, task[t], now)
      /\ UNCHANGED <<now, administrators, submission, evidence, request, grants, attached>>
  BY DEF Inv, MarkOverdue
<1>2. Tables(task', evidence', log', submission', attached')
  BY <1>1, MarkKeeps
<1>3. TypeOK' /\ AsksFit'
  BY <1>1, <1>2 DEF TypeOK, AsksFit, Tables, RowsFit, LogFits
<1>. QED
  BY <1>1, <1>2, <1>3 DEF Inv, Frozen

(* Sending asks for what the channel offers. *)
LEMMA SendKeeps ==
    ASSUME Inv, NEW r \in Requests, Send(r)
    PROVE  Inv' /\ Frozen
<1>1. /\ TypeOK /\ AsksFit /\ Tables(task, evidence, log, submission, attached)
      /\ UNCHANGED <<now, administrators, task, submission, evidence, log, grants, attached>>
  BY DEF Inv, Send
<1>2. \E k \in Kinds, actor \in Members, t \in Tasks :
      \E v \in Values(k[2], t) :
          /\ task[t].status # "absent"
          /\ k[1] = "message" => ReadAsCommand(k[2], actor, task[t], v)
          /\ k[1] = "review" => ReadAsReview(k[2], actor, task[t])
          /\ request' = [request EXCEPT ![r] =
                [channel |-> k[1], action |-> k[2], actor |-> actor, task |-> t,
                 deadline |-> v.deadline, owners |-> v.owners, title |-> v.title,
                 target |-> v.target,
                 place |-> "sent", at |-> None]]
  BY DEF Send
<1>3. PICK k \in Kinds, actor \in Members, t \in Tasks : \E v \in Values(k[2], t) :
          /\ task[t].status # "absent"
          /\ k[1] = "message" => ReadAsCommand(k[2], actor, task[t], v)
          /\ k[1] = "review" => ReadAsReview(k[2], actor, task[t])
          /\ request' = [request EXCEPT ![r] =
                [channel |-> k[1], action |-> k[2], actor |-> actor, task |-> t,
                 deadline |-> v.deadline, owners |-> v.owners, title |-> v.title,
                 target |-> v.target,
                 place |-> "sent", at |-> None]]
  BY <1>2, Zenon
<1>4. PICK v \in Values(k[2], t) :
          request' = [request EXCEPT ![r] =
                [channel |-> k[1], action |-> k[2], actor |-> actor, task |-> t,
                 deadline |-> v.deadline, owners |-> v.owners, title |-> v.title,
                 target |-> v.target,
                 place |-> "sent", at |-> None]]
  BY <1>3, Zenon
<1>. DEFINE ask == [channel |-> k[1], action |-> k[2], actor |-> actor, task |-> t,
                    deadline |-> v.deadline, owners |-> v.owners, title |-> v.title,
                    target |-> v.target,
                    place |-> "sent", at |-> None]
<1>5. /\ v.deadline \in Deadlines \cup {None} /\ v.owners \in SUBSET Members
      /\ v.title \in Titles \cup {None} /\ v.target \in Tasks \cup {None}
      /\ k[2] = "merge" => v.target \in Tasks
  BY DEF Values
<1>6. k[1] \in Channels /\ k[2] \in ChannelActions[k[1]] /\ k[2] \in AllActions
  BY KindAssumption DEF AllActions
<1>7. ask \in Ask /\ ask.channel = k[1] /\ ask.action = k[2] /\ ask.target = v.target
  BY <1>5, <1>6 DEF Ask
<1>8. TypeOK' /\ AsksFit'
  <2>1. request' = [request EXCEPT ![r] = ask]
    BY <1>4
  <2>. HIDE DEF ask
  <2>2. request' \in [Requests -> Ask \cup {None}]
    BY <1>1, <1>7, <2>1 DEF TypeOK
  <2>3. AsksFit'
    BY <1>1, <1>5, <1>6, <1>7, <2>1 DEF TypeOK, AsksFit
  <2>. QED
    BY <1>1, <2>2, <2>3 DEF TypeOK
<1>. QED
  BY <1>1, <1>8 DEF Inv, Frozen

(* A request moves to another place, and nothing else changes. *)
LEMMA MoveKeeps ==
    ASSUME Inv, NEW r \in Requests, request[r] # None,
           NEW place \in {"sent", "begun", "answered"}, NEW at \in Instants \cup {None},
           request' = [request EXCEPT ![r] =
                          [request[r] EXCEPT !.place = place, !.at = at]],
           UNCHANGED <<now, administrators, task, submission, evidence, log, grants,
                       attached>>
    PROVE  Inv' /\ Frozen
<1>. DEFINE q == request[r]
            ask == [q EXCEPT !.place = place, !.at = at]
<1>1. TypeOK /\ AsksFit /\ Tables(task, evidence, log, submission, attached) /\ q \in Ask
  BY DEF Inv, TypeOK
<1>2. ask \in Ask /\ ask.channel = q.channel /\ ask.action = q.action /\ ask.target = q.target
  <2>. HIDE DEF q
  <2>. QED
    BY <1>1 DEF Ask
<1>3. request' \in [Requests -> Ask \cup {None}] /\ AsksFit'
  <2>. HIDE DEF ask
  <2>1. request' = [request EXCEPT ![r] = ask]
    BY DEF ask
  <2>. QED
    BY <1>1, <1>2, <2>1 DEF TypeOK, AsksFit
<1>. QED
  BY <1>1, <1>3 DEF Inv, TypeOK, Frozen

LEMMA HandleKeeps ==
    ASSUME Inv, NEW r \in Requests, Handle(r)
    PROVE  Inv' /\ Frozen
<1>1. CASE Begin(r)
  <2>1. now \in Instants
    BY DEF Inv, TypeOK
  <2>. QED
    BY <1>1, <2>1, MoveKeeps DEF Begin, At
<1>2. CASE Redeliver(r)
  BY <1>2, MoveKeeps DEF Redeliver, At
<1>3. CASE Replay(r)
  BY <1>3, MoveKeeps DEF Replay, Answer, At
<1>4. CASE Refuse(r)
  BY <1>4, MoveKeeps DEF Refuse, Answer, At
<1>. QED
  BY <1>1, <1>2, <1>3, <1>4, SendKeeps, ApplyKeeps DEF Handle

LEMMA InitKeeps ==
    ASSUME Init
    PROVE  Inv
<1>1. /\ task = [t \in Tasks |-> NoTask] /\ submission = [s \in Tasks \X Cycles |-> "none"]
      /\ evidence = [t \in Tasks |-> {}] /\ log = << >> /\ attached = {}
      /\ request = [r \in Requests |-> None]
  BY DEF Init
<1>2. /\ NoTask \in TaskRow /\ NoTask.into = None /\ NoTask.cycle = 0
      /\ NoTask.review = "none" /\ NoTask.status = "absent"
  BY NoTaskRow DEF NoTask
<1>3. TypeOK /\ AsksFit
  BY <1>1, <1>2, BoundAssumption DEF Init, TypeOK, AsksFit, Reviews
<1>4. RowsFit(task) /\ MergedIn(task) = {}
  BY <1>1, <1>2 DEF RowsFit, MergedIn
<1>5. MergesFit(task, evidence) /\ EvidenceFits(task, evidence, attached)
  BY <1>1, <1>4 DEF MergesFit, EvidenceFits
<1>6. ReviewsFit(task, submission)
  BY <1>1, <1>2 DEF ReviewsFit, ReviewFits, Cycles
<1>7. LogFits(log) /\ \A t : EventsIn(log, t) = {}
  BY <1>1 DEF LogFits, OnceIn, EventsIn
<1>8. OverduesFit(task, log) /\ ExplainsFit(task, log)
  BY <1>1, <1>2, <1>7
  DEF OverduesFit, OverdueFits, ExplainsFit, ExplainFits, ChainFits, EndFits, SilentFits
<1>. QED
  BY <1>1, <1>3, <1>4, <1>5, <1>6, <1>7, <1>8 DEF Inv, Tables

LEMMA NextKeeps ==
    ASSUME Inv, [Next]_vars
    PROVE  Inv' /\ Frozen
<1>1. CASE Tick
  BY <1>1 DEF Tick, Inv, TypeOK, AsksFit, Frozen
<1>2. CASE ChangeAdministrators
  <2>1. administrators' \subseteq Members /\ grants' \in 0..MaxGrants
    BY <1>2, BoundAssumption DEF ChangeAdministrators, Inv, TypeOK
  <2>. QED
    BY <1>2, <2>1 DEF ChangeAdministrators, Inv, TypeOK, AsksFit, Frozen
<1>3. CASE UNCHANGED vars
  BY <1>3 DEF vars, Inv, TypeOK, AsksFit, Frozen
<1>. QED
  BY <1>1, <1>2, <1>3, MarkOverdueKeeps, MaterializeKeeps, HandleKeeps DEF Next

LEMMA Invariance == Spec => []Inv /\ [][Frozen]_vars
<1>1. Init => Inv
  BY InitKeeps
<1>2. Inv /\ [Next]_vars => Inv' /\ Frozen
  BY NextKeeps
<1>3. Frozen => [Frozen]_vars
  OBVIOUS
<1>. QED
  BY <1>1, <1>2, <1>3, PTL DEF Spec

-----------------------------------------------------------------------------
(* The theorems. *)

(* Every row, event and request is one the tables can hold, on whatever channel
   and in whatever order members and administrators act. *)
THEOREM TypeCorrect == Spec => []TypeOK
  BY Invariance, PTL DEF Inv

(* The review of a task is that of the submission of its current completion,
   for any number of tasks, completions, restorations and stale verdicts. *)
THEOREM ReviewsMatch == Spec => []ReviewMatchesSubmission
  BY Invariance, InvGives, PTL

(* The verdict on an earlier completion stays: a step writes the submission of the
   current cycle alone. *)
THEOREM SubmissionsFrozen == Spec => FrozenSubmissions
<1>1. Frozen => \A t \in Tasks, c \in Cycles :
                    submission'[<<t, c>>] # submission[<<t, c>>] => c = task'[t].cycle
  BY DEF Frozen
<1>. QED
  BY <1>1, Invariance, PTL DEF FrozenSubmissions

(* Merges of any number of tasks, in any order, end at a task that was not merged,
   and a merged task is closed and holds no evidence. *)
THEOREM MergesTerminate == Spec => []MergesEnd
  BY Invariance, InvGives, PTL

(* No merge loses evidence: what was attached to a task is evidence of the task
   that was kept. *)
THEOREM EvidenceIsKept == Spec => []EvidenceFollowsMerge
  BY Invariance, InvGives, PTL

(* A request that is delivered again, at any time, acts once. *)
THEOREM RequestsActOnce == Spec => []RequestActsOnce
  BY Invariance, InvGives, PTL

(* The audit log accounts for every status a task has. *)
THEOREM AuditExplains == Spec => []AuditExplainsStatus
  BY Invariance, InvGives, PTL

(* No task is overdue without an event that says so for its deadline. *)
THEOREM OverdueAudited == Spec => []OverdueIsAudited
  BY Invariance, InvGives, PTL

-----------------------------------------------------------------------------
(* The board the members see.  What a step may make of a row without a request:
   a detection run finds it or becomes sure of it, and nothing ends. *)

FoundMoves ==
    {<<s, s>> : s \in {"none", "suspected", "open", "done", "cancelled"}}
    \cup {<<"none", "suspected">>, <<"none", "open">>, <<"suspected", "open">>}

RowMoves(old, new) ==
    /\ <<LifeOf(old), LifeOf(new)>> \in FoundMoves
    /\ new.into = old.into /\ new.cycle = old.cycle

TableMoves(T, U) == \A t \in Tasks : RowMoves(T[t], U[t])

ActedIn(L) == {L[i].request : i \in DOMAIN L} \ {None}

LEMMA LifeRange ==
    ASSUME NEW tk \in TaskRow
    PROVE  /\ LifeOf(tk) \in {"none", "suspected", "open", "done", "cancelled"}
           /\ tk.status = "absent" <=> LifeOf(tk) = "none"
           /\ tk.status = "pending" <=> LifeOf(tk) = "suspected"
           /\ Open(tk) <=> LifeOf(tk) = "open"
           /\ tk.status = "done" <=> LifeOf(tk) = "done"
           /\ tk.status = "cancelled" <=> LifeOf(tk) = "cancelled"
<1>1. tk.status \in {"absent", "pending", "todo", "overdue", "done", "cancelled"}
  BY DEF TaskRow, Statuses
<1>2. CASE tk.status \in {"absent", "pending"}
  BY <1>2 DEF LifeOf, Open
<1>3. CASE tk.status \in {"todo", "overdue"}
  BY <1>3 DEF LifeOf, Open
<1>4. CASE tk.status \in {"done", "cancelled"}
  BY <1>4 DEF LifeOf, Open
<1>. QED
  BY <1>1, <1>2, <1>3, <1>4

LEMMA LifeMarked ==
    ASSUME NEW tk \in TaskRow, NEW at
    PROVE  LifeOf(MarkedOverdue(tk, at)) = LifeOf(tk)
<1>1. CASE FallsDue(tk, at)
  <2>1. Open(tk) /\ Open(MarkedOverdue(tk, at)) /\ MarkedOverdue(tk, at) \in TaskRow
    BY <1>1, MarkedRow DEF Open
  <2>. QED
    BY <2>1, LifeRange
<1>2. CASE ~FallsDue(tk, at)
  BY <1>2, MarkedRow
<1>. QED
  BY <1>1, <1>2

LEMMA MovesTwice ==
    ASSUME NEW T, NEW U, NEW V, TableMoves(T, U), TableMoves(U, V)
    PROVE  TableMoves(T, V)
<1>1. \A a, b, c : <<a, b>> \in FoundMoves /\ <<b, c>> \in FoundMoves => <<a, c>> \in FoundMoves
  BY DEF FoundMoves
<1>. QED
  BY <1>1 DEF TableMoves, RowMoves

LEMMA MovesNowhere ==
    ASSUME NEW tk \in TaskRow
    PROVE  RowMoves(tk, tk)
  BY LifeRange DEF RowMoves, FoundMoves

(* Only an event of a request adds to the requests that acted. *)
LEMMA ActedAppended ==
    ASSUME NEW L \in Seq(Event), NEW e \in Event
    PROVE  ActedIn(Append(L, e)) = ActedIn(L) \cup ({e.request} \ {None})
<1>. DEFINE M == Append(L, e)
            n == Len(L)
<1>1. /\ n \in Nat /\ DOMAIN L = 1..n /\ DOMAIN M = 1..(n + 1) /\ M[n + 1] = e
      /\ \A i \in 1..n : M[i] = L[i]
  BY Appended
<1>. HIDE DEF M, n
<1>2. \A i \in DOMAIN M : i \in DOMAIN L \/ i = n + 1
  BY <1>1
<1>3. DOMAIN L \subseteq DOMAIN M /\ n + 1 \in DOMAIN M
  BY <1>1
<1>4. {M[i].request : i \in DOMAIN M} = {L[i].request : i \in DOMAIN L} \cup {e.request}
  BY <1>1, <1>2, <1>3
<1>. QED
  BY <1>4 DEF ActedIn, M

LEMMA ActedOverdue ==
    ASSUME NEW L \in Seq(Event), NEW t \in Tasks, NEW tk \in TaskRow, NEW at
    PROVE  ActedIn(LoggedOverdue(L, t, tk, at)) = ActedIn(L)
<1>1. CASE FallsDue(tk, at) /\ ~Logs(L, t, tk.deadline)
  <2>1. OverdueEvent(t, tk) \in Event /\ OverdueEvent(t, tk).request = None
    BY NullAssumption DEF OverdueEvent, Event, TaskRow, Statuses
  <2>2. LoggedOverdue(L, t, tk, at) = Append(L, OverdueEvent(t, tk))
    BY <1>1 DEF LoggedOverdue
  <2>3. ActedIn(Append(L, OverdueEvent(t, tk))) =
            ActedIn(L) \cup ({OverdueEvent(t, tk).request} \ {None})
    BY <2>1, ActedAppended
  <2>. QED
    BY <2>1, <2>2, <2>3
<1>2. CASE ~(FallsDue(tk, at) /\ ~Logs(L, t, tk.deadline))
  BY <1>2 DEF LoggedOverdue
<1>. QED
  BY <1>1, <1>2

(* One candidate finds, refines or activates at most one task. *)
LEMMA AfterMoves ==
    ASSUME NEW b, NEW S, NEW A, Tables(b.task, b.evidence, b.log, S, A),
           NEW c \in Candidate, NEW d \in After(b, c)
    PROVE  TableMoves(b.task, d.task) /\ ActedIn(d.log) = ActedIn(b.log)
<1>. DEFINE T == b.task
            Board1(t, tk) == [task |-> [T EXCEPT ![t] = MarkedOverdue(tk, now)],
                              evidence |-> [b.evidence EXCEPT
                                               ![t] = b.evidence[t] \cup c.messages],
                              log |-> LoggedOverdue(b.log, t, tk, now)]
            Wrote(t, tk) == /\ d.task = [T EXCEPT ![t] = MarkedOverdue(tk, now)]
                            /\ d.log = LoggedOverdue(b.log, t, tk, now)
<1>1. T \in [Tasks -> TaskRow] /\ b.log \in Seq(Event)
      /\ \A t \in Tasks : Absent(T[t]) => T[t] = NoTask
  BY DEF Tables, RowsFit, LogFits
<1>2. \/ \E t \in Tasks : Absent(T[t]) /\ Wrote(t, Created(c))
      \/ \E t \in Tasks : Wrote(t, Refined(T[t], c))
  <2>1. \/ \E t \in Tasks : Absent(T[t]) /\ d = Board1(t, Created(c))
        \/ \E t \in Matches(b, c) : d = Board1(t, Refined(T[t], c))
    BY DEF After, Absent
  <2>2. Matches(b, c) \subseteq Tasks
    BY DEF Matches
  <2>3. \A t, tk : d = Board1(t, tk) => Wrote(t, tk)
    OBVIOUS
  <2>. HIDE DEF T, Board1, Wrote
  <2>. QED
    BY <2>1, <2>2, <2>3
<1>3. ASSUME NEW t \in Tasks, NEW tk \in TaskRow, Wrote(t, tk), RowMoves(T[t], tk)
      PROVE  TableMoves(T, d.task) /\ ActedIn(d.log) = ActedIn(b.log)
  <2>1. ActedIn(d.log) = ActedIn(b.log)
    BY <1>1, <1>3, ActedOverdue
  <2>2. \A u \in Tasks : d.task[u] = IF u = t THEN MarkedOverdue(tk, now) ELSE T[u]
    BY <1>1, <1>3
  <2>3. RowMoves(T[t], MarkedOverdue(tk, now))
    BY <1>3, LifeMarked, MarkedRow DEF RowMoves
  <2>. HIDE DEF T, Wrote
  <2>. QED
    BY <1>1, <2>1, <2>2, <2>3, MovesNowhere DEF TableMoves
<1>4. ASSUME NEW t \in Tasks, Absent(T[t]), Wrote(t, Created(c))
      PROVE  TableMoves(T, d.task) /\ ActedIn(d.log) = ActedIn(b.log)
  <2>1. /\ Created(c) \in TaskRow /\ Created(c).status \in {"todo", "pending"}
        /\ Created(c).into = None /\ Created(c).cycle = 0
    BY CreatedRow
  <2>2. LifeOf(Created(c)) \in {"open", "suspected"}
    BY <2>1, LifeRange DEF Open
  <2>3. /\ T[t] \in TaskRow /\ T[t].status = "absent"
        /\ T[t].into = None /\ T[t].cycle = 0
    BY <1>1, <1>4 DEF NoTask
  <2>4. LifeOf(T[t]) = "none"
    BY <2>3, LifeRange
  <2>5. RowMoves(T[t], Created(c))
    BY <2>1, <2>2, <2>3, <2>4 DEF RowMoves, FoundMoves
  <2>. QED
    BY <1>3, <1>4, <2>1, <2>5
<1>5. ASSUME NEW t \in Tasks, Wrote(t, Refined(T[t], c))
      PROVE  TableMoves(T, d.task) /\ ActedIn(d.log) = ActedIn(b.log)
  <2>. DEFINE tk == T[t]
              new == Refined(tk, c)
  <2>1. tk \in TaskRow
    BY <1>1
  <2>2. /\ new \in TaskRow /\ new.into = tk.into /\ new.cycle = tk.cycle
        /\ new.status = tk.status \/ (tk.status = "pending" /\ new.status = "todo")
    BY <2>1, RefinedRow
  <2>. HIDE DEF tk, new
  <2>3. CASE new.status = tk.status
    <3>1. LifeOf(new) = LifeOf(tk)
      BY <2>3 DEF LifeOf, Open
    <3>. QED
      BY <1>3, <1>5, <2>1, <2>2, <3>1, LifeRange DEF RowMoves, FoundMoves, tk, new
  <2>4. CASE tk.status = "pending" /\ new.status = "todo"
    <3>1. LifeOf(tk) = "suspected" /\ LifeOf(new) = "open"
      BY <2>1, <2>2, <2>4, LifeRange DEF Open
    <3>2. RowMoves(tk, new)
      BY <2>2, <3>1 DEF RowMoves, FoundMoves
    <3>. QED
      BY <1>3, <1>5, <2>2, <3>2 DEF tk, new
  <2>. QED
    BY <2>2, <2>3, <2>4
<1>. QED
  BY <1>2, <1>4, <1>5

(* A step that moves rows like this, and adds no request, is a detection. *)
LEMMA DetectShown ==
    ASSUME Inv, Inv', TableMoves(task, task'), UNCHANGED submission,
           ActedIn(log') = ActedIn(log)
    PROVE  Shown!Detect
<1>. DEFINE life == [t \in Tasks |-> LifeOf(task[t])]
            Keeper(tk, t) == IF tk.into = None THEN t ELSE tk.into
<1>1. \A t \in Tasks : task[t] \in TaskRow /\ task'[t] \in TaskRow
  BY DEF Inv, TypeOK
<1>2. [t \in Tasks |-> LifeOf(task[t])]' \in [Tasks -> Shown!Lives]
  BY <1>1, LifeRange DEF Shown!Lives
<1>3. \A t \in Tasks : <<life[t], [u \in Tasks |-> LifeOf(task[u])]'[t]>> \in FoundMoves
  BY DEF TableMoves, RowMoves
<1>4. /\ [t \in Tasks |-> Keeper(task[t], t)]' = [t \in Tasks |-> Keeper(task[t], t)]
      /\ [t \in Tasks |-> task[t].cycle]' = [t \in Tasks |-> task[t].cycle]
  BY DEF TableMoves, RowMoves
<1>5. ActedIn(log)' = ActedIn(log)
  OBVIOUS
<1>. QED
  BY <1>2, <1>3, <1>4, <1>5 DEF Shown!Detect, Shown!Lives, FoundMoves, ActedIn

LEMMA MaterializeShown ==
    ASSUME Inv, Inv', NEW batch \in Batches, Materialize(batch)
    PROVE  Shown!Detect
<1>1. Tables(Board.task, Board.evidence, Board.log, submission, attached)
  BY DEF Inv, Board
<1>2. batch[1] \in Candidate /\ (Len(batch) # 1 => batch[2] \in Candidate)
  BY BatchAssumption
<1>3. UNCHANGED submission
  BY DEF Materialize
<1>4. PICK first \in After(Board, batch[1]) :
         \E b \in IF Len(batch) = 1 THEN {first} ELSE After(first, batch[2]) :
            task' = b.task /\ log' = b.log
  BY DEF Materialize
<1>5. PICK b \in IF Len(batch) = 1 THEN {first} ELSE After(first, batch[2]) :
            task' = b.task /\ log' = b.log
  BY <1>4
<1>6. Tables(first.task, first.evidence, first.log, submission, attached)
  <2>. HIDE DEF Board
  <2>. QED
    BY <1>1, <1>2, <1>4, AfterKeeps
<1>7. TableMoves(Board.task, first.task) /\ ActedIn(first.log) = ActedIn(Board.log)
  <2>. HIDE DEF Board
  <2>. QED
    BY <1>1, <1>2, <1>4, AfterMoves
<1>8. TableMoves(Board.task, b.task) /\ ActedIn(b.log) = ActedIn(Board.log)
  <2>1. CASE Len(batch) = 1
    BY <1>5, <1>7, <2>1
  <2>2. CASE Len(batch) # 1
    <3>1. b \in After(first, batch[2]) /\ batch[2] \in Candidate
      BY <1>2, <1>5, <2>2
    <3>2. TableMoves(first.task, b.task) /\ ActedIn(b.log) = ActedIn(first.log)
      BY <1>6, <3>1, AfterMoves
    <3>. QED
      BY <1>7, <3>2, MovesTwice
  <2>. QED
    BY <2>1, <2>2
<1>9. Board.task = task /\ Board.log = log
  BY DEF Board
<1>. QED
  BY <1>3, <1>5, <1>8, <1>9, DetectShown

LEMMA MarkOverdueShown ==
    ASSUME Inv, Inv', NEW t \in Tasks, MarkOverdue(t)
    PROVE  Shown!Detect
<1>1. /\ task' = [task EXCEPT ![t] = MarkedOverdue(task[t], now)]
      /\ log' = LoggedOverdue(log, t, task[t], now)
      /\ UNCHANGED submission
  BY DEF MarkOverdue
<1>2. task \in [Tasks -> TaskRow] /\ log \in Seq(Event)
  BY DEF Inv, TypeOK
<1>3. ActedIn(log') = ActedIn(log)
  BY <1>1, <1>2, ActedOverdue
<1>4. \A u \in Tasks : task'[u] = IF u = t THEN MarkedOverdue(task[t], now) ELSE task[u]
  BY <1>1, <1>2
<1>5. RowMoves(task[t], MarkedOverdue(task[t], now))
  BY <1>2, LifeMarked, LifeRange, MarkedRow DEF RowMoves, FoundMoves
<1>6. TableMoves(task, task')
  BY <1>2, <1>4, <1>5, MovesNowhere DEF TableMoves
<1>. QED
  BY <1>1, <1>3, <1>6, DetectShown

(* What a request makes of the task, as the members see it. *)
LEMMA TransitionMoves ==
    ASSUME NEW q \in Ask, NEW tk \in TaskRow, ~Absent(tk), Fits(q, tk),
           q.action \in ChannelActions[q.channel],
           Transition(q, tk) \in TaskRow
    PROVE  LET old == LifeOf(tk)
               new == LifeOf(Transition(q, tk))
           IN  /\ q.action = "confirm" => old = "suspected" /\ new = "open"
               /\ q.action = "complete" => old = "open" /\ new = "done"
               /\ q.action = "accept" => old = "done" /\ new = "done"
               /\ q.action = "reopen" => old = "done" /\ new = "open"
               /\ q.action = "restore" => old \in {"done", "cancelled"} /\ new = "open"
               /\ q.action \in {"cancel", "invalidate"} =>
                      old \in {"suspected", "open"} /\ new = "cancelled"
               /\ q.action = "merge" =>
                      old \in {"suspected", "open", "done"} /\ new = "cancelled"
               /\ q.action \in {"reschedule", "rename", "reassign"} =>
                      old = "open" /\ new = "open"
<1>. DEFINE next == Transition(q, tk)
<1>1. /\ q.channel \in {"message", "card"} =>
            /\ Open(tk)
            /\ q.action \in {"complete", "cancel", "reschedule", "rename", "reassign",
                             "invalidate"}
      /\ q.channel = "review" => q.action \in {"accept", "reopen"}
      /\ q.channel \in {"message", "review", "card", "page"}
  BY DEF Fits, StatusFits, ChannelActions, Ask, Channels
<1>2. CASE q.channel \in {"message", "card"}
  <2>1. LifeOf(tk) = "open"
    BY <1>1, <1>2, LifeRange
  <2>2. q.action = "complete" => next.status = "done"
    BY DEF Transition, TaskRow
  <2>3. q.action \in {"cancel", "invalidate"} => next.status = "cancelled"
    BY DEF Transition, TaskRow
  <2>4. q.action \in {"reschedule", "rename", "reassign"} => Open(next)
    BY <1>1, <1>2 DEF Transition, TaskRow, Open
  <2>. HIDE DEF next
  <2>. QED
    BY <1>1, <1>2, <2>1, <2>2, <2>3, <2>4, LifeRange DEF next
<1>3. CASE q.channel \in {"review", "page"}
  <2>. DEFINE a == q.action
  <2>1. StatusFits(q, tk) /\ q.channel \notin {"message", "card"}
    BY <1>3 DEF Fits
  <2>2. CASE a = "confirm"
    <3>1. tk.status = "pending" /\ next.status = "todo"
      BY <2>1, <2>2 DEF StatusFits, Transition, TaskRow
    <3>. QED
      BY <2>2, <3>1, LifeRange DEF Open
  <2>3. CASE a = "complete"
    <3>1. Open(tk) /\ next.status = "done"
      BY <2>1, <2>3 DEF StatusFits, Transition, TaskRow
    <3>. QED
      BY <2>3, <3>1, LifeRange
  <2>4. CASE a = "accept"
    <3>1. tk.status = "done" /\ next.status = tk.status
      BY <2>1, <2>4 DEF StatusFits, Transition, TaskRow
    <3>. QED
      BY <2>4, <3>1, LifeRange
  <2>5. CASE a = "reopen"
    <3>1. tk.status = "done" /\ Open(next)
      BY <2>1, <2>5 DEF StatusFits, Transition, TaskRow, Open, Reopened
    <3>. QED
      BY <2>5, <3>1, LifeRange
  <2>6. CASE a = "restore"
    <3>1. tk.status \in {"done", "cancelled"} /\ Open(next)
      BY <2>1, <2>6 DEF StatusFits, Transition, TaskRow, Open, Reopened
    <3>. QED
      BY <2>6, <3>1, LifeRange
  <2>7. CASE a \in {"cancel", "invalidate"}
    <3>1. (tk.status = "pending" \/ Open(tk)) /\ next.status = "cancelled"
      BY <2>1, <2>7 DEF StatusFits, Transition, TaskRow
    <3>. QED
      BY <2>7, <3>1, LifeRange
  <2>8. CASE a = "merge"
    <3>1. /\ tk.status \in {"pending", "todo", "overdue", "done"}
          /\ next.status = "cancelled"
      BY <2>1, <2>8 DEF StatusFits, Transition, TaskRow
    <3>2. tk.status \in {"todo", "overdue"} => Open(tk)
      BY DEF Open
    <3>. QED
      BY <2>8, <3>1, <3>2, LifeRange
  <2>9. CASE a \in {"reschedule", "rename", "reassign"}
    <3>1. Open(tk) /\ Open(next)
      BY <2>1, <2>9 DEF StatusFits, Transition, TaskRow, Open
    <3>. QED
      BY <2>9, <3>1, LifeRange
  <2>10. a \in {"confirm", "complete", "accept", "reopen", "cancel", "invalidate",
                "reschedule", "rename", "reassign", "restore", "merge"}
    BY <1>3 DEF ChannelActions
  <2>. QED
    BY <2>2, <2>3, <2>4, <2>5, <2>6, <2>7, <2>8, <2>9, <2>10
<1>. QED
  BY <1>1, <1>2, <1>3

(* A request that is applied takes one step of the board, and had taken none. *)
LEMMA ApplyShown ==
    ASSUME Inv, Inv', NEW r \in Requests, Apply(r)
    PROVE  Shown!Act(r)
<1>0. request[r].task \in Tasks
  BY ApplyRow
<1>. PICK t \in Tasks : t = request[r].task
  BY <1>0
<1>. DEFINE q == request[r]
            tk == task[t]
            next == Transition(q, tk)
            e == LifecycleEvent(r, q, tk)
            Keeper(row, u) == IF row.into = None THEN u ELSE row.into
            life == [u \in Tasks |-> LifeOf(task[u])]
            keeper == [u \in Tasks |-> Keeper(task[u], u)]
            rounds == [u \in Tasks |-> task[u].cycle]
            Sets(from, to) == /\ life[t] \in from
                              /\ life' = [life EXCEPT ![t] = to]
<1>1. /\ q \in Ask /\ t \in Tasks /\ tk \in TaskRow /\ ~Applied(r)
      /\ q.action = "complete" => tk.cycle < MaxCycles
      /\ Fits(q, tk) /\ Possible(q, tk) /\ ~Absent(tk)
      /\ q.action \in ChannelActions[q.channel]
      /\ next \in TaskRow /\ e \in Event /\ e.request = r
  BY ApplyRow
<1>2. /\ task' = [task EXCEPT ![t] = MarkedOverdue(next, q.at)]
      /\ submission' = Submitted(q, tk)
      /\ log' = LoggedOverdue(Append(log, e), t, next, q.at)
  BY DEF Apply
<1>3. /\ task \in [Tasks -> TaskRow] /\ log \in Seq(Event) /\ r # None
      /\ None \notin Tasks /\ submission \in [Tasks \X Cycles -> Reviews]
      /\ ReviewFits(submission, t, tk)
  BY <1>1, NullAssumption DEF Inv, TypeOK, Tables, ReviewsFit
<1>4. /\ LifeOf(task'[t]) = LifeOf(next) /\ task'[t].into = next.into
      /\ task'[t].cycle = next.cycle
      /\ \A u \in Tasks \ {t} : task'[u] = task[u]
  <2>1. task'[t] = MarkedOverdue(next, q.at) /\ \A u \in Tasks \ {t} : task'[u] = task[u]
    BY <1>1, <1>2, <1>3
  <2>. HIDE DEF q, next
  <2>. QED
    BY <1>1, <2>1, MarkedRow, LifeMarked
<1>5. r \notin ActedIn(log) /\ ActedIn(log') = ActedIn(log) \cup {r}
  <2>1. ActedIn(Append(log, e)) = ActedIn(log) \cup ({e.request} \ {None})
    BY <1>1, <1>3, ActedAppended
  <2>2. Append(log, e) \in Seq(Event)
    BY <1>1, <1>3, Appended
  <2>3. ActedIn(log') = ActedIn(Append(log, e))
    <3>. DEFINE M == Append(log, e)
                at == q.at
    <3>1. log' = LoggedOverdue(M, t, next, at)
      BY <1>2
    <3>2. next \in TaskRow /\ M \in Seq(Event)
      BY <1>1, <2>2
    <3>. HIDE DEF next, M, at
    <3>3. ActedIn(LoggedOverdue(M, t, next, at)) = ActedIn(M)
      BY <3>2, ActedOverdue
    <3>. QED
      BY <3>1, <3>3 DEF M
  <2>4. r \notin ActedIn(log)
    BY <1>1 DEF Applied, AppliedAt, ActedIn
  <2>. HIDE DEF e
  <2>. QED
    BY <1>1, <1>3, <2>1, <2>3, <2>4
<1>6. life[t] = LifeOf(tk) /\ life' = [life EXCEPT ![t] = LifeOf(next)]
  BY <1>1, <1>4
<1>7. q.action # "merge" => keeper[t] = t /\ UNCHANGED keeper
  <2>1. q.action # "merge" => tk.into = None /\ next.into = None
    BY ApplyRow
  <2>. QED
    BY <1>1, <1>4, <2>1
<1>8. q.action = "merge" =>
          /\ q.target \in Tasks /\ t # q.target /\ keeper[t] = t
          /\ keeper[q.target] = q.target /\ life[q.target] \notin {"none", "cancelled"}
          /\ keeper' = [keeper EXCEPT ![t] = q.target]
  <2>1. q.action = "merge" =>
            /\ q.target \in Tasks \ {t} /\ tk.into = None /\ task[q.target].into = None
            /\ next.into = q.target
    BY ApplyRow
  <2>2. q.action = "merge" => task[q.target].status \notin {"absent", "cancelled"}
    BY <1>1 DEF Possible, Mergeable
  <2>3. q.action = "merge" => LifeOf(task[q.target]) \notin {"none", "cancelled"}
    BY <1>3, <2>1, <2>2, LifeRange
  <2>. QED
    BY <1>1, <1>3, <1>4, <2>1, <2>3
<1>9. /\ q.action # "complete" => next.cycle = tk.cycle
      /\ q.action = "complete" => next.cycle = tk.cycle + 1
  <2>1. q.action = "merge" => next.cycle = tk.cycle
    BY ApplyRow
  <2>. QED
    BY <1>1, <2>1, TransitionRow
<1>10. /\ q.action # "complete" => UNCHANGED rounds
       /\ q.action = "complete" => rounds' = [rounds EXCEPT ![t] = rounds[t] + 1]
  BY <1>1, <1>4, <1>9
<1>11. /\ q.action \notin {"complete", "accept", "reopen"} => UNCHANGED submission
       /\ q.action = "complete" =>
             submission' = [submission EXCEPT ![<<t, tk.cycle + 1>>] = "pending"]
       /\ q.action = "accept" =>
             submission' = [submission EXCEPT ![<<t, tk.cycle>>] = "accepted"]
       /\ q.action = "reopen" =>
             submission' = [submission EXCEPT ![<<t, tk.cycle>>] = "rework_required"]
  <2>. DEFINE a == q.action
              R == Submitted(q, tk)
  <2>1. /\ a \notin {"complete", "accept", "reopen"} => R = submission
        /\ a = "complete" => R = [submission EXCEPT ![<<t, next.cycle>>] = "pending"]
        /\ a = "accept" => R = [submission EXCEPT ![<<t, next.cycle>>] = "accepted"]
        /\ a = "reopen" => R = [submission EXCEPT ![<<t, next.cycle>>] = "rework_required"]
    <3>1. DOMAIN Verdict = {"complete", "accept", "reopen"}
      BY DEF Verdict
    <3>2. /\ Verdict["complete"] = "pending" /\ Verdict["accept"] = "accepted"
          /\ Verdict["reopen"] = "rework_required"
      BY DEF Verdict
    <3>. QED
      BY <3>1, <3>2 DEF Submitted
  <2>2. submission' = R
    BY <1>2
  <2>. HIDE DEF q, tk, next, R
  <2>. QED
    BY <1>9, <2>1, <2>2
<1>12. /\ q.action = "complete" => submission[<<t, tk.cycle + 1>>] = "none"
       /\ q.action = "accept" => submission[<<t, tk.cycle>>] = "pending"
       /\ q.action = "reopen" => submission[<<t, tk.cycle>>] \in {"pending", "accepted"}
  <2>1. q.action = "complete" => submission[<<t, tk.cycle + 1>>] = "none"
    <3>1. tk.cycle \in 0..MaxCycles
      BY <1>1 DEF TaskRow
    <3>2. q.action = "complete" => tk.cycle + 1 \in Cycles /\ ~(tk.cycle + 1 <= tk.cycle)
      BY <1>1, <3>1, BoundAssumption DEF Cycles
    <3>. QED
      BY <1>3, <3>2 DEF ReviewFits
  <2>. QED
    BY <1>1, <2>1 DEF Possible
<1>13. /\ q.action = "confirm" => Sets({"suspected"}, "open")
       /\ q.action = "complete" => Sets({"open"}, "done")
       /\ q.action = "accept" => life[t] = "done" /\ UNCHANGED life
       /\ q.action = "reopen" => Sets({"done"}, "open")
       /\ q.action = "restore" => Sets({"done", "cancelled"}, "open")
       /\ q.action \in {"cancel", "invalidate"} => Sets({"suspected", "open"}, "cancelled")
       /\ q.action = "merge" => Sets({"suspected", "open", "done"}, "cancelled")
       /\ q.action \in {"reschedule", "rename", "reassign"} =>
              life[t] = "open" /\ UNCHANGED life
  <2>. DEFINE old == LifeOf(tk)
              new == LifeOf(next)
  <2>1. /\ q.action = "confirm" => old = "suspected" /\ new = "open"
        /\ q.action = "complete" => old = "open" /\ new = "done"
        /\ q.action = "accept" => old = "done" /\ new = "done"
        /\ q.action = "reopen" => old = "done" /\ new = "open"
        /\ q.action = "restore" => old \in {"done", "cancelled"} /\ new = "open"
        /\ q.action \in {"cancel", "invalidate"} =>
               old \in {"suspected", "open"} /\ new = "cancelled"
        /\ q.action = "merge" => old \in {"suspected", "open", "done"} /\ new = "cancelled"
        /\ q.action \in {"reschedule", "rename", "reassign"} => old = "open" /\ new = "open"
    BY <1>1, TransitionMoves
  <2>2. life[t] = old /\ life' = [life EXCEPT ![t] = new]
    BY <1>6
  <2>3. old = new => UNCHANGED life
    BY <2>2
  <2>. HIDE DEF q, tk, next, old, new, life
  <2>. QED
    BY <2>1, <2>2, <2>3
<1>14. rounds[t] = tk.cycle
  BY <1>1
<1>15. q.action \in {"confirm", "complete", "accept", "reopen", "cancel", "invalidate",
                     "reschedule", "rename", "reassign", "restore", "merge"}
  BY <1>1 DEF Ask, Channels, ChannelActions
<1>16. \/ Shown!Confirm(t) \/ Shown!Complete(t) \/ Shown!Accept(t) \/ Shown!Reopen(t)
       \/ Shown!Restore(t) \/ Shown!Drop(t) \/ Shown!Correct(t)
       \/ \E u \in Tasks : Shown!Merge(t, u)
  <2>. HIDE DEF q, tk, next
  <2>1. CASE q.action = "confirm"
    BY <1>7, <1>10, <1>11, <1>13, <2>1 DEF Shown!Confirm, Shown!Moves
  <2>2. CASE q.action = "complete"
    BY <1>7, <1>10, <1>11, <1>12, <1>13, <1>14, <2>2 DEF Shown!Complete, Shown!Moves
  <2>3. CASE q.action = "accept"
    BY <1>7, <1>10, <1>11, <1>12, <1>13, <1>14, <2>3 DEF Shown!Accept, Shown!Judges
  <2>4. CASE q.action = "reopen"
    BY <1>7, <1>10, <1>11, <1>12, <1>13, <1>14, <2>4
    DEF Shown!Reopen, Shown!Judges, Shown!Moves
  <2>5. CASE q.action = "restore"
    BY <1>7, <1>10, <1>11, <1>13, <2>5 DEF Shown!Restore, Shown!Moves
  <2>6. CASE q.action \in {"cancel", "invalidate"}
    BY <1>7, <1>10, <1>11, <1>13, <2>6 DEF Shown!Drop, Shown!Moves
  <2>7. CASE q.action = "merge"
    <3>1. PICK u \in Tasks : u = q.target
      BY <1>8, <2>7
    <3>2. Shown!Merge(t, u)
      BY <1>8, <1>10, <1>11, <1>13, <2>7, <3>1 DEF Shown!Merge, Shown!Moves
    <3>. QED
      BY <3>2
  <2>8. CASE q.action \in {"reschedule", "rename", "reassign"}
    BY <1>7, <1>10, <1>11, <1>13, <2>8 DEF Shown!Correct
  <2>. QED
    BY <1>15, <2>1, <2>2, <2>3, <2>4, <2>5, <2>6, <2>7, <2>8
<1>. QED
  BY <1>1, <1>5, <1>16 DEF Shown!Act, ActedIn

(* A step that leaves the tables alone is invisible. *)
LEMMA StepShown ==
    ASSUME Inv, Inv', [Next]_vars
    PROVE  [Shown!Next]_(Shown!board)
<1>1. CASE UNCHANGED <<task, submission, log>>
  BY <1>1 DEF Shown!board
<1>2. CASE Tick \/ ChangeAdministrators \/ UNCHANGED vars
  BY <1>1, <1>2 DEF Tick, ChangeAdministrators, vars
<1>3. ASSUME NEW r \in Requests, Handle(r)
      PROVE  [Shown!Next]_(Shown!board)
  <2>1. CASE Apply(r)
    BY <2>1, ApplyShown DEF Shown!Next
  <2>2. CASE Send(r) \/ Begin(r) \/ Redeliver(r) \/ Replay(r) \/ Refuse(r)
    <3>1. UNCHANGED <<task, submission, log>>
      BY <2>2 DEF Send, Begin, Redeliver, Replay, Refuse
    <3>. QED
      BY <1>1, <3>1
  <2>. QED
    BY <1>3, <2>1, <2>2 DEF Handle
<1>. QED
  BY <1>2, <1>3, MaterializeShown, MarkOverdueShown DEF Next, Shown!Next

(* The tasks of a chat implement TaskBoard, for any number of tasks, members,
   requests, deliveries and detection runs: whatever members and administrators ask,
   by whichever channel, late, twice or on a task that looked different, each
   request does one thing that the board allows or nothing. *)
THEOREM LifecycleImplementsBoard == Spec => ImplementsBoard
<1>1. Init => Shown!Init
  <2>1. ASSUME Init
        PROVE  \A t \in Tasks : /\ LifeOf(task[t]) = "none" /\ task[t].into = None
                                /\ task[t].cycle = 0
    <3>1. NoTask.status = "absent" /\ NoTask.into = None /\ NoTask.cycle = 0
      BY DEF NoTask
    <3>2. LifeOf(NoTask) = "none"
      BY <3>1, NoTaskRow, LifeRange
    <3>. QED
      BY <2>1, <3>1, <3>2 DEF Init
  <2>2. Init => submission = [s \in Tasks \X Cycles |-> "none"] /\ log = << >>
    BY DEF Init
  <2>. QED
    BY <2>1, <2>2 DEF Shown!Init
<1>2. Inv /\ Inv' /\ [Next]_vars => [Shown!Next]_(Shown!board)
  BY StepShown
<1>. QED
  BY <1>1, <1>2, Invariance, PTL DEF Spec, ImplementsBoard, Shown!Spec
=============================================================================
