----------------------------- MODULE ChatAccess -----------------------------
(***************************************************************************)
(* Who may manage the tasks of which group: what Feishu says of a group,   *)
(* copied by directory refreshes (feishu/directory.py,                     *)
(* MessageRepository.apply_directory_snapshot), administrators             *)
(* (management/access.py, management/group_commands.py), login links and   *)
(* browser sessions (management/auth.py), confirmed names                  *)
(* (identity/aliases.py) and a group's policy (management/settings.py).    *)
(*                                                                         *)
(* The listener, the threads of the management server and the command line *)
(* run at the same time.  Only consume_login_token begins a write          *)
(* transaction before it reads; a directory snapshot starts writing at     *)
(* once.  Everything else reads without a transaction, decides, and writes *)
(* later: two steps, and what was read may be stale by then.               *)
(***************************************************************************)
EXTENDS Integers, Sequences, FiniteSets

CONSTANTS
    Chats,      \* enabled groups
    People,     \* open_ids
    Names,      \* normalized task names
    Links,      \* login tokens that can be issued
    Threads,    \* request threads: listener, page, command line
    Rosters,    \* what Feishu can say of a group: members and owner
    Foundings,  \* sets of administrators, <<chat, open_id>>, to start with
    Saves,      \* partial updates of the policy that a page can send
    Pages,      \* what pages ask for in the instance
    Budgets     \* bound: what a behaviour may use, one of these

(* A partial update: {} leaves a field alone, {v} sets it to v. *)
Partial(S) == {{}} \cup {{v} : v \in S}

Policy == [first : Nat, second : Nat, mode : {"all", "selected"},
           told : SUBSET People]

DefaultPolicy == [first |-> 72, second |-> 24, mode |-> "all", told |-> {}]

(* Feishu's changes; refreshes for messages and group commands; calls of the
   command line; login links; requests of pages; names bound by messages; clocks
   that run out. *)
Budget == [moves : Nat, refreshes : Nat, calls : Nat, links : Nat, pages : Nat,
           names : Nat, clocks : Nat]

Roster == {r \in [members : SUBSET People, owner : People] : r.owner \in r.members}

ASSUME RosterAssumption  == Rosters \subseteq Roster
ASSUME FounderAssumption ==
    /\ Foundings \subseteq SUBSET (Chats \X People)
    /\ \A f \in Foundings : IsFiniteSet(f)
ASSUME SaveAssumption    ==
    \A s \in Saves : /\ s.first \in Partial(2..720) /\ s.second \in Partial(1..719)
                     /\ s.mode \in Partial({"all", "selected"})
                     /\ s.told \in Partial(SUBSET People)
(* What a page asks for, and what a message can mean for the administrators. *)
PageKinds == {"grant", "revoke", "name", "save"}

Commands == {"none", "init", "takeover"}

ASSUME BoundAssumption   == Budgets \subseteq Budget
ASSUME PageAssumption    == Pages \subseteq PageKinds

VARIABLES
    feishu,      \* what Feishu says of each group
    members,     \* active rows of chat_memberships
    owner,       \* the rows with is_owner
    admins,      \* chat_administrators
    audit,       \* the newest chat_administrator_events row of each person
    missed,      \* history: whom a dismissal missed, or struck in another's place
    links,       \* management_login_tokens
    sessions,    \* management_sessions
    aliases,     \* chat_member_aliases
    policy,      \* chat_settings of each group
    saved,       \* groups that have a row of chat_settings
    pc,          \* what each thread is about to do, with what it read
    left         \* bound: what is left of the budget

directory == <<feishu, members, owner>>
settings == <<policy, saved>>
vars == <<directory, admins, audit, missed, links, sessions, aliases, settings, pc, left>>

-----------------------------------------------------------------------------
(* Rows and ids.  SQLite gives a new row the highest id plus one, so the id of
   a deleted row can come back. *)

Ids(rows) == {r.id : r \in rows}

Fresh(rows) == IF rows = {} THEN 1
               ELSE 1 + CHOOSE i \in Ids(rows) : \A j \in Ids(rows) : j <= i

Administers(p, c) == \E r \in admins : r.chat = c /\ r.who = p

AdministersAny(p) == \E c \in Chats : Administers(p, c)

Administrators(c) == {p \in People : Administers(p, c)}

(* What is stored of a row of each table. *)
AdministratorRow == [id : Nat, chat : Chats, who : People]
AuditEntry == {"none", "grant", "revoke", "departure"}
LinkRow == [state : {"unissued", "open", "consumed", "expired"}, who : SUBSET People]
SessionRow == [link : Links, who : People, state : {"live", "expired", "ended"}]
AliasRow == [id : Nat, chat : Chats, who : People, name : Names]

(* The CHECK of chat_memberships: an owner is active. *)
OwnersAreActive == \A c \in Chats : owner[c] \subseteq members[c]

Idle == [at |-> "idle"]

(* The places of a thread, with what it carries from its reads to its write:
   session 0 is no page, id 0 no row. *)
Place ==
    {Idle}
    \cup [at : {"apply"}, chat : Chats, roster : Rosters, who : People,
          then : Commands \cup PageKinds, session : Nat]
    \cup [at : {"again", "page"}, chat : Chats, who : People, then : PageKinds,
          session : Nat]
    \cup [at : {"own"}, chat : Chats, who : People, then : Commands]
    \cup [at : {"grant"}, chat : Chats, who : People]
    \cup [at : {"revoke"}, chat : Chats, who : People, id : Nat]
    \cup [at : {"ticket"}, who : People]
    \cup [at : {"name"}, chat : Chats, who : People, name : Names, id : Nat]
    \cup [at : {"save"}, chat : Chats, request : Saves, seen : Policy, wanted : Policy,
          exists : BOOLEAN]

NoId == 0
NoSession == 0

Use(what) == left[what] > 0 /\ left' = [left EXCEPT ![what] = @ - 1]

Goto(t, place) == pc' = [pc EXCEPT ![t] = place]

Init ==
    /\ feishu \in [Chats -> Rosters]
    /\ members = [c \in Chats |-> feishu[c].members]
    /\ owner = [c \in Chats |-> {feishu[c].owner}]
    /\ \E founders \in Foundings :
          /\ \A f \in founders : f[2] \in members[f[1]]
          /\ \E number \in [founders -> 1..Cardinality(founders)] :
                /\ \A f, g \in founders : number[f] = number[g] => f = g
                /\ admins = {[id |-> number[f], chat |-> f[1], who |-> f[2]] : f \in founders}
          /\ audit = [c \in Chats |-> [p \in People |->
                        IF <<c, p>> \in founders THEN "grant" ELSE "none"]]
    /\ missed = {}
    /\ links = [l \in Links |-> [state |-> "unissued", who |-> {}]]
    /\ sessions = <<>>
    /\ aliases = {}
    /\ policy = [c \in Chats |-> DefaultPolicy]
    /\ saved \in {{}, Chats}
    /\ pc = [t \in Threads |-> Idle]
    /\ left \in Budgets

-----------------------------------------------------------------------------
(* The directory. *)

(* Feishu: members join and leave, the owner changes. *)
Move(c) ==
    /\ Use("moves")
    /\ \E r \in Rosters \ {feishu[c]} : feishu' = [feishu EXCEPT ![c] = r]
    /\ UNCHANGED <<members, owner, admins, audit, missed, links, sessions, aliases, settings, pc>>

(* The provider answers with what Feishu says now; a fetch that fails changes
   nothing. *)
Fetched(t, c, p, then, i) ==
    Goto(t, [at |-> "apply", chat |-> c, roster |-> feishu[c], who |-> p,
             then |-> then, session |-> i])

(* A refresh for a message, whose sender may ask to become administrator. *)
Fetch(t, c, p, command) ==
    /\ pc[t] = Idle
    /\ Use("refreshes")
    /\ Fetched(t, c, p, command, NoSession)
    /\ UNCHANGED <<directory, admins, audit, missed, links, sessions, aliases, settings>>

SignedIn(i) == sessions[i].state = "live" /\ AdministersAny(sessions[i].who)

(* Every write of a page authenticates, refreshes the directory, and
   authenticates again. *)
Request(t, i, c, kind) ==
    /\ pc[t] = Idle
    /\ Use("pages")
    /\ SignedIn(i)
    /\ Fetched(t, c, sessions[i].who, kind, i)
    /\ UNCHANGED <<directory, admins, audit, missed, links, sessions, aliases, settings>>

Authenticate(t) ==
    /\ pc[t].at = "again"
    /\ IF SignedIn(pc[t].session) THEN Goto(t, [pc[t] EXCEPT !.at = "page"])
       ELSE Goto(t, Idle)
    /\ UNCHANGED <<directory, admins, audit, missed, links, sessions, aliases, settings, left>>

\* Mutant: the flag is set for the new owner and stays with the old one.
OwnersAdded(c, roster) == owner[c] \cup {roster.owner}

Owners(c, roster) == {roster.owner}

Departed(c, roster) == {r \in admins : r.chat = c /\ r.who \notin roster.members}

\* Mutant: a departure leaves no event.
DepartureSilent(c, gone) == audit

DepartureAudited(c, gone) ==
    [audit EXCEPT ![c] = [p \in People |-> IF \E r \in gone : r.who = p
                                            THEN "departure" ELSE @[p]]]

\* Mutant: who administers is asked before the rows are deleted.
EndedBeforeFlush(gone) ==
    [i \in 1..Len(sessions) |->
        IF /\ \E r \in gone : r.who = sessions[i].who
           /\ ~AdministersAny(sessions[i].who)
        THEN [sessions[i] EXCEPT !.state = "ended"] ELSE sessions[i]]

(* The sessions of those who now administer no group at all. *)
EndedWith(gone) ==
    [i \in 1..Len(sessions) |->
        IF /\ \E r \in gone : r.who = sessions[i].who
           /\ ~\E r \in admins \ gone : r.who = sessions[i].who
        THEN [sessions[i] EXCEPT !.state = "ended"] ELSE sessions[i]]

(* What follows a refresh: a page goes on, and so does the command of a sender
   whom the snapshot names as the owner. *)
After(t, c, roster) ==
    CASE pc[t].then \in PageKinds ->
            Goto(t, [at |-> "again", chat |-> c, who |-> pc[t].who,
                     then |-> pc[t].then, session |-> pc[t].session])
      [] pc[t].then \in {"init", "takeover"} /\ pc[t].who = roster.owner ->
            Goto(t, [at |-> "own", chat |-> c, who |-> pc[t].who, then |-> pc[t].then])
      [] OTHER -> Goto(t, Idle)

(* apply_directory_snapshot writes the member set it is given, however old it
   is by now: who is missing has left, and with the membership go the confirmed
   name, the administration of this group and, when it was the last, the
   sessions. *)
Apply(t) ==
    /\ pc[t].at = "apply"
    /\ LET c == pc[t].chat
           roster == pc[t].roster
           gone == Departed(c, roster)
       IN /\ members' = [members EXCEPT ![c] = roster.members]
          /\ owner' = [owner EXCEPT ![c] = Owners(c, roster)]
          /\ aliases' = {a \in aliases : a.chat # c \/ a.who \in roster.members}
          /\ admins' = admins \ gone
          /\ audit' = DepartureAudited(c, gone)
          /\ sessions' = EndedWith(gone)
          /\ After(t, c, roster)
    /\ UNCHANGED <<feishu, missed, links, settings, left>>

-----------------------------------------------------------------------------
(* Administrators. *)

(* Who calls: the command line, or a page of an administrator of the group. *)
ByCommandLine(t) == pc[t] = Idle /\ Use("calls")

ByPage(t, c, kind) ==
    /\ pc[t].at = "page" /\ pc[t].then = kind /\ pc[t].chat = c
    /\ Administers(pc[t].who, c)
    /\ UNCHANGED left

(* The owner that Feishu named, if the row says so too; initialization is for a
   group without administrators. *)
ByOwner(t, c, p) ==
    /\ pc[t].at = "own" /\ pc[t].chat = c /\ pc[t].who = p
    /\ p \in owner[c]
    /\ pc[t].then = "init" => Administrators(c) = {}
    /\ UNCHANGED left

(* What grant reads: the target is a member, and not yet an administrator. *)
ReadGrant(t, c, p) ==
    /\ p \in members[c] /\ ~Administers(p, c)
    /\ ByCommandLine(t) \/ ByPage(t, c, "grant") \/ ByOwner(t, c, p)
    /\ Goto(t, [at |-> "grant", chat |-> c, who |-> p])
    /\ UNCHANGED <<directory, admins, audit, missed, links, sessions, aliases, settings>>

(* The unique constraint refuses a second row of the same person. *)
WriteGrant(t) ==
    /\ pc[t].at = "grant"
    /\ LET c == pc[t].chat
           p == pc[t].who
       IN IF Administers(p, c) THEN UNCHANGED <<admins, audit>>
          ELSE /\ admins' = admins \cup {[id |-> Fresh(admins), chat |-> c, who |-> p]}
               /\ audit' = [audit EXCEPT ![c][p] = "grant"]
    /\ Goto(t, Idle)
    /\ UNCHANGED <<directory, missed, links, sessions, aliases, settings, left>>

(* What revoke reads: it refuses the last administrator. *)
ReadRevoke(t, c, p) ==
    /\ Cardinality(Administrators(c)) > 1
    /\ ByCommandLine(t) \/ ByPage(t, c, "revoke")
    /\ \E r \in admins :
          /\ r.chat = c /\ r.who = p
          /\ Goto(t, [at |-> "revoke", chat |-> c, who |-> p, id |-> r.id])
    /\ UNCHANGED <<directory, admins, audit, missed, links, sessions, aliases, settings>>

(* The row is deleted by its id.  If another request has deleted it meanwhile, that
   is only a warning, and if the id was given to a new row, that row goes: either
   way the dismissal missed the person it was about. *)
Struck(id) == {r \in admins : r.id = id}

MissedBy(struck, c, p) ==
    IF \E r \in struck : r.chat = c /\ r.who = p THEN {}
    ELSE {<<c, p>>} \cup {<<r.chat, r.who>> : r \in struck}

WriteRevoke(t) ==
    /\ pc[t].at = "revoke"
    /\ LET struck == Struck(pc[t].id)
       IN /\ admins' = admins \ struck
          /\ missed' = missed \cup MissedBy(struck, pc[t].chat, pc[t].who)
    /\ audit' = [audit EXCEPT ![pc[t].chat][pc[t].who] = "revoke"]
    /\ Goto(t, Idle)
    /\ UNCHANGED <<directory, links, sessions, aliases, settings, left>>

(* A request that is refused, or fails, ends without a write. *)
Refuse(t) ==
    /\ pc[t].at \in {"page", "own"}
    /\ Goto(t, Idle)
    /\ UNCHANGED <<directory, admins, audit, missed, links, sessions, aliases, settings, left>>

-----------------------------------------------------------------------------
(* Login links and sessions. *)

ReadTicket(t, p) ==
    /\ pc[t] = Idle
    /\ Use("links")
    /\ AdministersAny(p)
    /\ Goto(t, [at |-> "ticket", who |-> p])
    /\ UNCHANGED <<directory, admins, audit, missed, links, sessions, aliases, settings>>

WriteTicket(t) ==
    /\ pc[t].at = "ticket"
    /\ \E l \in Links :
          /\ links[l].state = "unissued"
          /\ links' = [links EXCEPT ![l] = [state |-> "open", who |-> {pc[t].who}]]
    /\ Goto(t, Idle)
    /\ UNCHANGED <<directory, admins, audit, missed, sessions, aliases, settings, left>>

\* Mutant: a link opens a session for as long as it has not expired.
UsableTwice(l) == links[l].state \in {"open", "consumed"}

Usable(l) == links[l].state = "open"

(* consume_login_token: one transaction that holds the write lock. *)
Consume(l) ==
    /\ Usable(l)
    /\ \E p \in links[l].who :
          /\ AdministersAny(p)
          /\ sessions' = Append(sessions, [link |-> l, who |-> p, state |-> "live"])
    /\ links' = [links EXCEPT ![l].state = "consumed"]
    /\ UNCHANGED <<directory, admins, audit, missed, aliases, settings, pc, left>>

Logout(i) ==
    /\ sessions[i].state # "ended"
    /\ Use("clocks")
    /\ sessions' = [sessions EXCEPT ![i].state = "ended"]
    /\ UNCHANGED <<directory, admins, audit, missed, links, aliases, settings, pc>>

(* The clock passes expires_at. *)
ExpireLink(l) ==
    /\ links[l].state = "open"
    /\ Use("clocks")
    /\ links' = [links EXCEPT ![l].state = "expired"]
    /\ UNCHANGED <<directory, admins, audit, missed, sessions, aliases, settings, pc>>

ExpireSession(i) ==
    /\ sessions[i].state = "live"
    /\ Use("clocks")
    /\ sessions' = [sessions EXCEPT ![i].state = "expired"]
    /\ UNCHANGED <<directory, admins, audit, missed, links, aliases, settings, pc>>

-----------------------------------------------------------------------------
(* Confirmed names. *)

(* A message binds its sender, or whoever has written in the group, a member or
   not; a page binds members. *)
NameByMessage(t) == pc[t] = Idle /\ Use("names")

NameByPage(t, c, p) == p \in members[c] /\ ByPage(t, c, "name")

(* What bind reads: nobody else has the name. *)
ReadName(t, c, p, n) ==
    /\ NameByMessage(t) \/ NameByPage(t, c, p)
    /\ \A a \in aliases : a.chat = c /\ a.name = n => a.who = p
    /\ Goto(t, [at |-> "name", chat |-> c, who |-> p, name |-> n,
                id |-> IF \E a \in aliases : a.chat = c /\ a.who = p
                       THEN (CHOOSE a \in aliases : a.chat = c /\ a.who = p).id
                       ELSE NoId])
    /\ UNCHANGED <<directory, admins, audit, missed, links, sessions, aliases, settings>>

(* The unique constraints of chat_member_aliases. *)
Distinct(rows) ==
    \A a, b \in rows : a.chat = b.chat /\ (a.name = b.name \/ a.who = b.who) => a = b

(* Inserts a row, or updates the row it read by id; what the constraints refuse,
   and an update of a row that is gone, is rolled back. *)
Named(t) ==
    IF pc[t].id = NoId
    THEN aliases \cup {[id |-> Fresh(aliases), chat |-> pc[t].chat, who |-> pc[t].who,
                        name |-> pc[t].name]}
    ELSE {IF a.id = pc[t].id THEN [a EXCEPT !.name = pc[t].name] ELSE a : a \in aliases}

WriteName(t) ==
    /\ pc[t].at = "name"
    /\ aliases' = IF Distinct(Named(t)) THEN Named(t) ELSE aliases
    /\ Goto(t, Idle)
    /\ UNCHANGED <<directory, admins, audit, missed, links, sessions, settings, left>>

-----------------------------------------------------------------------------
(* The policy. *)

Given(field, old) == IF field = {} THEN old ELSE CHOOSE v \in field : TRUE

(* Choosing everybody forgets the chosen recipients. *)
Wanted(s, seen) ==
    [first |-> Given(s.first, seen.first), second |-> Given(s.second, seen.second),
     mode |-> Given(s.mode, seen.mode),
     told |-> IF s.mode = {"all"} /\ s.told = {} THEN {} ELSE Given(s.told, seen.told)]

(* What update_for_administrator refuses, judged by what it has read. *)
Acceptable(c, p) ==
    /\ p.first > p.second
    /\ IF p.mode = "all" THEN p.told = {}
       ELSE p.told # {} /\ p.told \subseteq Administrators(c)

ReadSave(t, c, s) ==
    /\ ByPage(t, c, "save")
    /\ Acceptable(c, Wanted(s, policy[c]))
    /\ Goto(t, [at |-> "save", chat |-> c, request |-> s, seen |-> policy[c],
                wanted |-> Wanted(s, policy[c]), exists |-> c \in saved])
    /\ UNCHANGED <<directory, admins, audit, missed, links, sessions, aliases, settings>>

\* Mutant: the row is written as a whole.
WholeRow(old, seen, wanted) == wanted

(* Only the columns that differ from what was read are written. *)
ChangedColumns(old, seen, wanted) ==
    [first  |-> IF wanted.first  = seen.first  THEN old.first  ELSE wanted.first,
     second |-> IF wanted.second = seen.second THEN old.second ELSE wanted.second,
     mode   |-> IF wanted.mode   = seen.mode   THEN old.mode   ELSE wanted.mode,
     told   |-> IF wanted.told   = seen.told   THEN old.told   ELSE wanted.told]

(* Two saves of a group without a row both insert it: the second is refused. *)
WriteSave(t) ==
    /\ pc[t].at = "save"
    /\ LET c == pc[t].chat
       IN IF pc[t].exists \/ c \notin saved
          THEN /\ policy' = [policy EXCEPT ![c] =
                                ChangedColumns(@, pc[t].seen, pc[t].wanted)]
               /\ saved' = saved \cup {c}
          ELSE UNCHANGED settings
    /\ Goto(t, Idle)
    /\ UNCHANGED <<directory, admins, audit, missed, links, sessions, aliases, left>>

-----------------------------------------------------------------------------
Thread(t) ==
    \/ \E c \in Chats, p \in People, command \in Commands : Fetch(t, c, p, command)
    \/ \E i \in 1..Len(sessions), c \in Chats, kind \in Pages : Request(t, i, c, kind)
    \/ Authenticate(t) \/ Apply(t) \/ Refuse(t)
    \/ \E c \in Chats, p \in People : ReadGrant(t, c, p) \/ ReadRevoke(t, c, p)
    \/ WriteGrant(t) \/ WriteRevoke(t)
    \/ \E p \in People : ReadTicket(t, p)
    \/ WriteTicket(t)
    \/ \E c \in Chats, p \in People, n \in Names : ReadName(t, c, p, n)
    \/ WriteName(t)
    \/ \E c \in Chats, s \in Saves : ReadSave(t, c, s)
    \/ WriteSave(t)

Next ==
    \/ \E c \in Chats : Move(c)
    \/ \E t \in Threads : Thread(t)
    \/ \E l \in Links : Consume(l) \/ ExpireLink(l)
    \/ \E i \in 1..Len(sessions) : Logout(i) \/ ExpireSession(i)

Spec == Init /\ [][Next]_vars

-----------------------------------------------------------------------------
(* Properties. *)

(* Every value is one the program can store: in particular ids of rows are
   distinct, a group has one owner, who is a member, and nobody has two rows of
   administration or two names in a group. *)
TypeOK ==
    /\ feishu \in [Chats -> Rosters]
    /\ members \in [Chats -> SUBSET People] /\ owner \in [Chats -> SUBSET People]
    /\ OwnersAreActive /\ \A c \in Chats : Cardinality(owner[c]) = 1
    /\ admins \subseteq AdministratorRow
    /\ \A r, s \in admins : r.id = s.id \/ (r.chat = s.chat /\ r.who = s.who) => r = s
    /\ audit \in [Chats -> [People -> AuditEntry]]
    /\ missed \subseteq Chats \X People
    /\ links \in [Links -> LinkRow] /\ sessions \in Seq(SessionRow)
    /\ aliases \subseteq AliasRow
    /\ \A a, b \in aliases : a.id = b.id => a = b
    /\ Distinct(aliases)
    /\ policy \in [Chats -> Policy] /\ saved \subseteq Chats
    /\ pc \in [Threads -> Place]
    /\ left \in [{"moves", "refreshes", "calls", "links", "pages", "names", "clocks"} -> Nat]

(* A link that is opened twice, by a reload, a preview or somebody it was
   forwarded to, signs in once (management/auth.py:202). *)
OneUsePerLink ==
    \A i, j \in 1..Len(sessions) : sessions[i].link = sessions[j].link => i = j

(* Whether the audit can be wrong about somebody: a dismissal missed him, or struck
   him in another's place. *)
Missed(p, c) == <<c, p>> \in missed

(* The audit accounts for the administrators, whatever refreshes, appointments and
   dismissals were under way together: the newest row of each person says whether
   he is one (management/access.py:53), unless a dismissal by row id missed him or
   struck him for another.  Even then, nobody administers without an appointment,
   nor once a departure is on record. *)
AuditExplainsAdministrators ==
    \A c \in Chats, p \in People :
        /\ ~Missed(p, c) => (Administers(p, c) <=> audit[c][p] = "grant")
        /\ Administers(p, c) => audit[c][p] \in {"grant", "revoke"}

(* A session that still works, or would again, belongs to somebody who administers
   a group, was dismissed by name, or was struck in another's place, which his audit
   does not tell: who left the groups he administered is signed out for good,
   whatever was under way when a refresh noticed (database/repository.py:397). *)
LiveSessionIsExplained ==
    \A i \in 1..Len(sessions) :
        sessions[i].state = "live" =>
            LET p == sessions[i].who
            IN  \/ AdministersAny(p)
                \/ \E c \in Chats : \/ audit[c][p] = "revoke"
                                    \/ Missed(p, c) /\ audit[c][p] = "grant"

Named_(s) ==
    {f \in {"first", "second", "mode", "told"} : s[f] # {}}
    \cup IF s.mode = {"all"} THEN {"told"} ELSE {}

(* Two administrators who save different fields at once undo nothing of each other:
   a field changes only by a save that names it (management/settings.py:103). *)
SavesTouchOnlyTheirFields ==
    [][\A c \in Chats, f \in {"first", "second", "mode", "told"} :
          policy'[c][f] # policy[c][f] =>
              \E t \in Threads : /\ pc[t].at = "save" /\ pc[t].chat = c
                                 /\ pc'[t] = Idle /\ f \in Named_(pc[t].request)]_vars

(* "the last administrator cannot be removed" (management/access.py:159): a group
   that somebody was dismissed from, and nobody left, has an administrator. *)
DismissalsLeaveOne ==
    \A c \in Chats :
        /\ \E p \in People : audit[c][p] = "revoke"
        /\ \A p \in People : audit[c][p] # "departure"
        => Administrators(c) # {}
=============================================================================
