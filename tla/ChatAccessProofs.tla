-------------------------- MODULE ChatAccessProofs --------------------------
(***************************************************************************)
(* Proofs about ChatAccess, for every value of its constants.              *)
(*                                                                         *)
(* Each table has a part of the invariant of its own, and WhoMoves says by *)
(* which operations it changes.  Ids of rows are bounded, and so there is  *)
(* a highest one: a new row has an id that no row has.                     *)
(***************************************************************************)
EXTENDS ChatAccess, FiniteSetTheorems, WellFoundedInduction, TLAPS

(* The ids of a table are numbers and there is a highest. *)
Numbered(rows) == \E b \in Nat : \A r \in rows : r.id \in Nat /\ r.id <= b

-----------------------------------------------------------------------------
(* New ids. *)

LEMMA Highest ==
    ASSUME NEW I, I # {}, NEW b \in Nat, \A i \in I : i \in Nat /\ i <= b
    PROVE  \E i \in I : \A j \in I : j <= i
<1>. DEFINE B == {n \in Nat : \A i \in I : i <= n}
<1>1. PICK n \in B : \A m \in B : ~(<<m, n>> \in OpToRel(<, Nat))
  <2>1. B # {} /\ B \subseteq Nat
    OBVIOUS
  <2>. HIDE DEF B
  <2>. QED
    BY <2>1, WFMin, NatLessThanWellFounded
<1>2. n \in Nat /\ \A i \in I : i \in Nat /\ i <= n
  OBVIOUS
<1>3. ASSUME NEW m \in B
      PROVE  ~(m < n)
  <2>1. <<m, n>> \notin OpToRel(<, Nat) /\ m \in Nat
    BY <1>1
  <2>. QED
    BY <1>2, <2>1 DEF OpToRel
<1>4. n \in I
  <2>. SUFFICES ASSUME n \notin I PROVE FALSE
    OBVIOUS
  <2>1. n # 0 /\ \A i \in I : i <= n - 1
    BY <1>2
  <2>2. n - 1 \in B /\ n - 1 < n
    BY <1>2, <2>1
  <2>. QED
    BY <1>3, <2>2
<1>. QED
  BY <1>2, <1>4

LEMMA FreshId ==
    ASSUME NEW rows, Numbered(rows)
    PROVE  Fresh(rows) \in Nat /\ \A r \in rows : r.id < Fresh(rows)
<1>1. CASE rows = {}
  BY <1>1 DEF Fresh
<1>2. CASE rows # {}
  <2>. DEFINE I == Ids(rows)
  <2>1. PICK b \in Nat : \A r \in rows : r.id \in Nat /\ r.id <= b
    BY DEF Numbered
  <2>2. I # {} /\ \A i \in I : i \in Nat /\ i <= b
    BY <1>2, <2>1 DEF Ids
  <2>3. \A r \in rows : r.id \in I
    BY DEF Ids
  <2>4. Fresh(rows) = 1 + CHOOSE i \in I : \A j \in I : j <= i
    BY <1>2 DEF Fresh
  <2>. HIDE DEF I
  <2>5. \E i \in I : \A j \in I : j <= i
    BY <2>2, Highest
  <2>. QED
    BY <2>2, <2>3, <2>4, <2>5
<1>. QED
  BY <1>1, <1>2

LEMMA FewerNumbered ==
    ASSUME NEW rows, NEW fewer, Numbered(rows), fewer \subseteq rows
    PROVE  Numbered(fewer)
  BY DEF Numbered

(* A row with a new id. *)
LEMMA OneMore ==
    ASSUME NEW rows, Numbered(rows), NEW row, row.id = Fresh(rows)
    PROVE  Numbered(rows \cup {row})
<1>1. Fresh(rows) \in Nat /\ \A r \in rows : r.id < Fresh(rows) /\ r.id \in Nat
  BY FreshId DEF Numbered
<1>2. \A r \in rows \cup {row} : r.id \in Nat /\ r.id <= Fresh(rows)
  BY <1>1
<1>. QED
  BY <1>1, <1>2 DEF Numbered

-----------------------------------------------------------------------------
(* The invariant, table by table. *)

DirectoryFit ==
    /\ feishu \in [Chats -> Rosters]
    /\ members \in [Chats -> SUBSET People] /\ owner \in [Chats -> SUBSET People]
    /\ OwnersAreActive /\ \A c \in Chats : Cardinality(owner[c]) = 1

AdminsFit ==
    /\ admins \subseteq AdministratorRow /\ Numbered(admins)
    /\ \A r, s \in admins : r.id = s.id \/ (r.chat = s.chat /\ r.who = s.who) => r = s

AuditFit ==
    /\ audit \in [Chats -> [People -> AuditEntry]]
    /\ missed \subseteq Chats \X People

(* A session was opened by a link that is used up since. *)
LinksFit ==
    /\ links \in [Links -> LinkRow] /\ sessions \in Seq(SessionRow)
    /\ \A i \in 1..Len(sessions) : links[sessions[i].link].state = "consumed"
    /\ OneUsePerLink

AliasesFit ==
    /\ aliases \subseteq AliasRow /\ Numbered(aliases)
    /\ \A a, b \in aliases : a.id = b.id => a = b
    /\ Distinct(aliases)

PolicyFit == policy \in [Chats -> Policy] /\ saved \subseteq Chats

(* What a save is about to write is what its request makes of what it read. *)
PlacesFit ==
    /\ pc \in [Threads -> Place]
    /\ \A t \in Threads : pc[t].at = "save" =>
          pc[t].wanted = Wanted(pc[t].request, pc[t].seen)

Counted == {"moves", "refreshes", "calls", "links", "pages", "names", "clocks"}
LeftFits == left \in [Counted -> Nat]

Inv ==
    /\ DirectoryFit /\ AdminsFit /\ AuditFit /\ LinksFit /\ AliasesFit
    /\ PolicyFit /\ PlacesFit /\ LeftFits

LEMMA InvIsTyped ==
    ASSUME Inv
    PROVE  TypeOK
  BY DEF Inv, DirectoryFit, AdminsFit, AuditFit, LinksFit, AliasesFit, PolicyFit,
         PlacesFit, LeftFits, Counted, TypeOK

-----------------------------------------------------------------------------
(* Places. *)

(* A place of which only the name matters. *)
Aside == {Idle} \cup {p \in Place : p.at # "save"}

LEMMA ApplyPlace ==
    ASSUME NEW c \in Chats, NEW r \in Rosters, NEW p \in People,
           NEW then \in Commands \cup PageKinds, NEW i \in Nat
    PROVE  [at |-> "apply", chat |-> c, roster |-> r, who |-> p, then |-> then,
            session |-> i] \in Aside
  BY DEF Place, Aside

LEMMA PagePlace ==
    ASSUME NEW at \in {"again", "page"}, NEW c \in Chats, NEW p \in People,
           NEW then \in PageKinds, NEW i \in Nat
    PROVE  [at |-> at, chat |-> c, who |-> p, then |-> then, session |-> i] \in Aside
  BY DEF Place, Aside

LEMMA OwnPlace ==
    ASSUME NEW c \in Chats, NEW p \in People, NEW then \in Commands
    PROVE  [at |-> "own", chat |-> c, who |-> p, then |-> then] \in Aside
  BY DEF Place, Aside

LEMMA GrantPlace ==
    ASSUME NEW c \in Chats, NEW p \in People
    PROVE  [at |-> "grant", chat |-> c, who |-> p] \in Aside
  BY DEF Place, Aside

LEMMA RevokePlace ==
    ASSUME NEW c \in Chats, NEW p \in People, NEW i \in Nat
    PROVE  [at |-> "revoke", chat |-> c, who |-> p, id |-> i] \in Aside
  BY DEF Place, Aside

LEMMA TicketPlace ==
    ASSUME NEW p \in People
    PROVE  [at |-> "ticket", who |-> p] \in Aside
  BY DEF Place, Aside

LEMMA NamePlace ==
    ASSUME NEW c \in Chats, NEW p \in People, NEW n \in Names, NEW i \in Nat
    PROVE  [at |-> "name", chat |-> c, who |-> p, name |-> n, id |-> i] \in Aside
  BY DEF Place, Aside

LEMMA SavePlace ==
    ASSUME NEW c \in Chats, NEW s \in Saves, NEW seen \in Policy, NEW wanted \in Policy,
           NEW e \in BOOLEAN
    PROVE  [at |-> "save", chat |-> c, request |-> s, seen |-> seen, wanted |-> wanted,
            exists |-> e] \in Place
  BY DEF Place

LEMMA IdlePlace == Idle \in Aside /\ Idle.at = "idle"
  BY DEF Aside, Idle

LEMMA AsideIsPlace ==
    ASSUME NEW p \in Aside
    PROVE  p \in Place /\ p.at # "save"
  BY DEF Aside, Place, Idle

(* What a thread carries, by its place. *)
LEMMA Carried ==
    ASSUME NEW p \in Place
    PROVE  /\ p.at = "apply" => /\ p.chat \in Chats /\ p.roster \in Rosters
                                /\ p.who \in People /\ p.then \in Commands \cup PageKinds
                                /\ p.session \in Nat
           /\ p.at \in {"again", "page"} =>
                 /\ p.chat \in Chats /\ p.who \in People /\ p.then \in PageKinds
                 /\ p.session \in Nat
                 /\ p = [at |-> p.at, chat |-> p.chat, who |-> p.who, then |-> p.then,
                         session |-> p.session]
           /\ p.at \in {"own", "grant", "revoke", "name"} =>
                 p.chat \in Chats /\ p.who \in People
           /\ p.at = "own" => p.then \in Commands
           /\ p.at \in {"revoke", "name"} => p.id \in Nat
           /\ p.at = "ticket" => p.who \in People
           /\ p.at = "name" => p.name \in Names
           /\ p.at = "save" => /\ p.chat \in Chats /\ p.request \in Saves
                               /\ p.seen \in Policy /\ p.wanted \in Policy
  BY DEF Place, Idle

-----------------------------------------------------------------------------
(* Which operations change which table. *)

WhoMoves ==
    /\ \/ UNCHANGED directory
       \/ (\E c \in Chats : Move(c)) \/ \E t \in Threads : Apply(t)
    /\ \/ UNCHANGED <<admins, audit, missed>>
       \/ \E t \in Threads : Apply(t) \/ WriteGrant(t) \/ WriteRevoke(t)
    /\ \/ UNCHANGED <<links, sessions>>
       \/ \E t \in Threads : Apply(t) \/ WriteTicket(t)
       \/ \E l \in Links : Consume(l) \/ ExpireLink(l)
       \/ \E i \in 1..Len(sessions) : Logout(i) \/ ExpireSession(i)
    /\ UNCHANGED aliases \/ \E t \in Threads : Apply(t) \/ WriteName(t)
    /\ UNCHANGED settings \/ \E t \in Threads : WriteSave(t)
    /\ UNCHANGED pc \/ \E t \in Threads : Thread(t)
    /\ UNCHANGED left \/ \E what \in Counted : Use(what)

LEMMA ThreadMoves ==
    ASSUME NEW t \in Threads, Thread(t)
    PROVE  WhoMoves
<1>1. CASE \/ \E c \in Chats, p \in People, command \in Commands : Fetch(t, c, p, command)
           \/ \E i \in 1..Len(sessions), c \in Chats, kind \in Pages : Request(t, i, c, kind)
           \/ \E p \in People : ReadTicket(t, p)
  BY <1>1, Zenon DEF Thread, Fetch, Request, ReadTicket, WhoMoves, Counted
<1>2. CASE Authenticate(t) \/ Refuse(t)
  BY <1>2 DEF Authenticate, Refuse, WhoMoves
<1>3. CASE Apply(t)
  BY <1>3 DEF Apply, WhoMoves, settings
<1>4. CASE \E c \in Chats, p \in People : ReadGrant(t, c, p) \/ ReadRevoke(t, c, p)
  <2>1. /\ UNCHANGED <<directory, admins, audit, missed, links, sessions, aliases, settings>>
        /\ UNCHANGED left \/ Use("calls")
    BY <1>4 DEF ReadGrant, ReadRevoke, ByCommandLine, ByPage, ByOwner
  <2>. QED
    BY <2>1 DEF WhoMoves, Counted
<1>5. CASE WriteGrant(t) \/ WriteRevoke(t)
  BY <1>5 DEF WriteGrant, WriteRevoke, WhoMoves
<1>6. CASE WriteTicket(t)
  BY <1>6 DEF WriteTicket, WhoMoves
<1>7. CASE \E c \in Chats, p \in People, n \in Names : ReadName(t, c, p, n)
  <2>1. /\ UNCHANGED <<directory, admins, audit, missed, links, sessions, aliases, settings>>
        /\ UNCHANGED left \/ Use("names")
    BY <1>7 DEF ReadName, NameByMessage, NameByPage, ByPage
  <2>. QED
    BY <2>1 DEF WhoMoves, Counted
<1>8. CASE WriteName(t)
  BY <1>8 DEF WriteName, WhoMoves
<1>9. CASE \E c \in Chats, s \in Saves : ReadSave(t, c, s)
  BY <1>9 DEF ReadSave, ByPage, WhoMoves
<1>10. CASE WriteSave(t)
  BY <1>10 DEF WriteSave, WhoMoves
<1>. QED
  BY <1>1, <1>2, <1>3, <1>4, <1>5, <1>6, <1>7, <1>8, <1>9, <1>10 DEF Thread

LEMMA NextMoves ==
    ASSUME [Next]_vars
    PROVE  WhoMoves
<1>1. CASE UNCHANGED vars
  BY <1>1 DEF vars, WhoMoves
<1>2. CASE \E c \in Chats : Move(c)
  BY <1>2 DEF Move, WhoMoves, Counted
<1>3. CASE \E l \in Links : Consume(l) \/ ExpireLink(l)
  BY <1>3 DEF Consume, ExpireLink, WhoMoves, Counted
<1>4. CASE \E i \in 1..Len(sessions) : Logout(i) \/ ExpireSession(i)
  BY <1>4 DEF Logout, ExpireSession, WhoMoves, Counted
<1>. QED
  BY <1>1, <1>2, <1>3, <1>4, ThreadMoves DEF Next

-----------------------------------------------------------------------------
(* Each table keeps its part. *)

LEMMA RosterType ==
    ASSUME NEW r \in Rosters
    PROVE  r.members \subseteq People /\ r.owner \in People /\ r.owner \in r.members
  BY RosterAssumption DEF RosterAssumption, Roster

LEMMA DirectoryStep ==
    ASSUME Inv, WhoMoves
    PROVE  DirectoryFit'
<1>1. CASE UNCHANGED directory
  BY <1>1 DEF directory, Inv, DirectoryFit, OwnersAreActive
<1>2. ASSUME NEW c \in Chats, Move(c)
      PROVE  DirectoryFit'
  BY <1>2 DEF Move, Inv, DirectoryFit, OwnersAreActive
<1>3. ASSUME NEW t \in Threads, Apply(t)
      PROVE  DirectoryFit'
  <2>. DEFINE c == pc[t].chat
              roster == pc[t].roster
  <2>1. c \in Chats /\ roster \in Rosters
    BY <1>3, Carried DEF Apply, Inv, PlacesFit
  <2>2. /\ UNCHANGED feishu
        /\ members' = [members EXCEPT ![c] = roster.members]
        /\ owner' = [owner EXCEPT ![c] = {roster.owner}]
    BY <1>3 DEF Apply, Owners
  <2>. HIDE DEF c, roster
  <2>3. /\ roster.members \subseteq People /\ roster.owner \in People
        /\ roster.owner \in roster.members
    BY <2>1, RosterType
  <2>4. feishu' \in [Chats -> Rosters] /\ members' \in [Chats -> SUBSET People]
        /\ owner' \in [Chats -> SUBSET People]
    BY <2>1, <2>2, <2>3 DEF Inv, DirectoryFit
  <2>5. \A d \in Chats : /\ members'[d] = IF d = c THEN roster.members ELSE members[d]
                         /\ owner'[d] = IF d = c THEN {roster.owner} ELSE owner[d]
    BY <2>1, <2>2 DEF Inv, DirectoryFit
  <2>6. OwnersAreActive'
    BY <2>3, <2>5 DEF Inv, DirectoryFit, OwnersAreActive
  <2>7. Cardinality({roster.owner}) = 1
    BY FS_Singleton
  <2>8. \A d \in Chats : Cardinality(owner'[d]) = 1
    BY <2>5, <2>7 DEF Inv, DirectoryFit
  <2>. QED
    BY <2>4, <2>6, <2>8 DEF DirectoryFit
<1>. QED
  BY <1>1, <1>2, <1>3 DEF WhoMoves

LEMMA FewerAdmins ==
    ASSUME AdminsFit, admins' \subseteq admins
    PROVE  AdminsFit'
<1>1. Numbered(admins')
  BY FewerNumbered DEF AdminsFit
<1>. QED
  BY <1>1 DEF AdminsFit

LEMMA GrantedRow ==
    ASSUME Inv, NEW t \in Threads, WriteGrant(t),
           ~Administers(pc[t].who, pc[t].chat)
    PROVE  /\ pc[t].chat \in Chats /\ pc[t].who \in People
           /\ admins' = admins \cup {[id |-> Fresh(admins), chat |-> pc[t].chat,
                                      who |-> pc[t].who]}
           /\ audit' = [audit EXCEPT ![pc[t].chat][pc[t].who] = "grant"]
  BY Carried DEF WriteGrant, Inv, PlacesFit

LEMMA AdminsStep ==
    ASSUME Inv, WhoMoves
    PROVE  AdminsFit'
<1>1. CASE UNCHANGED <<admins, audit, missed>>
  BY <1>1, FewerAdmins DEF Inv
<1>2. ASSUME NEW t \in Threads, Apply(t) \/ WriteRevoke(t)
      PROVE  AdminsFit'
  <2>1. admins' \subseteq admins
    BY <1>2 DEF Apply, WriteRevoke, Departed, Struck
  <2>. QED
    BY <2>1, FewerAdmins DEF Inv
<1>3. ASSUME NEW t \in Threads, WriteGrant(t)
      PROVE  AdminsFit'
  <2>. DEFINE c == pc[t].chat
              p == pc[t].who
              row == [id |-> Fresh(admins), chat |-> c, who |-> p]
  <2>1. CASE Administers(p, c)
    <3>1. UNCHANGED admins
      BY <1>3, <2>1 DEF WriteGrant
    <3>. QED
      BY <3>1, FewerAdmins DEF Inv
  <2>2. CASE ~Administers(p, c)
    <3>1. c \in Chats /\ p \in People /\ admins' = admins \cup {row}
      BY <1>3, <2>2, GrantedRow
    <3>2. \A r \in admins : ~(r.chat = c /\ r.who = p)
      BY <2>2 DEF Administers
    <3>3. row.id = Fresh(admins) /\ row.chat = c /\ row.who = p
      OBVIOUS
    <3>4. Fresh(admins) \in Nat /\ \A r \in admins : r.id < Fresh(admins) /\ r.id \in Nat
      BY FreshId DEF Inv, AdminsFit, Numbered
    <3>5. row \in AdministratorRow
      BY <3>1, <3>4 DEF AdministratorRow
    <3>. HIDE DEF row, c, p
    <3>6. \A r \in admins : r.id # row.id /\ ~(r.chat = row.chat /\ r.who = row.who)
      BY <3>2, <3>3, <3>4
    <3>7. Numbered(admins \cup {row})
      BY <3>3, OneMore DEF Inv, AdminsFit
    <3>8. \A r, s \in admins \cup {row} :
              r.id = s.id \/ (r.chat = s.chat /\ r.who = s.who) => r = s
      BY <3>6 DEF Inv, AdminsFit
    <3>. QED
      BY <3>1, <3>5, <3>7, <3>8 DEF Inv, AdminsFit
  <2>. QED
    BY <2>1, <2>2
<1>. QED
  BY <1>1, <1>2, <1>3 DEF WhoMoves

LEMMA StruckPeople ==
    ASSUME Inv, NEW id, NEW c \in Chats, NEW p \in People
    PROVE  MissedBy(Struck(id), c, p) \subseteq Chats \X People
<1>1. \A r \in Struck(id) : <<r.chat, r.who>> \in Chats \X People
  BY DEF Struck, Inv, AdminsFit, AdministratorRow
<1>. QED
  BY <1>1 DEF MissedBy

LEMMA AuditStep ==
    ASSUME Inv, WhoMoves
    PROVE  AuditFit'
<1>1. CASE UNCHANGED <<admins, audit, missed>>
  BY <1>1 DEF Inv, AuditFit
<1>2. ASSUME NEW t \in Threads, Apply(t)
      PROVE  AuditFit'
  <2>1. pc[t].chat \in Chats
    BY <1>2, Carried DEF Apply, Inv, PlacesFit
  <2>2. /\ audit' = DepartureAudited(pc[t].chat, Departed(pc[t].chat, pc[t].roster))
        /\ UNCHANGED missed
    BY <1>2 DEF Apply
  <2>. QED
    BY <2>1, <2>2 DEF DepartureAudited, Inv, AuditFit, AuditEntry
<1>3. ASSUME NEW t \in Threads, WriteGrant(t) \/ WriteRevoke(t)
      PROVE  AuditFit'
  <2>1. pc[t].chat \in Chats /\ pc[t].who \in People
    BY <1>3, Carried DEF WriteGrant, WriteRevoke, Inv, PlacesFit
  <2>2. \E e \in AuditEntry : \/ UNCHANGED audit
                              \/ audit' = [audit EXCEPT ![pc[t].chat][pc[t].who] = e]
    BY <1>3 DEF WriteGrant, WriteRevoke, AuditEntry
  <2>3. missed' \subseteq Chats \X People
    <3>1. CASE WriteGrant(t)
      BY <3>1 DEF WriteGrant, Inv, AuditFit
    <3>2. CASE WriteRevoke(t)
      BY <3>2, <2>1, StruckPeople DEF WriteRevoke, Inv, AuditFit
    <3>. QED
      BY <1>3, <3>1, <3>2
  <2>4. audit' \in [Chats -> [People -> AuditEntry]]
    BY <2>1, <2>2 DEF Inv, AuditFit
  <2>. QED
    BY <2>3, <2>4 DEF AuditFit
<1>. QED
  BY <1>1, <1>2, <1>3 DEF WhoMoves

(* Sessions keep their links, and links that are used up stay so. *)
LEMMA LinksKept ==
    ASSUME LinksFit, links' \in [Links -> LinkRow], sessions' \in Seq(SessionRow),
           Len(sessions') = Len(sessions),
           \A i \in 1..Len(sessions) : sessions'[i].link = sessions[i].link,
           \A l \in Links : links[l].state = "consumed" => links'[l].state = "consumed"
    PROVE  LinksFit'
<1>1. \A i \in 1..Len(sessions) : sessions[i] \in SessionRow
  BY DEF LinksFit
<1>2. \A i \in 1..Len(sessions) : sessions[i].link \in Links
  BY <1>1 DEF SessionRow
<1>. QED
  BY <1>2 DEF LinksFit, OneUsePerLink

(* One session ends, or several. *)
LEMMA SessionEnds ==
    ASSUME NEW s \in SessionRow, NEW state \in {"live", "expired", "ended"}
    PROVE  LET e == [s EXCEPT !.state = state]
           IN  e \in SessionRow /\ e.link = s.link /\ e.who = s.who /\ e.state = state
  BY DEF SessionRow

LEMMA IsSeq ==
    ASSUME NEW n \in Nat, NEW S, NEW e \in [1..n -> S]
    PROVE  e \in Seq(S) /\ Len(e) = n
  OBVIOUS

LEMMA EndedWithType ==
    ASSUME LinksFit, NEW gone
    PROVE  LET e == EndedWith(gone)
           IN  /\ e \in Seq(SessionRow) /\ Len(e) = Len(sessions)
               /\ \A i \in 1..Len(sessions) : e[i].link = sessions[i].link
<1>. DEFINE e == EndedWith(gone)
            n == Len(sessions)
<1>1. n \in Nat /\ \A i \in 1..n : sessions[i] \in SessionRow
  BY DEF LinksFit
<1>2. /\ DOMAIN e = 1..n /\ e = [i \in 1..n |-> e[i]]
      /\ \A i \in 1..n : e[i] \in {sessions[i], [sessions[i] EXCEPT !.state = "ended"]}
  BY DEF EndedWith
<1>. HIDE DEF e
<1>3. ASSUME NEW i \in 1..n
      PROVE  e[i] \in SessionRow /\ e[i].link = sessions[i].link
  <2>. DEFINE s == [sessions[i] EXCEPT !.state = "ended"]
  <2>1. sessions[i] \in SessionRow
    BY <1>1
  <2>2. s \in SessionRow /\ s.link = sessions[i].link
    BY <2>1, SessionEnds
  <2>3. e[i] = sessions[i] \/ e[i] = s
    BY <1>2
  <2>. HIDE DEF s
  <2>. QED
    BY <2>1, <2>2, <2>3
<1>. HIDE DEF n
<1>4. e \in Seq(SessionRow) /\ Len(e) = n
  <2>1. e \in [1..n -> SessionRow]
    BY <1>2, <1>3
  <2>. QED
    BY <1>1, <2>1, IsSeq
<1>. QED
  BY <1>3, <1>4 DEF e, n

LEMMA SessionSet ==
    ASSUME LinksFit, NEW i \in 1..Len(sessions), NEW state \in {"live", "expired", "ended"},
           sessions' = [sessions EXCEPT ![i].state = state], UNCHANGED links
    PROVE  LinksFit'
<1>1. sessions[i] \in SessionRow
  BY DEF LinksFit
<1>. DEFINE s == [sessions[i] EXCEPT !.state = state]
<1>2. s \in SessionRow /\ s.link = sessions[i].link
  BY <1>1, SessionEnds
<1>3. sessions' = [sessions EXCEPT ![i] = s]
  OBVIOUS
<1>. HIDE DEF s
<1>4. /\ sessions' \in Seq(SessionRow) /\ Len(sessions') = Len(sessions)
      /\ \A j \in 1..Len(sessions) : sessions'[j].link = sessions[j].link
  BY <1>2, <1>3 DEF LinksFit
<1>. QED
  BY <1>4, LinksKept DEF LinksFit

(* A link that is not used up changes its state. *)
LEMMA LinkSet ==
    ASSUME LinksFit, NEW l \in Links, links[l].state # "consumed", NEW row \in LinkRow,
           links' = [links EXCEPT ![l] = row], UNCHANGED sessions
    PROVE  LinksFit'
<1>1. /\ links' \in [Links -> LinkRow]
      /\ \A k \in Links : links[k].state = "consumed" => links'[k].state = "consumed"
  BY DEF LinksFit
<1>. QED
  BY <1>1, LinksKept DEF LinksFit

LEMMA ConsumeStep ==
    ASSUME LinksFit, NEW l \in Links, Consume(l)
    PROVE  LinksFit'
<1>1. links \in [Links -> LinkRow] /\ links[l] \in LinkRow /\ links[l].state = "open"
  BY DEF Consume, Usable, LinksFit
<1>. DEFINE row == [links[l] EXCEPT !.state = "consumed"]
<1>2. row \in LinkRow /\ row.state = "consumed"
  BY <1>1 DEF LinkRow
<1>3. links' = [links EXCEPT ![l] = row]
  BY DEF Consume
<1>4. PICK p \in links[l].who :
          sessions' = Append(sessions, [link |-> l, who |-> p, state |-> "live"])
  BY DEF Consume
<1>. DEFINE s == [link |-> l, who |-> p, state |-> "live"]
<1>5. s \in SessionRow /\ s.link = l
  BY <1>1, <1>4 DEF SessionRow, LinkRow
<1>6. sessions' = Append(sessions, s)
  BY <1>4
<1>. HIDE DEF row, s
<1>7. links' \in [Links -> LinkRow]
      /\ \A k \in Links : links'[k] = IF k = l THEN row ELSE links[k]
  BY <1>1, <1>2, <1>3
<1>8. \A i \in 1..Len(sessions) : /\ sessions[i] \in SessionRow
                                  /\ links[sessions[i].link].state = "consumed"
  BY DEF LinksFit
<1>9. \A i \in 1..Len(sessions) : sessions[i].link \in Links /\ sessions[i].link # l
  BY <1>1, <1>8 DEF SessionRow
<1>10. /\ sessions' \in Seq(SessionRow) /\ Len(sessions') = Len(sessions) + 1
       /\ Len(sessions) \in Nat
       /\ \A i \in 1..Len(sessions) : sessions'[i] = sessions[i]
       /\ sessions'[Len(sessions) + 1] = s
  BY <1>5, <1>6 DEF LinksFit
<1>11. \A i \in 1..Len(sessions') : links'[sessions'[i].link].state = "consumed"
  BY <1>2, <1>5, <1>7, <1>8, <1>9, <1>10
<1>12. OneUsePerLink'
  <2>. SUFFICES ASSUME NEW i \in 1..Len(sessions'), NEW j \in 1..Len(sessions'),
                       sessions'[i].link = sessions'[j].link
                PROVE  i = j
    BY DEF OneUsePerLink
  <2>1. CASE i \in 1..Len(sessions) /\ j \in 1..Len(sessions)
    BY <1>10, <2>1 DEF LinksFit, OneUsePerLink
  <2>2. CASE i = Len(sessions) + 1 \/ j = Len(sessions) + 1
    BY <1>5, <1>9, <1>10, <2>2
  <2>. QED
    BY <1>10, <2>1, <2>2
<1>. QED
  BY <1>7, <1>10, <1>11, <1>12 DEF LinksFit

LEMMA LinksStep ==
    ASSUME Inv, WhoMoves
    PROVE  LinksFit'
<1>1. CASE UNCHANGED <<links, sessions>>
  BY <1>1 DEF Inv, LinksFit, OneUsePerLink
<1>2. ASSUME NEW t \in Threads, Apply(t)
      PROVE  LinksFit'
  <2>1. UNCHANGED links /\ \E gone : sessions' = EndedWith(gone)
    BY <1>2 DEF Apply
  <2>2. PICK gone : sessions' = EndedWith(gone)
    BY <2>1
  <2>. QED
    BY <2>1, <2>2, EndedWithType, LinksKept DEF Inv, LinksFit
<1>3. ASSUME NEW t \in Threads, WriteTicket(t)
      PROVE  LinksFit'
  <2>1. PICK l \in Links : /\ links[l].state = "unissued"
                           /\ links' = [links EXCEPT ![l] = [state |-> "open", who |-> {pc[t].who}]]
    BY <1>3 DEF WriteTicket
  <2>2. pc[t].who \in People
    BY <1>3, Carried DEF WriteTicket, Inv, PlacesFit
  <2>3. [state |-> "open", who |-> {pc[t].who}] \in LinkRow
    BY <2>2 DEF LinkRow
  <2>4. UNCHANGED sessions
    BY <1>3 DEF WriteTicket
  <2>. QED
    BY <2>1, <2>3, <2>4, LinkSet DEF Inv
<1>4. ASSUME NEW l \in Links, ExpireLink(l)
      PROVE  LinksFit'
  <2>. DEFINE row == [links[l] EXCEPT !.state = "expired"]
  <2>1. links[l] \in LinkRow
    BY DEF Inv, LinksFit
  <2>2. row \in LinkRow
    BY <2>1 DEF LinkRow
  <2>3. links' = [links EXCEPT ![l] = row] /\ links[l].state # "consumed" /\ UNCHANGED sessions
    BY <1>4 DEF ExpireLink
  <2>. HIDE DEF row
  <2>. QED
    BY <2>2, <2>3, LinkSet DEF Inv
<1>5. ASSUME NEW i \in 1..Len(sessions), Logout(i) \/ ExpireSession(i)
      PROVE  LinksFit'
  BY <1>5, SessionSet DEF Logout, ExpireSession, Inv
<1>. QED
  BY <1>1, <1>2, <1>3, <1>4, <1>5, ConsumeStep DEF WhoMoves, Inv

LEMMA FewerAliases ==
    ASSUME AliasesFit, aliases' \subseteq aliases
    PROVE  AliasesFit'
<1>1. Numbered(aliases')
  BY FewerNumbered DEF AliasesFit
<1>. QED
  BY <1>1 DEF AliasesFit, Distinct

(* What bind writes, if the constraints let it. *)
LEMMA NamedRows ==
    ASSUME Inv, NEW t \in Threads, pc[t].at = "name"
    PROVE  /\ Named(t) \subseteq AliasRow /\ Numbered(Named(t))
           /\ \A a, b \in Named(t) : a.id = b.id => a = b
<1>1. pc[t].chat \in Chats /\ pc[t].who \in People /\ pc[t].name \in Names
  BY Carried DEF Inv, PlacesFit
<1>2. CASE pc[t].id = NoId
  <2>. DEFINE row == [id |-> Fresh(aliases), chat |-> pc[t].chat, who |-> pc[t].who,
                      name |-> pc[t].name]
  <2>1. Fresh(aliases) \in Nat /\ \A a \in aliases : a.id < Fresh(aliases) /\ a.id \in Nat
    BY FreshId DEF Inv, AliasesFit, Numbered
  <2>2. row \in AliasRow /\ row.id = Fresh(aliases)
    BY <1>1, <2>1 DEF AliasRow
  <2>3. Named(t) = aliases \cup {row}
    BY <1>2 DEF Named
  <2>. HIDE DEF row
  <2>4. Numbered(aliases \cup {row})
    BY <2>2, OneMore DEF Inv, AliasesFit
  <2>5. \A a \in aliases : a.id # row.id
    BY <2>1, <2>2
  <2>. QED
    BY <2>2, <2>3, <2>4, <2>5 DEF Inv, AliasesFit
<1>3. CASE pc[t].id # NoId
  <2>. DEFINE R(a) == IF a.id = pc[t].id THEN [a EXCEPT !.name = pc[t].name] ELSE a
  <2>1. Named(t) = {R(a) : a \in aliases}
    BY <1>3 DEF Named
  <2>2. ASSUME NEW a \in aliases
        PROVE  R(a) \in AliasRow /\ R(a).id = a.id
    BY <1>1 DEF AliasRow, Inv, AliasesFit
  <2>3. PICK b \in Nat : \A a \in aliases : a.id \in Nat /\ a.id <= b
    BY DEF Inv, AliasesFit, Numbered
  <2>. HIDE DEF R
  <2>4. \A a \in Named(t) : a.id \in Nat /\ a.id <= b
    BY <2>1, <2>2, <2>3
  <2>5. \A x, y \in Named(t) : x.id = y.id => x = y
    BY <2>1, <2>2 DEF Inv, AliasesFit
  <2>. QED
    BY <2>1, <2>2, <2>4, <2>5 DEF Numbered
<1>. QED
  BY <1>2, <1>3

LEMMA AliasesStep ==
    ASSUME Inv, WhoMoves
    PROVE  AliasesFit'
<1>1. CASE UNCHANGED aliases
  BY <1>1, FewerAliases DEF Inv
<1>2. ASSUME NEW t \in Threads, Apply(t)
      PROVE  AliasesFit'
  <2>1. aliases' \subseteq aliases
    BY <1>2 DEF Apply
  <2>. QED
    BY <2>1, FewerAliases DEF Inv
<1>3. ASSUME NEW t \in Threads, WriteName(t)
      PROVE  AliasesFit'
  <2>1. CASE Distinct(Named(t))
    <3>1. aliases' = Named(t) /\ pc[t].at = "name"
      BY <1>3, <2>1 DEF WriteName
    <3>. QED
      BY <2>1, <3>1, NamedRows DEF AliasesFit
  <2>2. CASE ~Distinct(Named(t))
    <3>1. UNCHANGED aliases
      BY <1>3, <2>2 DEF WriteName
    <3>. QED
      BY <3>1, FewerAliases DEF Inv
  <2>. QED
    BY <2>1, <2>2
<1>. QED
  BY <1>1, <1>2, <1>3 DEF WhoMoves

LEMMA GivenType ==
    ASSUME NEW S, NEW field \in Partial(S), NEW old
    PROVE  Given(field, old) \in S \cup {old}
<1>1. field = {} \/ \E v \in S : field = {v}
  BY DEF Partial
<1>2. CASE field = {}
  BY <1>2 DEF Given
<1>3. ASSUME NEW v \in S, field = {v}
      PROVE  Given(field, old) = v
  BY <1>3 DEF Given
<1>. QED
  BY <1>1, <1>2, <1>3

LEMMA WantedType ==
    ASSUME NEW s \in Saves, NEW seen \in Policy
    PROVE  Wanted(s, seen) \in Policy
<1>. DEFINE M == {"all", "selected"}
            T == SUBSET People
<1>1. /\ s.first \in Partial(2..720) /\ s.second \in Partial(1..719)
      /\ s.mode \in Partial(M) /\ s.told \in Partial(T)
  BY SaveAssumption DEF SaveAssumption
<1>2. seen.first \in Nat /\ seen.second \in Nat /\ seen.mode \in M /\ seen.told \in T
  BY DEF Policy
<1>. HIDE DEF M, T
<1>3. Given(s.first, seen.first) \in 2..720 \cup {seen.first}
  BY <1>1, GivenType
<1>4. Given(s.second, seen.second) \in 1..719 \cup {seen.second}
  BY <1>1, GivenType
<1>5. Given(s.mode, seen.mode) \in M
  BY <1>1, <1>2, GivenType
<1>6. Given(s.told, seen.told) \in T
  BY <1>1, <1>2, GivenType
<1>7. Given(s.first, seen.first) \in Nat /\ Given(s.second, seen.second) \in Nat
  BY <1>2, <1>3, <1>4
<1>. QED
  BY <1>5, <1>6, <1>7 DEF Wanted, Policy, M, T

LEMMA ColumnsType ==
    ASSUME NEW old \in Policy, NEW seen \in Policy, NEW wanted \in Policy
    PROVE  ChangedColumns(old, seen, wanted) \in Policy
  BY DEF ChangedColumns, Policy

LEMMA PolicyStep ==
    ASSUME Inv, WhoMoves
    PROVE  PolicyFit'
<1>1. CASE UNCHANGED settings
  BY <1>1 DEF Inv, PolicyFit, settings
<1>2. ASSUME NEW t \in Threads, WriteSave(t)
      PROVE  PolicyFit'
  <2>1. pc[t].chat \in Chats /\ pc[t].seen \in Policy /\ pc[t].wanted \in Policy
    BY <1>2, Carried DEF WriteSave, Inv, PlacesFit
  <2>2. ChangedColumns(policy[pc[t].chat], pc[t].seen, pc[t].wanted) \in Policy
    BY <2>1, ColumnsType DEF Inv, PolicyFit
  <2>. QED
    BY <1>2, <2>1, <2>2 DEF WriteSave, settings, Inv, PolicyFit
<1>. QED
  BY <1>1, <1>2 DEF WhoMoves

LEMMA LeftStep ==
    ASSUME Inv, WhoMoves
    PROVE  LeftFits'
<1>1. CASE UNCHANGED left
  BY <1>1 DEF Inv, LeftFits
<1>2. ASSUME NEW what \in Counted, Use(what)
      PROVE  LeftFits'
  <2>1. left[what] - 1 \in Nat
    BY <1>2 DEF Use, Inv, LeftFits
  <2>. QED
    BY <1>2, <2>1 DEF Use, Inv, LeftFits
<1>. QED
  BY <1>1, <1>2 DEF WhoMoves

LEMMA WentAside ==
    ASSUME PlacesFit, NEW t \in Threads, NEW p \in Aside, Goto(t, p)
    PROVE  PlacesFit'
<1>1. p \in Place /\ p.at # "save"
  BY AsideIsPlace
<1>2. /\ pc' \in [Threads -> Place]
      /\ \A u \in Threads : pc'[u] = IF u = t THEN p ELSE pc[u]
  BY <1>1 DEF Goto, PlacesFit
<1>. QED
  BY <1>1, <1>2 DEF PlacesFit

LEMMA SaveGoes ==
    ASSUME Inv, NEW t \in Threads, NEW c \in Chats, NEW s \in Saves, ReadSave(t, c, s)
    PROVE  PlacesFit'
<1>. DEFINE e == c \in saved
            w == Wanted(s, policy[c])
            p == [at |-> "save", chat |-> c, request |-> s, seen |-> policy[c],
                  wanted |-> w, exists |-> e]
<1>1. policy[c] \in Policy /\ e \in BOOLEAN
  BY DEF Inv, PolicyFit
<1>2. w \in Policy
  BY <1>1, WantedType
<1>3. Goto(t, p)
  BY DEF ReadSave
<1>. HIDE DEF e
<1>4. p.wanted = Wanted(p.request, p.seen)
  OBVIOUS
<1>. HIDE DEF w
<1>5. p \in Place
  BY <1>1, <1>2, SavePlace
<1>. HIDE DEF p
<1>6. /\ pc' \in [Threads -> Place]
      /\ \A u \in Threads : pc'[u] = IF u = t THEN p ELSE pc[u]
  BY <1>3, <1>5 DEF Goto, Inv, PlacesFit
<1>. QED
  BY <1>4, <1>6 DEF Inv, PlacesFit

LEMMA AfterGoes ==
    ASSUME Inv, NEW t \in Threads, pc[t].at = "apply",
           After(t, pc[t].chat, pc[t].roster)
    PROVE  \E p \in Aside : /\ Goto(t, p)
                            /\ p.at \in {"idle", "again", "own"}
<1>1. /\ pc[t].chat \in Chats /\ pc[t].roster \in Rosters /\ pc[t].who \in People
      /\ pc[t].then \in Commands \cup PageKinds /\ pc[t].session \in Nat
  BY Carried DEF Inv, PlacesFit
<1>. DEFINE again == [at |-> "again", chat |-> pc[t].chat, who |-> pc[t].who,
                      then |-> pc[t].then, session |-> pc[t].session]
            own == [at |-> "own", chat |-> pc[t].chat, who |-> pc[t].who,
                    then |-> pc[t].then]
<1>2. pc[t].then \in PageKinds => again \in Aside
  BY <1>1, PagePlace
<1>3. pc[t].then \in {"init", "takeover"} => own \in Aside
  BY <1>1, OwnPlace DEF Commands
<1>4. \/ pc[t].then \in PageKinds /\ Goto(t, again)
      \/ pc[t].then \in {"init", "takeover"} /\ Goto(t, own)
      \/ Goto(t, Idle)
  BY DEF After
<1>5. again.at = "again" /\ own.at = "own"
  OBVIOUS
<1>. HIDE DEF again, own
<1>. QED
  BY <1>2, <1>3, <1>4, <1>5, IdlePlace

(* A thread goes to a place that it may be at; only a save carries more than the
   types say. *)
LEMMA ThreadGoes ==
    ASSUME Inv, NEW t \in Threads, Thread(t)
    PROVE  \/ \E p \in Aside : Goto(t, p) /\ p.at \notin {"grant", "revoke"}
           \/ \E c \in Chats, p \in People : ReadGrant(t, c, p) \/ ReadRevoke(t, c, p)
           \/ \E c \in Chats, s \in Saves : ReadSave(t, c, s)
<1>1. ASSUME NEW c \in Chats, NEW p \in People, NEW command \in Commands,
             Fetch(t, c, p, command)
      PROVE  \E q \in Aside : Goto(t, q) /\ q.at \notin {"grant", "revoke"}
  <2>1. feishu[c] \in Rosters
    BY DEF Inv, DirectoryFit
  <2>2. [at |-> "apply", chat |-> c, roster |-> feishu[c], who |-> p, then |-> command,
         session |-> NoSession] \in Aside
    BY <2>1, ApplyPlace DEF NoSession
  <2>. QED
    BY <1>1, <2>2 DEF Fetch, Fetched
<1>2. ASSUME NEW i \in 1..Len(sessions), NEW c \in Chats, NEW kind \in Pages,
             Request(t, i, c, kind)
      PROVE  \E q \in Aside : Goto(t, q) /\ q.at \notin {"grant", "revoke"}
  <2>1. feishu[c] \in Rosters /\ sessions[i] \in SessionRow /\ i \in Nat
    BY DEF Inv, DirectoryFit, LinksFit
  <2>2. sessions[i].who \in People /\ kind \in Commands \cup PageKinds
    BY <2>1, PageAssumption DEF SessionRow, PageAssumption
  <2>3. [at |-> "apply", chat |-> c, roster |-> feishu[c], who |-> sessions[i].who,
         then |-> kind, session |-> i] \in Aside
    BY <2>1, <2>2, ApplyPlace
  <2>. QED
    BY <1>2, <2>3 DEF Request, Fetched
<1>3. CASE Authenticate(t)
  <2>1. /\ pc[t].at = "again" /\ pc[t].chat \in Chats /\ pc[t].who \in People
        /\ pc[t].then \in PageKinds /\ pc[t].session \in Nat
        /\ pc[t] = [at |-> pc[t].at, chat |-> pc[t].chat, who |-> pc[t].who,
                    then |-> pc[t].then, session |-> pc[t].session]
    BY <1>3, Carried DEF Authenticate, Inv, PlacesFit
  <2>2. [pc[t] EXCEPT !.at = "page"] =
            [at |-> "page", chat |-> pc[t].chat, who |-> pc[t].who,
             then |-> pc[t].then, session |-> pc[t].session]
    BY <2>1
  <2>. DEFINE q == [pc[t] EXCEPT !.at = "page"]
  <2>3. q \in Aside /\ q.at = "page"
    BY <2>1, <2>2, PagePlace
  <2>4. Goto(t, q) \/ Goto(t, Idle)
    BY <1>3 DEF Authenticate
  <2>. HIDE DEF q
  <2>. QED
    BY <2>3, <2>4, IdlePlace
<1>4. CASE Apply(t)
  BY <1>4, AfterGoes DEF Apply
<1>5. CASE Refuse(t) \/ WriteGrant(t) \/ WriteRevoke(t) \/ WriteTicket(t) \/ WriteName(t)
           \/ WriteSave(t)
  BY <1>5, IdlePlace
     DEF Refuse, WriteGrant, WriteRevoke, WriteTicket, WriteName, WriteSave
<1>6. ASSUME NEW p \in People, ReadTicket(t, p)
      PROVE  \E q \in Aside : Goto(t, q) /\ q.at \notin {"grant", "revoke"}
  BY <1>6, TicketPlace DEF ReadTicket
<1>7. ASSUME NEW c \in Chats, NEW p \in People, NEW n \in Names, ReadName(t, c, p, n)
      PROVE  \E q \in Aside : Goto(t, q) /\ q.at \notin {"grant", "revoke"}
  <2>. DEFINE i == IF \E a \in aliases : a.chat = c /\ a.who = p
                   THEN (CHOOSE a \in aliases : a.chat = c /\ a.who = p).id
                   ELSE NoId
  <2>1. Goto(t, [at |-> "name", chat |-> c, who |-> p, name |-> n, id |-> i])
    BY <1>7 DEF ReadName
  <2>2. i \in Nat
    <3>1. \A a \in aliases : a.id \in Nat
      BY DEF Inv, AliasesFit, AliasRow
    <3>. QED
      BY <3>1 DEF NoId
  <2>. HIDE DEF i
  <2>. QED
    BY <2>1, <2>2, NamePlace
<1>. QED
  BY <1>1, <1>2, <1>3, <1>4, <1>5, <1>6, <1>7 DEF Thread

LEMMA DecisionGoes ==
    ASSUME Inv, NEW t \in Threads, NEW c \in Chats, NEW p \in People,
           ReadGrant(t, c, p) \/ ReadRevoke(t, c, p)
    PROVE  \E q \in Aside : Goto(t, q)
<1>1. CASE ReadGrant(t, c, p)
  BY <1>1, GrantPlace DEF ReadGrant
<1>2. CASE ReadRevoke(t, c, p)
  <2>1. PICK r \in admins : Goto(t, [at |-> "revoke", chat |-> c, who |-> p, id |-> r.id])
    BY <1>2 DEF ReadRevoke
  <2>2. r.id \in Nat
    BY DEF Inv, AdminsFit, AdministratorRow
  <2>. QED
    BY <2>1, <2>2, RevokePlace
<1>. QED
  BY <1>1, <1>2

LEMMA PlacesStep ==
    ASSUME Inv, WhoMoves
    PROVE  PlacesFit'
<1>1. CASE UNCHANGED pc
  BY <1>1 DEF Inv, PlacesFit
<1>2. ASSUME NEW t \in Threads, Thread(t)
      PROVE  PlacesFit'
  BY <1>2, ThreadGoes, DecisionGoes, WentAside, SaveGoes DEF Inv
<1>. QED
  BY <1>1, <1>2 DEF WhoMoves

-----------------------------------------------------------------------------
LEMMA InitInv == Init => Inv
<1>. SUFFICES ASSUME Init PROVE Inv
  OBVIOUS
<1>1. DirectoryFit
  <2>1. \A c \in Chats : /\ feishu[c] \in Rosters
                         /\ members[c] = feishu[c].members
                         /\ owner[c] = {feishu[c].owner}
    BY DEF Init
  <2>2. \A c \in Chats : /\ feishu[c].members \subseteq People
                         /\ feishu[c].owner \in feishu[c].members
    BY <2>1, RosterType
  <2>3. members \in [Chats -> SUBSET People] /\ owner \in [Chats -> SUBSET People]
    BY <2>2 DEF Init
  <2>4. \A c \in Chats : Cardinality(owner[c]) = 1
    BY <2>1, FS_Singleton
  <2>. QED
    BY <2>1, <2>2, <2>3, <2>4 DEF Init, DirectoryFit, OwnersAreActive
<1>2. AdminsFit /\ AuditFit
  <2>1. PICK founders \in Foundings :
           /\ \E number \in [founders -> 1..Cardinality(founders)] :
                /\ \A f, g \in founders : number[f] = number[g] => f = g
                /\ admins = {[id |-> number[f], chat |-> f[1], who |-> f[2]] : f \in founders}
           /\ audit = [c \in Chats |-> [p \in People |->
                        IF <<c, p>> \in founders THEN "grant" ELSE "none"]]
    BY DEF Init
  <2>2. PICK number \in [founders -> 1..Cardinality(founders)] :
                /\ \A f, g \in founders : number[f] = number[g] => f = g
                /\ admins = {[id |-> number[f], chat |-> f[1], who |-> f[2]] : f \in founders}
    BY <2>1
  <2>3. founders \subseteq Chats \X People /\ Cardinality(founders) \in Nat
    BY <2>1, FounderAssumption, FS_CardinalityType DEF FounderAssumption
  <2>4. \A f \in founders : number[f] \in Nat /\ number[f] <= Cardinality(founders)
    BY <2>2, <2>3
  <2>5. Numbered(admins)
    BY <2>2, <2>3, <2>4 DEF Numbered
  <2>6. admins \subseteq AdministratorRow
    BY <2>2, <2>3, <2>4 DEF AdministratorRow
  <2>7. \A r, s \in admins : r.id = s.id \/ (r.chat = s.chat /\ r.who = s.who) => r = s
    BY <2>2, <2>3
  <2>8. AuditFit
    <3>1. missed = {}
      BY DEF Init
    <3>. QED
      BY <2>1, <3>1 DEF AuditFit, AuditEntry
  <2>. QED
    BY <2>5, <2>6, <2>7, <2>8 DEF AdminsFit
<1>3. LinksFit
  BY DEF Init, LinksFit, LinkRow, OneUsePerLink
<1>4. AliasesFit
  BY DEF Init, AliasesFit, Distinct, Numbered
<1>5. PolicyFit
  BY DEF Init, PolicyFit, Policy, DefaultPolicy
<1>6. PlacesFit
  <2>1. Idle \in Place /\ Idle.at # "save"
    BY IdlePlace, AsideIsPlace
  <2>. QED
    BY <2>1 DEF Init, PlacesFit
<1>7. LeftFits
  BY BoundAssumption DEF BoundAssumption, Init, LeftFits, Budget, Counted
<1>. QED
  BY <1>1, <1>2, <1>3, <1>4, <1>5, <1>6, <1>7 DEF Inv

LEMMA NextInv == Inv /\ [Next]_vars => Inv'
  BY NextMoves, DirectoryStep, AdminsStep, AuditStep, LinksStep, AliasesStep,
     PolicyStep, PlacesStep, LeftStep DEF Inv

LEMMA Invariance == Spec => []Inv
  BY InitInv, NextInv, PTL DEF Spec

(* Every reachable state is one the program can store: ids of rows are distinct
   although deleted ones come back, nobody has two rows of administration or two
   names in a group, and no name two holders, whatever reads and writes of other
   threads lie between a decision and its write. *)
THEOREM TypeCorrect == Spec => []TypeOK
  BY InvIsTyped, Invariance, PTL

(* A login link signs in once, for any number of browsers that open it. *)
THEOREM LinksSignInOnce == Spec => []OneUsePerLink
<1>1. Inv => OneUsePerLink
  BY DEF Inv, LinksFit
<1>. QED
  BY <1>1, Invariance, PTL

-----------------------------------------------------------------------------
(* Saves of the policy. *)

Fields == {"first", "second", "mode", "told"}

LEMMA UnnamedIsSeen ==
    ASSUME NEW s, NEW seen, NEW f \in Fields, f \notin Named_(s)
    PROVE  Wanted(s, seen)[f] = seen[f]
<1>1. CASE f = "first"
  BY <1>1 DEF Named_, Wanted, Given
<1>2. CASE f = "second"
  BY <1>2 DEF Named_, Wanted, Given
<1>3. CASE f = "mode"
  BY <1>3 DEF Named_, Wanted, Given
<1>4. CASE f = "told"
  BY <1>4 DEF Named_, Wanted, Given
<1>. QED
  BY <1>1, <1>2, <1>3, <1>4 DEF Fields

LEMMA SameColumn ==
    ASSUME NEW old, NEW seen, NEW wanted, NEW f \in Fields, wanted[f] = seen[f]
    PROVE  ChangedColumns(old, seen, wanted)[f] = old[f]
  BY DEF Fields, ChangedColumns

LEMMA SaveTouches ==
    ASSUME Inv, [Next]_vars, NEW c \in Chats, NEW f \in Fields,
           policy'[c][f] # policy[c][f]
    PROVE  \E t \in Threads : /\ pc[t].at = "save" /\ pc[t].chat = c
                              /\ pc'[t] = Idle /\ f \in Named_(pc[t].request)
<1>1. PICK t \in Threads : WriteSave(t)
  BY NextMoves DEF WhoMoves, settings
<1>2. /\ pc[t].at = "save" /\ pc[t].chat \in Chats
      /\ pc[t].wanted = Wanted(pc[t].request, pc[t].seen)
      /\ pc'[t] = Idle
  BY <1>1, Carried DEF WriteSave, Goto, Inv, PlacesFit
<1>3. policy' = [policy EXCEPT ![pc[t].chat] =
                    ChangedColumns(policy[pc[t].chat], pc[t].seen, pc[t].wanted)]
  BY <1>1 DEF WriteSave, settings
<1>4. /\ pc[t].chat = c
      /\ policy'[c] = ChangedColumns(policy[c], pc[t].seen, pc[t].wanted)
  BY <1>2, <1>3 DEF Inv, PolicyFit
<1>5. pc[t].wanted[f] # pc[t].seen[f]
  BY <1>4, SameColumn
<1>6. f \in Named_(pc[t].request)
  BY <1>2, <1>5, UnnamedIsSeen
<1>. QED
  BY <1>2, <1>4, <1>6

(* Of any number of administrators who save the policy of a group at once, none
   undoes a field that only another one named: the columns that a save does not
   name keep what they have when it is written, not what it read. *)
THEOREM SavesTouchTheirs == Spec => SavesTouchOnlyTheirFields
<1>1. Inv /\ [Next]_vars =>
          \A c \in Chats, f \in {"first", "second", "mode", "told"} :
              policy'[c][f] # policy[c][f] =>
                  \E t \in Threads : /\ pc[t].at = "save" /\ pc[t].chat = c
                                     /\ pc'[t] = Idle /\ f \in Named_(pc[t].request)
  BY SaveTouches DEF Fields
<1>. QED
  BY <1>1, Invariance, PTL DEF Spec, SavesTouchOnlyTheirFields

-----------------------------------------------------------------------------
(* The audit, and the sessions of those who left.  A dismissal strikes the row with
   the id it read, which is the row of the person it is about, or nobody's, or the
   row of somebody who was appointed since. *)

Explained == AuditExplainsAdministrators /\ LiveSessionIsExplained

(* How the administrators of a group change, with the audit. *)
LEMMA ApplyAdmins ==
    ASSUME Inv, NEW t \in Threads, Apply(t)
    PROVE  LET gone == Departed(pc[t].chat, pc[t].roster)
           IN  /\ pc[t].chat \in Chats
               /\ admins' = admins \ gone /\ sessions' = EndedWith(gone)
               /\ UNCHANGED missed
               /\ \A c \in Chats, p \in People :
                     audit'[c][p] = IF c = pc[t].chat /\ \E r \in gone : r.who = p
                                    THEN "departure" ELSE audit[c][p]
<1>. DEFINE d == pc[t].chat
            gone == Departed(d, pc[t].roster)
<1>1. d \in Chats
  BY Carried DEF Apply, Inv, PlacesFit
<1>2. admins' = admins \ gone /\ sessions' = EndedWith(gone) /\ UNCHANGED missed
      /\ audit' = DepartureAudited(d, gone)
  BY DEF Apply
<1>. HIDE DEF d, gone
<1>3. ASSUME NEW c \in Chats, NEW p \in People
      PROVE  audit'[c][p] = IF c = d /\ \E r \in gone : r.who = p
                            THEN "departure" ELSE audit[c][p]
  BY <1>1, <1>2 DEF DepartureAudited, Inv, AuditFit
<1>. QED
  BY <1>1, <1>2, <1>3 DEF d, gone

LEMMA GrantAdmins ==
    ASSUME Inv, NEW t \in Threads, WriteGrant(t)
    PROVE  \/ UNCHANGED <<admins, audit, missed>>
           \/ /\ pc[t].chat \in Chats /\ pc[t].who \in People
              /\ UNCHANGED missed
              /\ \A c \in Chats, p \in People :
                    /\ Administers(p, c)' <=>
                          Administers(p, c) \/ (c = pc[t].chat /\ p = pc[t].who)
                    /\ audit'[c][p] = IF c = pc[t].chat /\ p = pc[t].who
                                      THEN "grant" ELSE audit[c][p]
<1>1. CASE Administers(pc[t].who, pc[t].chat)
  BY <1>1 DEF WriteGrant
<1>2. CASE ~Administers(pc[t].who, pc[t].chat)
  <2>. DEFINE d == pc[t].chat
              q == pc[t].who
              row == [id |-> Fresh(admins), chat |-> d, who |-> q]
  <2>1. d \in Chats /\ q \in People /\ admins' = admins \cup {row}
        /\ audit' = [audit EXCEPT ![d][q] = "grant"]
    BY <1>2, GrantedRow
  <2>2. row.chat = d /\ row.who = q
    OBVIOUS
  <2>. HIDE DEF d, q, row
  <2>3. \A c \in Chats, p \in People :
            Administers(p, c)' <=> Administers(p, c) \/ (c = d /\ p = q)
    BY <2>1, <2>2 DEF Administers
  <2>4. \A c \in Chats, p \in People :
            audit'[c][p] = IF c = d /\ p = q THEN "grant" ELSE audit[c][p]
    BY <2>1 DEF Inv, AuditFit
  <2>5. UNCHANGED missed
    BY DEF WriteGrant
  <2>. QED
    BY <2>1, <2>3, <2>4, <2>5 DEF d, q
<1>. QED
  BY <1>1, <1>2

(* A dismissal records itself for the person it is about.  Whoever loses his row by
   it, or keeps one, otherwise than its event says, was missed by it. *)
LEMMA RevokeAdmins ==
    ASSUME Inv, NEW t \in Threads, WriteRevoke(t)
    PROVE  /\ pc[t].chat \in Chats /\ pc[t].who \in People
           /\ missed \subseteq missed'
           /\ \A c \in Chats, p \in People :
                 /\ audit'[c][p] = IF c = pc[t].chat /\ p = pc[t].who
                                   THEN "revoke" ELSE audit[c][p]
                 /\ Administers(p, c)' => Administers(p, c)
                 /\ Missed(p, c)'
                    \/ (Administers(p, c)' <=>
                          Administers(p, c) /\ ~(c = pc[t].chat /\ p = pc[t].who))
<1>. DEFINE d == pc[t].chat
            q == pc[t].who
            i == pc[t].id
<1>1. d \in Chats /\ q \in People
  BY Carried DEF WriteRevoke, Inv, PlacesFit
<1>2. /\ admins' = admins \ Struck(i) /\ missed' = missed \cup MissedBy(Struck(i), d, q)
      /\ audit' = [audit EXCEPT ![d][q] = "revoke"]
  BY DEF WriteRevoke
<1>3. \A r, s \in admins : r.id = s.id \/ (r.chat = s.chat /\ r.who = s.who) => r = s
  BY DEF Inv, AdminsFit
<1>. HIDE DEF d, q, i
<1>4. \A c \in Chats, p \in People : Administers(p, c)' => Administers(p, c)
  BY <1>2 DEF Administers
<1>5. \A c \in Chats, p \in People :
          audit'[c][p] = IF c = d /\ p = q THEN "revoke" ELSE audit[c][p]
  BY <1>1, <1>2 DEF Inv, AuditFit
<1>6. ASSUME NEW c \in Chats, NEW p \in People
      PROVE  Missed(p, c)' \/ (Administers(p, c)' <=>
                                  Administers(p, c) /\ ~(c = d /\ p = q))
  <2>1. CASE c = d /\ p = q
    <3>1. CASE \E r \in Struck(i) : r.chat = d /\ r.who = q
      <4>1. \A r \in admins : r.chat = d /\ r.who = q => r \in Struck(i)
        BY <1>3, <3>1 DEF Struck
      <4>. QED
        BY <1>2, <2>1, <4>1 DEF Administers
    <3>2. CASE ~\E r \in Struck(i) : r.chat = d /\ r.who = q
      <4>1. <<d, q>> \in missed'
        BY <1>2, <3>2 DEF MissedBy
      <4>. QED
        BY <2>1, <4>1 DEF Missed
    <3>. QED
      BY <3>1, <3>2
  <2>2. CASE ~(c = d /\ p = q)
    <3>1. CASE \E r \in Struck(i) : r.chat = c /\ r.who = p
      <4>1. PICK r \in Struck(i) : r.chat = c /\ r.who = p
        BY <3>1
      <4>2. \A s \in Struck(i) : s = r
        BY <1>3, <4>1 DEF Struck
      <4>3. <<r.chat, r.who>> \in MissedBy(Struck(i), d, q)
        BY <2>2, <4>1, <4>2 DEF MissedBy
      <4>. QED
        BY <1>2, <4>1, <4>3 DEF Missed
    <3>2. CASE ~\E r \in Struck(i) : r.chat = c /\ r.who = p
      <4>1. Administers(p, c) => Administers(p, c)'
        BY <1>2, <3>2 DEF Administers
      <4>. QED
        BY <1>4, <2>2, <4>1
    <3>. QED
      BY <3>1, <3>2
  <2>. QED
    BY <2>1, <2>2
<1>. QED
  BY <1>1, <1>2, <1>4, <1>5, <1>6 DEF d, q

LEMMA AuditExplainsStep ==
    ASSUME Inv, AuditExplainsAdministrators, WhoMoves
    PROVE  AuditExplainsAdministrators'
<1>. SUFFICES ASSUME NEW c \in Chats, NEW p \in People
              PROVE  /\ ~Missed(p, c)' => (Administers(p, c)' <=> audit'[c][p] = "grant")
                     /\ Administers(p, c)' => audit'[c][p] \in {"grant", "revoke"}
  BY DEF AuditExplainsAdministrators
<1>0. /\ ~Missed(p, c) => (Administers(p, c) <=> audit[c][p] = "grant")
      /\ Administers(p, c) => audit[c][p] \in {"grant", "revoke"}
  BY DEF AuditExplainsAdministrators
<1>1. CASE UNCHANGED <<admins, audit, missed>>
  BY <1>0, <1>1 DEF Administers, Missed
<1>2. ASSUME NEW t \in Threads, Apply(t)
      PROVE  /\ ~Missed(p, c)' => (Administers(p, c)' <=> audit'[c][p] = "grant")
             /\ Administers(p, c)' => audit'[c][p] \in {"grant", "revoke"}
  <2>. DEFINE d == pc[t].chat
              M == pc[t].roster.members
              gone == Departed(d, pc[t].roster)
  <2>1. /\ admins' = admins \ gone /\ UNCHANGED missed
        /\ audit'[c][p] = IF c = d /\ \E r \in gone : r.who = p
                          THEN "departure" ELSE audit[c][p]
    BY <1>2, ApplyAdmins
  <2>2. \A r : r \in gone <=> r \in admins /\ r.chat = d /\ r.who \notin M
    BY DEF Departed
  <2>. HIDE DEF d, M, gone
  <2>3. CASE c = d /\ \E r \in gone : r.who = p
    BY <2>1, <2>2, <2>3 DEF Administers
  <2>4. CASE ~(c = d /\ \E r \in gone : r.who = p)
    <3>1. Administers(p, c)' <=> Administers(p, c)
      BY <2>1, <2>2, <2>4 DEF Administers
    <3>. QED
      BY <1>0, <2>1, <2>4, <3>1 DEF Missed
  <2>. QED
    BY <2>3, <2>4
<1>3. ASSUME NEW t \in Threads, WriteGrant(t)
      PROVE  /\ ~Missed(p, c)' => (Administers(p, c)' <=> audit'[c][p] = "grant")
             /\ Administers(p, c)' => audit'[c][p] \in {"grant", "revoke"}
  BY <1>0, <1>1, <1>3, GrantAdmins DEF Missed
<1>4. ASSUME NEW t \in Threads, WriteRevoke(t)
      PROVE  /\ ~Missed(p, c)' => (Administers(p, c)' <=> audit'[c][p] = "grant")
             /\ Administers(p, c)' => audit'[c][p] \in {"grant", "revoke"}
  <2>1. Missed(p, c) => Missed(p, c)'
    BY <1>4, RevokeAdmins DEF Missed
  <2>. QED
    BY <1>0, <1>4, <2>1, RevokeAdmins
<1>. QED
  BY <1>1, <1>2, <1>3, <1>4 DEF WhoMoves

(* Somebody of whom a session may say that it works. *)
ToldOf(c, p) == audit[c][p] = "revoke" \/ (Missed(p, c) /\ audit[c][p] = "grant")

Accounted(p) == AdministersAny(p) \/ \E c \in Chats : ToldOf(c, p)

LEMMA StaysAccounted ==
    ASSUME Inv, AuditExplainsAdministrators, WhoMoves, ~\E t \in Threads : Apply(t),
           NEW p \in People, Accounted(p)
    PROVE  Accounted(p)'
<1>1. CASE UNCHANGED <<admins, audit, missed>>
  BY <1>1 DEF Accounted, ToldOf, Missed, AdministersAny, Administers
<1>2. ASSUME NEW t \in Threads, WriteGrant(t)
      PROVE  Accounted(p)'
  BY <1>1, <1>2, GrantAdmins DEF Accounted, ToldOf, Missed, AdministersAny
<1>3. ASSUME NEW t \in Threads, WriteRevoke(t)
      PROVE  Accounted(p)'
  <2>1. missed \subseteq missed'
    BY <1>3, RevokeAdmins
  <2>2. ASSUME NEW c \in Chats, ToldOf(c, p)
        PROVE  ToldOf(c, p)'
    <3>1. audit'[c][p] \in {"revoke", audit[c][p]}
      BY <1>3, RevokeAdmins
    <3>. QED
      BY <2>1, <2>2, <3>1 DEF ToldOf, Missed
  <2>3. ASSUME NEW c \in Chats, Administers(p, c)
        PROVE  Administers(p, c)' \/ ToldOf(c, p)'
    <3>1. audit[c][p] \in {"grant", "revoke"}
      BY <2>3 DEF AuditExplainsAdministrators
    <3>2. audit'[c][p] = IF c = pc[t].chat /\ p = pc[t].who
                         THEN "revoke" ELSE audit[c][p]
      BY <1>3, RevokeAdmins
    <3>3. \/ Missed(p, c)'
          \/ Administers(p, c)' <=>
                Administers(p, c) /\ ~(c = pc[t].chat /\ p = pc[t].who)
      BY <1>3, RevokeAdmins
    <3>. QED
      BY <2>3, <3>1, <3>2, <3>3 DEF ToldOf
  <2>. QED
    BY <2>2, <2>3 DEF Accounted, AdministersAny
<1>. QED
  BY <1>1, <1>2, <1>3 DEF WhoMoves

(* Every live session is a live session of before, or a new one. *)
LEMMA LiveBefore ==
    ASSUME Inv, WhoMoves, ~\E t \in Threads : Apply(t),
           NEW i \in 1..Len(sessions'), sessions'[i].state = "live"
    PROVE  \/ /\ i \in 1..Len(sessions) /\ sessions[i].state = "live"
              /\ sessions'[i].who = sessions[i].who
           \/ AdministersAny(sessions'[i].who) /\ UNCHANGED <<admins, audit, missed>>
<1>0. Len(sessions) \in Nat /\ \A j \in 1..Len(sessions) : sessions[j] \in SessionRow
  BY DEF Inv, LinksFit
<1>1. CASE UNCHANGED sessions
  BY <1>1
<1>2. ASSUME NEW l \in Links, Consume(l)
      PROVE  \/ i \in 1..Len(sessions) /\ sessions'[i] = sessions[i]
             \/ AdministersAny(sessions'[i].who) /\ UNCHANGED <<admins, audit, missed>>
  <2>1. PICK p \in links[l].who :
            /\ AdministersAny(p)
            /\ sessions' = Append(sessions, [link |-> l, who |-> p, state |-> "live"])
    BY <1>2 DEF Consume
  <2>. DEFINE s == [link |-> l, who |-> p, state |-> "live"]
  <2>2. sessions' = Append(sessions, s) /\ s.who = p /\ UNCHANGED <<admins, audit, missed>>
    BY <1>2, <2>1 DEF Consume
  <2>. HIDE DEF s
  <2>3. /\ Len(sessions') = Len(sessions) + 1
        /\ \A j \in 1..Len(sessions) : sessions'[j] = sessions[j]
        /\ sessions'[Len(sessions) + 1] = s
    BY <1>0, <2>2 DEF Inv, LinksFit
  <2>4. CASE i \in 1..Len(sessions)
    BY <2>3, <2>4
  <2>5. CASE i = Len(sessions) + 1
    BY <2>1, <2>2, <2>3, <2>5
  <2>. QED
    BY <1>0, <2>3, <2>4, <2>5
<1>3. ASSUME NEW j \in 1..Len(sessions), Logout(j) \/ ExpireSession(j)
      PROVE  i \in 1..Len(sessions) /\ sessions'[i] = sessions[i]
  <2>1. PICK state \in {"ended", "expired"} :
            sessions' = [sessions EXCEPT ![j].state = state]
    BY <1>3 DEF Logout, ExpireSession
  <2>. DEFINE s == [sessions[j] EXCEPT !.state = state]
  <2>2. s.state = state
    BY <1>0, SessionEnds
  <2>3. sessions' = [sessions EXCEPT ![j] = s]
    BY <2>1
  <2>. HIDE DEF s
  <2>4. /\ Len(sessions') = Len(sessions)
        /\ \A k \in 1..Len(sessions) : sessions'[k] = IF k = j THEN s ELSE sessions[k]
    BY <1>0, <2>3 DEF Inv, LinksFit
  <2>. QED
    BY <2>1, <2>2, <2>4
<1>4. ASSUME NEW t \in Threads, WriteTicket(t)
      PROVE  UNCHANGED sessions
  BY <1>4 DEF WriteTicket
<1>5. ASSUME NEW l \in Links, ExpireLink(l)
      PROVE  UNCHANGED sessions
  BY <1>5 DEF ExpireLink
<1>. QED
  BY <1>1, <1>2, <1>3, <1>4, <1>5 DEF WhoMoves

(* A refresh ends the sessions of those who are left without a group. *)
LEMMA RefreshAccounts ==
    ASSUME Inv, LiveSessionIsExplained, NEW t \in Threads, Apply(t),
           NEW i \in 1..Len(sessions'), sessions'[i].state = "live",
           NEW p, p = sessions'[i].who
    PROVE  Accounted(p)'
<1>. DEFINE d == pc[t].chat
            gone == Departed(d, pc[t].roster)
            who == sessions[i].who
<1>1. /\ admins' = admins \ gone /\ sessions' = EndedWith(gone) /\ UNCHANGED missed
      /\ \A c \in Chats, q \in People :
            audit'[c][q] = IF c = d /\ \E r \in gone : r.who = q
                           THEN "departure" ELSE audit[c][q]
  BY ApplyAdmins
<1>. HIDE DEF d, gone
<1>2. Len(sessions') = Len(sessions) /\ i \in 1..Len(sessions)
  BY <1>1, EndedWithType DEF Inv
<1>3. sessions[i] \in SessionRow
  BY <1>2 DEF Inv, LinksFit
<1>4. sessions'[i] = IF /\ \E r \in gone : r.who = who
                        /\ ~\E r \in admins \ gone : r.who = who
                     THEN [sessions[i] EXCEPT !.state = "ended"] ELSE sessions[i]
  BY <1>1, <1>2 DEF EndedWith
<1>5. [sessions[i] EXCEPT !.state = "ended"].state = "ended"
  BY <1>3, SessionEnds
<1>6. /\ p = who
      /\ sessions'[i] = sessions[i] /\ sessions[i].state = "live"
      /\ \/ ~\E r \in gone : r.who = p
         \/ \E r \in admins \ gone : r.who = p
  BY <1>4, <1>5
<1>7. p \in People /\ Accounted(p)
  BY <1>2, <1>3, <1>6 DEF SessionRow, LiveSessionIsExplained, Accounted, ToldOf
<1>8. CASE \E r \in admins \ gone : r.who = p
  <2>1. PICK r \in admins : r \notin gone /\ r.who = p
    BY <1>8
  <2>2. r.chat \in Chats
    BY DEF Inv, AdminsFit, AdministratorRow
  <2>3. AdministersAny(p)'
    BY <1>1, <2>1, <2>2 DEF AdministersAny, Administers
  <2>. QED
    BY <2>3 DEF Accounted
<1>9. CASE ~\E r \in gone : r.who = p
  BY <1>1, <1>7, <1>9 DEF Accounted, ToldOf, Missed, AdministersAny, Administers
<1>. QED
  BY <1>6, <1>8, <1>9

LEMMA LiveStep ==
    ASSUME Inv, AuditExplainsAdministrators, LiveSessionIsExplained, WhoMoves
    PROVE  LiveSessionIsExplained'
<1>1. SUFFICES ASSUME NEW i \in 1..Len(sessions'), sessions'[i].state = "live",
                      NEW p, p = sessions'[i].who
               PROVE  Accounted(p)'
  BY DEF LiveSessionIsExplained, Accounted, ToldOf
<1>2. CASE \E t \in Threads : Apply(t)
  BY <1>1, <1>2, RefreshAccounts
<1>3. CASE ~\E t \in Threads : Apply(t)
  <2>1. CASE /\ i \in 1..Len(sessions) /\ sessions[i].state = "live"
             /\ sessions'[i].who = sessions[i].who
    <3>1. sessions[i] \in SessionRow
      BY <2>1 DEF Inv, LinksFit
    <3>2. p \in People /\ Accounted(p)
      BY <1>1, <2>1, <3>1 DEF SessionRow, LiveSessionIsExplained, Accounted, ToldOf
    <3>. QED
      BY <1>3, <3>2, StaysAccounted
  <2>2. CASE AdministersAny(sessions'[i].who) /\ UNCHANGED <<admins, audit, missed>>
    BY <1>1, <2>2 DEF Accounted, AdministersAny, Administers
  <2>. QED
    BY <1>1, <1>3, <2>1, <2>2, LiveBefore
<1>. QED
  BY <1>2, <1>3

LEMMA InitExplained == Init => Explained
<1>. SUFFICES ASSUME Init PROVE Explained
  OBVIOUS
<1>2. AuditExplainsAdministrators
  <2>1. PICK founders \in Foundings :
           /\ \E number \in [founders -> 1..Cardinality(founders)] :
                admins = {[id |-> number[f], chat |-> f[1], who |-> f[2]] : f \in founders}
           /\ audit = [c \in Chats |-> [p \in People |->
                        IF <<c, p>> \in founders THEN "grant" ELSE "none"]]
    BY DEF Init
  <2>2. founders \subseteq Chats \X People
    BY FounderAssumption DEF FounderAssumption
  <2>3. PICK number :
            admins = {[id |-> number[f], chat |-> f[1], who |-> f[2]] : f \in founders}
    BY <2>1
  <2>4. ASSUME NEW c \in Chats, NEW p \in People
        PROVE  Administers(p, c) <=> <<c, p>> \in founders
    <3>1. ASSUME <<c, p>> \in founders
          PROVE  \E r \in admins : r.chat = c /\ r.who = p
      <4>. DEFINE r == [id |-> number[<<c, p>>], chat |-> c, who |-> p]
      <4>1. r \in admins /\ r.chat = c /\ r.who = p
        BY <2>3, <3>1
      <4>. QED
        BY <4>1
    <3>2. ASSUME NEW r \in admins, r.chat = c, r.who = p
          PROVE  <<c, p>> \in founders
      BY <2>2, <2>3, <3>2
    <3>. QED
      BY <3>1, <3>2 DEF Administers
  <2>. QED
    BY <2>1, <2>4 DEF AuditExplainsAdministrators
<1>3. LiveSessionIsExplained
  BY DEF Init, LiveSessionIsExplained
<1>. QED
  BY <1>2, <1>3 DEF Explained

LEMMA NextExplained == Inv /\ Explained /\ [Next]_vars => Explained'
  BY NextMoves, AuditExplainsStep, LiveStep DEF Explained

LEMMA AlwaysExplained == Spec => []Explained
  BY InitExplained, NextExplained, Invariance, PTL DEF Spec

(* However many refreshes, appointments and dismissals are under way at once, the
   audit accounts for the administrators, but for those whom a dismissal by row id
   missed or struck in another's place; and nobody administers without an
   appointment, nor once a departure is on record. *)
THEOREM AuditAccounts == Spec => []AuditExplainsAdministrators
<1>1. Explained => AuditExplainsAdministrators
  BY DEF Explained
<1>. QED
  BY <1>1, AlwaysExplained, PTL

(* Whoever has left every group he administered is signed out, however many
   sessions he had and whatever else was under way. *)
THEOREM LeaversSignedOut == Spec => []LiveSessionIsExplained
<1>1. Explained => LiveSessionIsExplained
  BY DEF Explained
<1>. QED
  BY <1>1, AlwaysExplained, PTL
=============================================================================
