------------------------------ MODULE MCIntake ------------------------------
(* Instances of Intake for TLC. *)
EXTENDS Intake, TLC

CONSTANTS c1, c2, m1, m2, n1, n2, talk, list, grouplist, ask, askown, note, review, change, t1, t2

Says(p, chat, kind, task, marks, about) ==
    [by |-> p, chat |-> chat, kind |-> kind, task |-> task, about |-> about,
     marks |-> marks]

\* m1 starts as the administrator of c1; task 1 is m2's in c1, task 2 m1's in c2.
SomeTexts ==
    talk :> Says(m1, {c1}, "talk", 0, {}, {})
    @@ list :> Says(m1, {}, "list", 0, {}, {})
    @@ grouplist :> Says(m1, {c2}, "list", 0, {}, {})
    @@ ask :> Says(m1, {}, "ask", 0, {}, {n1})
    @@ askown :> Says(m2, {}, "ask", 0, {"mine"}, {n1})
    @@ note :> Says(m2, {}, "code", 1, {"note"}, {})
    @@ review :> Says(m1, {}, "code", 1, {"confirmed"}, {})
    @@ change :> Says(m2, {}, "code", 1, {}, {})

Row(chat, owner) == [chat |-> chat, owners |-> {owner}, cycle |-> 0, status |-> "open",
                     review |-> "none"]
ThreeTasks == <<Row(c1, m2), Row(c2, m2), Row(c1, m1)>>
TwoFounders == {<<c1, m1>>, <<c2, m2>>}

Names1 == (c1 :> (m1 :> {n2} @@ m2 :> {n1})) @@ (c2 :> (m1 :> {} @@ m2 :> {}))

CreateForm(says, request, due, owners) ==
    [what |-> "create", request |-> request, by |-> m1, chat |-> c1, says |-> says,
     due |-> due, owners |-> owners]
NoteForm1(says, p, kind) ==
    [what |-> "note", request |-> 1, by |-> p, chat |-> c1, says |-> says, task |-> 1,
     kind |-> kind]
\* Each form, the same one edited, another request, and another person's.
SomeForms == {CreateForm(1, 1, TRUE, {m2}), CreateForm(2, 1, FALSE, {m2}),
              CreateForm(1, 2, FALSE, {m1}),
              NoteForm1(1, m1, "progress"), NoteForm1(2, m1, "progress"),
              NoteForm1(1, m2, "reopen")}

Bound(deliveries, posts, faults, changes, acts, clocks) ==
    [deliveries |-> deliveries, posts |-> posts, faults |-> faults,
     changes |-> changes, acts |-> acts, clocks |-> clocks]

\* Two deliveries with a fault while roles change, or while others act; one with
\* three acts, or three changes; pages that repeat, or meet a dismissal; a message and
\* a page together.
SevenBudgets == {Bound(2, 0, 1, 1, 0, 0), Bound(2, 0, 1, 0, 2, 0), Bound(1, 0, 0, 0, 3, 0),
                 Bound(1, 0, 0, 3, 0, 0), Bound(0, 3, 1, 1, 0, 1), Bound(0, 2, 0, 2, 0, 0),
                 Bound(1, 1, 0, 1, 1, 0)}
NoPeople == {}
OneChat == {c1}
=============================================================================
