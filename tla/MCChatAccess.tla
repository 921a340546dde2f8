---------------------------- MODULE MCChatAccess ----------------------------
(* Instances of ChatAccess for TLC. *)
EXTENDS ChatAccess, TLC

CONSTANTS c1, c2, m1, m2

Says(who, by) == [members |-> who, owner |-> by]

\* Both are members and m1 owns the group; or m1 has left.
TwoRosters == {Says({m1, m2}, m1), Says({m2}, m2)}
OneRoster == {Says({m1, m2}, m1)}

\* m1 administers both groups, or both administer one and nobody the other.
TwoFoundings == {{<<c1, m1>>, <<c2, m1>>}, {<<c1, m1>>, <<c1, m2>>}}
BothFound == {{<<c1, m1>>, <<c1, m2>>}}

Save(first, second, mode, told) ==
    [first |-> first, second |-> second, mode |-> mode, told |-> told]

\* The first reminder moves below where the second may move; one recipient, or all.
FourSaves == {Save({36}, {}, {}, {}), Save({}, {48}, {}, {}),
              Save({}, {}, {"selected"}, {{m1}}), Save({}, {}, {"all"}, {})}

Bound(moves, refreshes, calls, linked, pages, names, clocks) ==
    [moves |-> moves, refreshes |-> refreshes, calls |-> calls, links |-> linked,
     pages |-> pages, names |-> names, clocks |-> clocks]

\* Refreshes and departures while somebody signs in and is appointed or dismissed;
\* two pages at once; a page while members leave; names bound while members leave;
\* dismissals and appointments by two threads, with a session or with a refresh, so
\* that the id of a deleted row comes back under a dismissal.
SixBudgets == {Bound(1, 2, 1, 1, 0, 0, 1), Bound(0, 0, 0, 1, 2, 0, 1),
               Bound(1, 1, 0, 1, 1, 0, 0), Bound(1, 1, 0, 0, 0, 2, 0),
               Bound(0, 0, 3, 1, 0, 0, 0), Bound(1, 1, 2, 1, 0, 0, 0)}

\* Two calls, or a call and a page, that dismiss.
TwoDismissals == {Bound(0, 0, 2, 0, 0, 0, 0), Bound(0, 0, 1, 1, 1, 0, 0)}
\* Nothing tells one thread from another.
Alike == Permutations(Threads)
=============================================================================
