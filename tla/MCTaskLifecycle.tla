-------------------------- MODULE MCTaskLifecycle --------------------------
(* Instances of TaskLifecycle for TLC. *)
EXTENDS TaskLifecycle, TLC

CONSTANTS m1, m2, a, b, e1, e2

Found(owners, deadline, title, messages, confident) ==
    [owners |-> owners, deadline |-> deadline, title |-> title,
     messages |-> messages, confident |-> confident, surer |-> confident]

NoPair == {}
OnePair == {<<a, b>>}

\* One task, found first without a deadline, then with one and little confidence.
WorkBatches == {<<Found({m1}, None, a, {e1}, TRUE)>>, <<Found({m1}, 10, b, {e1}, FALSE)>>}
WorkKinds == {<<"page", "confirm">>, <<"message", "complete">>, <<"review", "accept">>,
              <<"page", "reopen">>, <<"page", "restore">>, <<"message", "invalidate">>,
              <<"card", "reschedule">>, <<"page", "rename">>}
WorkDeadlines == {10, 20}
WorkInstants == {0, 10, 20}

\* Two duplicates, and a third task that shares a message with both.
MergeBatches == {<<Found({m1}, None, a, {e1}, TRUE), Found({m1}, None, b, {e1, e2}, TRUE)>>,
                 <<Found({m1}, None, a, {e2}, TRUE)>>}
MergeKinds == {<<"page", "merge">>, <<"page", "restore">>, <<"card", "cancel">>}

OneInstant == {0}
NoDeadlines == {}

RequestSymmetry == Permutations(Requests)
MergeSymmetry == RequestSymmetry \cup Permutations(Tasks)
=============================================================================
