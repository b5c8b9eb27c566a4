--------------------------- MODULE MCDaemonSession ---------------------------
(* A small desktop for TLC: two windows, five lists of operations.          *)
EXTENDS DaemonSession, UiTree

Root(w) == <<"root1", "root2">>[w]
Edit(w) == <<"edit1", "edit2">>[w]

Window(w, n) ==
    [id |-> w, root |-> reparent_subtree(Node(Root(w), n, << Node(Edit(w), 0, << >>) >>),
                                         NoElement)]

MCCaptures == { << Window(1, 0) >>, << Window(1, 0), Window(2, 0) >> }

\* Lists that apply to any snapshot.
SafeOps == {
    << [op |-> "WindowAdded", window |-> Window(2, 1)] >>,
    << Lists!ResyncOp >> }

MCOpLists == SafeOps \cup {
    << [op |-> "PropertyChanged", element_id |-> Root(1), attr |-> 1, valid |-> TRUE],
       [op |-> "FocusChanged", element_id |-> Edit(1), window_id |-> 1] >>,
    << [op |-> "WindowAdded", window |-> Window(1, 1)],
       [op |-> "WindowRemoved", window_id |-> 2] >> }

\* The captures closed under the operations, failed lists included.
Closure(lists) ==
    LET Step(set) == set \cup { Lists!ApplyDiffOps(c, ops).content : c \in set, ops \in lists }
        reach[n \in 0 .. 8] == IF n = 0 THEN MCCaptures ELSE Step(reach[n - 1])
    IN  reach[8]

MCContent   == Closure(MCOpLists)
SafeContent == Closure(SafeOps)

MCApplyOps(windows, ops) == Lists!ApplyDiffOps(windows, ops)

MCHasResync(ops) == Lists!HasSnapshotResync(ops)

MCResyncSignal == << Lists!ResyncOp >>

\* In step, ahead of the cache, behind it, and going nowhere.
MCDiffRevs == {<<1, 2>>, <<2, 3>>, <<3, 5>>, <<2, 2>>}

=============================================================================
