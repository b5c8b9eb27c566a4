----------------------------- MODULE SnapshotDiff -----------------------------
(***************************************************************************)
(* The DiffOps that turn one snapshot into the next (vmui-platform-        *)
(* windows, diff_snapshots): window by window in the order of their ids.   *)
(***************************************************************************)
EXTENDS WindowList

CONSTANT FocusOf(_)    \* root: focused_element_id

\* The members of a set of numbers, in order.
Ascending(S) ==
    CHOOSE q \in [1 .. Cardinality(S) -> S] : \A i, j \in DOMAIN q : i < j => q[i] < q[j]

same_window_shell(left, right) ==
    \A field \in {"id", "pid", "process_name", "title", "backend"} : left[field] = right[field]

FocusOps(previous, next) ==
    IF FocusOf(previous.root) = FocusOf(next.root) THEN << >>
    ELSE << [op |-> "FocusChanged", window_id |-> next.id, element_id |-> FocusOf(next.root)] >>

\* Mutant: the window is added before its old self is removed.
MutChangeOpsAddsFirst(previous, next) ==
    (IF ~same_window_shell(previous, next)
       THEN << [op |-> "WindowAdded", window |-> next],
               [op |-> "WindowRemoved", window_id |-> next.id] >>
     ELSE IF previous.root # next.root
       THEN << [op |-> "NodeReplaced", element_id |-> previous.root.id, node |-> next.root] >>
     ELSE << >>)
    \o FocusOps(previous, next)

ChangeOps(previous, next) ==
    (IF ~same_window_shell(previous, next)
       THEN << [op |-> "WindowRemoved", window_id |-> next.id],
               [op |-> "WindowAdded", window |-> next] >>
     ELSE IF previous.root # next.root
       THEN << [op |-> "NodeReplaced", element_id |-> previous.root.id, node |-> next.root] >>
     ELSE << >>)
    \o FocusOps(previous, next)

\* A BTreeMap keeps the last of two windows with one id.
OpsOf(previous, next, id) ==
    LET old == Index(previous, id)
        new == Index(next, id)
    IN  IF old = {} THEN << [op |-> "WindowAdded", window |-> next[Max(new)]] >>
        ELSE IF new = {} THEN << [op |-> "WindowRemoved", window_id |-> id] >>
        ELSE ChangeOps(previous[Max(old)], next[Max(new)])

window_ids(previous, next) ==
    Ascending({previous[i].id : i \in DOMAIN previous} \cup {next[i].id : i \in DOMAIN next})

\* The operations for the first n ids.
OpsUpTo(previous, next) ==
    LET ids == window_ids(previous, next)
        ops[n \in 0 .. Len(ids)] ==
            IF n = 0 THEN << >> ELSE ops[n - 1] \o OpsOf(previous, next, ids[n])
    IN  ops

diff_snapshots(previous, next) ==
    OpsUpTo(previous, next)[Len(window_ids(previous, next))]

=============================================================================
