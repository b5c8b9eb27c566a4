------------------------------ MODULE WindowList ------------------------------
(***************************************************************************)
(* What a list of DiffOps does to the windows of a snapshot (vmui-core,    *)
(* UiStateStore::apply_diff and apply_diff_op).  A snapshot is a sequence  *)
(* of windows, whose order decides which of two equal ids is found.  The   *)
(* tree below a window's root is a parameter; module UiTree gives it.      *)
(***************************************************************************)
EXTENDS Naturals, Sequences, FiniteSetsExt

CONSTANTS
    NoFocus,             \* FocusChanged without an element
    InTree(_, _),        \* root, element: is there such a node?
    BelowRoot(_, _),     \* root, element: is there one below the root?
    WithChild(_, _, _),  \* root, parent, node
    WithoutNode(_, _),   \* root, element
    WithNode(_, _, _),   \* root, element, the node in its place
    WithAttr(_, _, _),   \* root, element, its new properties
    WithoutFocus(_),     \* root
    WithFocus(_, _)      \* root, element

Done(windows)   == [ok |-> TRUE, content |-> windows]
Failed(windows) == [ok |-> FALSE, content |-> windows]

Index(windows, w) == {i \in DOMAIN windows : windows[i].id = w}
Holding(windows, e) == {i \in DOMAIN windows : InTree(windows[i].root, e)}
HoldingBelow(windows, e) == {i \in DOMAIN windows : BelowRoot(windows[i].root, e)}

-----------------------------------------------------------------------------
(* The operations: each gives [ok, content].                               *)

upsert_window(windows, window) ==
    LET found == Index(windows, window.id)
    IN  Done(IF found = {} THEN Append(windows, window)
             ELSE [windows EXCEPT ![Min(found)] = window])

\* Vec::remove: the windows behind move up.
remove_window(windows, w) ==
    LET found == Index(windows, w)
    IN  IF found = {} THEN Failed(windows)
        ELSE Done([i \in 1 .. Len(windows) - 1 |->
                      IF i < Min(found) THEN windows[i] ELSE windows[i + 1]])

add_node(windows, parent_id, node) ==
    LET found == Holding(windows, parent_id)
    IN  IF found = {} THEN Failed(windows)
        ELSE Done([windows EXCEPT ![Min(found)].root = WithChild(@, parent_id, node)])

\* A window's root cannot be removed, only nodes below it.
remove_node(windows, e) ==
    LET found == HoldingBelow(windows, e)
    IN  IF found = {} THEN Failed(windows)
        ELSE Done([windows EXCEPT ![Min(found)].root = WithoutNode(@, e)])

replace_node(windows, e, node) ==
    LET found == Holding(windows, e)
    IN  IF found = {} THEN Failed(windows)
        ELSE Done([windows EXCEPT ![Min(found)].root = WithNode(@, e, node)])

\* valid: the value has the type the field needs (InvalidPropertyUpdate).
apply_property_change(windows, e, attr, valid) ==
    LET found == Holding(windows, e)
    IN  IF found = {} \/ ~valid THEN Failed(windows)
        ELSE Done([windows EXCEPT ![Min(found)].root = WithAttr(@, e, attr)])

\* The old focus is cleared before the new element is looked up.
apply_focus_change(windows, w, e) ==
    LET found   == Index(windows, w)
        i       == Min(found)
        cleared == WithoutFocus(windows[i].root)
    IN  IF found = {} THEN Failed(windows)
        ELSE IF e = NoFocus THEN Done([windows EXCEPT ![i].root = cleared])
        ELSE IF ~InTree(cleared, e) THEN Failed([windows EXCEPT ![i].root = cleared])
        ELSE Done([windows EXCEPT ![i].root = WithFocus(cleared, e)])

apply_diff_op(windows, op) ==
    CASE op.op = "WindowAdded"     -> upsert_window(windows, op.window)
      [] op.op = "WindowRemoved"   -> remove_window(windows, op.window_id)
      [] op.op = "NodeAdded"       -> add_node(windows, op.parent_id, op.node)
      [] op.op = "NodeRemoved"     -> remove_node(windows, op.element_id)
      [] op.op = "NodeReplaced"    -> replace_node(windows, op.element_id, op.node)
      [] op.op = "PropertyChanged" ->
             apply_property_change(windows, op.element_id, op.attr, op.valid)
      [] op.op = "FocusChanged"    ->
             apply_focus_change(windows, op.window_id, op.element_id)
      [] op.op = "SnapshotResync"  -> Done(windows)

-----------------------------------------------------------------------------
(* The loop.                                                               *)

\* A stable sort by id: the place of a window is the number of windows before it.
sort_windows(windows) ==
    LET Before(i, j) == \/ windows[i].id < windows[j].id
                        \/ windows[i].id = windows[j].id /\ i < j
        Place(j) == Cardinality({i \in DOMAIN windows : Before(i, j)}) + 1
    IN  [n \in DOMAIN windows |-> windows[CHOOSE j \in DOMAIN windows : Place(j) = n]]

\* The first n operations: the first that fails is the last that does anything.
Run(windows, ops) ==
    LET run[n \in 0 .. Len(ops)] ==
            IF n = 0 THEN Done(windows)
            ELSE LET before == run[n - 1]
                 IN  IF before.ok THEN apply_diff_op(before.content, ops[n]) ELSE before
    IN  run

\* What was done is kept; the windows are sorted only on success.
ApplyDiffOps(windows, ops) ==
    LET run == Run(windows, ops)[Len(ops)]
    IN  IF run.ok THEN Done(sort_windows(run.content)) ELSE run

ResyncOp == [op |-> "SnapshotResync"]

HasSnapshotResync(ops) == \E i \in DOMAIN ops : ops[i].op = "SnapshotResync"

=============================================================================
