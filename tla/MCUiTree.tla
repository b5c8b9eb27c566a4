------------------------------ MODULE MCUiTree ------------------------------
(***************************************************************************)
(* Long sequences of diff operations on one snapshot, checked against a    *)
(* table of nodes: the tree walks of vmui-core must do what the same       *)
(* operation means on a flat set of <<id, parent, window, ...>> rows.      *)
(* Element ids are unique here; the operations are free to name windows    *)
(* and elements that do not exist.                                         *)
(***************************************************************************)
EXTENDS UiTree

CONSTANTS Windows, MaxNodes

VARIABLE windows

Leaf(id) == Node(id, 0, << >>)

Root(w) == <<"root1", "root2">>[w]

Window(w, attr, children) ==
    [id |-> w, root |-> reparent_subtree(Node(Root(w), attr, children), NoElement)]

\* Subtrees a backend may send: a leaf, a focused leaf, a node with a child.
Subtrees ==
    { Leaf("a"), [Leaf("b") EXCEPT !.focused = TRUE],
      reparent_subtree(Node("c", 0, << Leaf("a") >>), NoElement) }

Elements == {"a", "b", "c"} \cup { Root(w) : w \in Windows }

Ops ==
    [op : {"WindowAdded"},
     window : { Window(w, 0, s) : w \in Windows, s \in {<< >>} \cup { <<t>> : t \in Subtrees } }]
    \cup [op : {"WindowRemoved"}, window_id : Windows]
    \cup [op : {"NodeAdded"}, parent_id : Elements, node : Subtrees]
    \cup [op : {"NodeRemoved"}, element_id : Elements]
    \cup [op : {"NodeReplaced"}, element_id : Elements, node : Subtrees]
    \cup [op : {"PropertyChanged"}, element_id : Elements, attr : {1}, valid : BOOLEAN]
    \cup [op : {"FocusChanged"}, window_id : Windows, element_id : Elements \cup {NoElement}]

-----------------------------------------------------------------------------
(* The table: one row per node.                                            *)

RECURSIVE Rows(_, _)
Rows(node, w) ==
    { [id |-> node.id, parent |-> node.parent, window |-> w,
       attr |-> node.attr, focused |-> node.focused] }
    \cup UNION { Rows(node.children[i], w) : i \in DOMAIN node.children }

Table(ws) == UNION { Rows(ws[i].root, ws[i].id) : i \in DOMAIN ws }

Ids(rows) == { r.id : r \in rows }

\* The rows of e and of everything below it.
RECURSIVE Below(_, _)
Below(rows, e) ==
    { r \in rows : r.id = e }
    \cup UNION { Below(rows, r.id) : r \in { c \in rows : c.parent = e } }

RowOf(rows, e) == CHOOSE r \in rows : r.id = e

\* What the operation means: does it succeed, and the table it leaves.
Outcome(rows, op) ==
    CASE op.op = "WindowAdded" ->
           [ok |-> TRUE, rows |-> { r \in rows : r.window # op.window.id }
                                     \cup Rows(op.window.root, op.window.id)]
      [] op.op = "WindowRemoved" ->
           [ok |-> \E r \in rows : r.window = op.window_id,
            rows |-> { r \in rows : r.window # op.window_id }]
      [] op.op = "NodeAdded" ->
           IF op.parent_id \notin Ids(rows) THEN [ok |-> FALSE, rows |-> rows]
           ELSE [ok |-> TRUE,
                 rows |-> (rows \ Below(rows, op.node.id))
                            \cup Rows([op.node EXCEPT !.parent = op.parent_id],
                                      RowOf(rows, op.parent_id).window)]
      [] op.op = "NodeRemoved" ->
           IF \E r \in rows : r.id = op.element_id /\ r.parent # NoElement
             THEN [ok |-> TRUE, rows |-> rows \ Below(rows, op.element_id)]
             ELSE [ok |-> FALSE, rows |-> rows]
      [] op.op = "NodeReplaced" ->
           IF op.element_id \notin Ids(rows) THEN [ok |-> FALSE, rows |-> rows]
           ELSE LET old == RowOf(rows, op.element_id)
                IN  [ok |-> TRUE,
                     rows |-> (rows \ Below(rows, op.element_id))
                                \cup Rows([op.node EXCEPT !.parent = old.parent], old.window)]
      [] op.op = "PropertyChanged" ->
           IF op.element_id \notin Ids(rows) \/ ~op.valid THEN [ok |-> FALSE, rows |-> rows]
           ELSE [ok |-> TRUE,
                 rows |-> { IF r.id = op.element_id THEN [r EXCEPT !.attr = op.attr] ELSE r
                            : r \in rows }]
      [] op.op = "FocusChanged" ->
           [ok |-> /\ \E r \in rows : r.window = op.window_id
                   /\ \/ op.element_id = NoElement
                      \/ \E r \in rows : r.window = op.window_id /\ r.id = op.element_id,
            rows |-> { IF r.window = op.window_id
                         THEN [r EXCEPT !.focused = (r.id = op.element_id)] ELSE r
                       : r \in rows }]

-----------------------------------------------------------------------------

\* The ids an operation brings in are new, or replace their old bearers.
KeepsIdsUnique(op) ==
    LET rows == Table(windows)
        kept == CASE op.op = "WindowAdded"  -> { r \in rows : r.window # op.window.id }
                  [] op.op = "NodeAdded"    ->
                         { r \in rows : ~\E o \in Below(rows, op.node.id) :
                                            o = r /\ RowOf(rows, op.node.id).parent = op.parent_id }
                  [] op.op = "NodeReplaced" -> rows \ Below(rows, op.element_id)
        new  == IF op.op = "WindowAdded" THEN op.window.root ELSE op.node
    IN  op.op \in {"WindowAdded", "NodeAdded", "NodeReplaced"} =>
            Ids(kept) \cap Ids(Rows(new, 0)) = {}

Init == windows = << >>

Fits(op) ==
    /\ KeepsIdsUnique(op)
    /\ Cardinality(Outcome(Table(windows), op).rows) <= MaxNodes

Next ==
    \E op \in Ops :
        /\ Fits(op)
        /\ windows' = Lists!sort_windows(Lists!apply_diff_op(windows, op).content)

Spec == Init /\ [][Next]_windows

-----------------------------------------------------------------------------

(***************************************************************************)
(* In every snapshot that operations can lead to, each operation succeeds  *)
(* exactly when the table says so and leaves the table's rows: no node is  *)
(* lost, doubled, left under a stale parent or changed in another window,  *)
(* also when the operation fails.                                          *)
(***************************************************************************)
TreeMatchesTable ==
    \A op \in Ops :
        Fits(op) =>
            LET result   == Lists!apply_diff_op(windows, op)
                expected == Outcome(Table(windows), op)
            IN  result.ok = expected.ok /\ Table(result.content) = expected.rows

=============================================================================
