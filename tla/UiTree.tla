------------------------------- MODULE UiTree -------------------------------
(***************************************************************************)
(* The tree of a window and what a DiffOp does to it (vmui-core, the       *)
(* helpers of apply_diff_op).  A node keeps its id, the id of its parent,  *)
(* whether it has the focus, one attribute that stands for all its         *)
(* properties, and its children.                                           *)
(***************************************************************************)
EXTENDS Naturals, Sequences, SequencesExt, FiniteSetsExt

CONSTANT NoElement                       \* `None` where an element id is optional

Node(id, attr, children) ==
    [id |-> id, attr |-> attr, children |-> children, focused |-> FALSE,
     parent |-> NoElement]

\* find_node_mut_in_tree: the indices that lead to the first match in preorder.
RECURSIVE Has(_, _)
Has(node, e) == node.id = e \/ \E i \in DOMAIN node.children : Has(node.children[i], e)

RECURSIVE PathTo(_, _)
PathTo(node, e) ==
    IF node.id = e THEN << >>
    ELSE LET i == Min({j \in DOMAIN node.children : Has(node.children[j], e)})
         IN  <<i>> \o PathTo(node.children[i], e)

RECURSIVE At(_, _)
At(node, path) ==
    IF path = << >> THEN node ELSE At(node.children[Head(path)], Tail(path))

RECURSIVE Put(_, _, _)
Put(node, path, new) ==
    IF path = << >> THEN new
    ELSE [node EXCEPT !.children[Head(path)] = Put(@, Tail(path), new)]

\* remove_node_from_children, replace_node_in_tree: below the root, and the
\* children of a node are compared before the search goes deeper.
HasBelow(node, e) == \E i \in DOMAIN node.children : Has(node.children[i], e)

RECURSIVE ParentPathTo(_, _)
ParentPathTo(node, e) ==
    IF \E i \in DOMAIN node.children : node.children[i].id = e THEN << >>
    ELSE LET i == Min({j \in DOMAIN node.children : HasBelow(node.children[j], e)})
         IN  <<i>> \o ParentPathTo(node.children[i], e)

ChildIndex(node, e) == Min({i \in DOMAIN node.children : node.children[i].id = e})

RECURSIVE reparent_subtree(_, _)
reparent_subtree(node, parent) ==
    [node EXCEPT !.parent = parent,
                 !.children = [i \in DOMAIN @ |-> reparent_subtree(@[i], node.id)]]

RECURSIVE clear_focus(_)
clear_focus(node) ==
    [node EXCEPT !.focused = FALSE,
                 !.children = [i \in DOMAIN @ |-> clear_focus(@[i])]]

-----------------------------------------------------------------------------
(* What the operations do to the tree of the window they find.             *)

add_to_tree(root, parent_id, node) ==
    LET path   == PathTo(root, parent_id)
        parent == At(root, path)
        child  == reparent_subtree(node, parent_id)
    IN  Put(root, path,
            IF \E j \in DOMAIN parent.children : parent.children[j].id = node.id
              THEN [parent EXCEPT !.children[ChildIndex(parent, node.id)] = child]
              ELSE [parent EXCEPT !.children = Append(@, child)])

remove_node_from_children(root, e) ==
    LET path   == ParentPathTo(root, e)
        parent == At(root, path)
    IN  Put(root, path, [parent EXCEPT !.children = RemoveAt(@, ChildIndex(parent, e))])

\* Mutant: the replacement keeps the parent it came with.
MutReplaceNodeNotReparented(root, e, node) ==
    LET path   == ParentPathTo(root, e)
        parent == At(root, path)
    IN  IF root.id = e THEN node
        ELSE Put(root, path, [parent EXCEPT !.children[ChildIndex(parent, e)] = node])

replace_node_in_tree(root, e, node) ==
    LET path   == ParentPathTo(root, e)
        parent == At(root, path)
    IN  IF root.id = e THEN reparent_subtree(node, NoElement)
        ELSE Put(root, path, [parent EXCEPT !.children[ChildIndex(parent, e)] =
                                 reparent_subtree(node, parent.id)])

change_property(root, e, attr) ==
    LET path == PathTo(root, e)
    IN  Put(root, path, [At(root, path) EXCEPT !.attr = attr])

set_focus(root, e) ==
    LET path == PathTo(root, e)
    IN  Put(root, path, [At(root, path) EXCEPT !.focused = TRUE])

Lists == INSTANCE WindowList
    WITH NoFocus <- NoElement, InTree <- Has, BelowRoot <- HasBelow,
         WithChild <- add_to_tree, WithoutNode <- remove_node_from_children,
         WithNode <- replace_node_in_tree, WithAttr <- change_property,
         WithoutFocus <- clear_focus, WithFocus <- set_focus

=============================================================================
