---------------------------- MODULE WindowIdentity ----------------------------
(***************************************************************************)
(* How vmui-platform-windows turns what it reads from the desktop into     *)
(* windows with ids, and keeps the ids of elements it has seen before.     *)
(*                                                                         *)
(* A raw node is what UI Automation shows of a control: [ctype, class,     *)
(* auto, name, handle, bounds, focused, children].  An open window is      *)
(* [pid, process_name, title, root].                                       *)
(***************************************************************************)
EXTENDS DomainProfile, WindowMatching

CONSTANTS
    Hash(_),    \* stable_hash of a window fingerprint: injective, a natural
    MaxDepth    \* how deep a tree is read (4, or 1 for a shallow session)

ASSUME NoneAssumption == None = NoElement

-----------------------------------------------------------------------------
(* Capturing a window.                                                     *)

\* All nodes of a raw tree.
RECURSIVE RawNodes(_)
RawNodes(raw) == {raw} \cup UNION {RawNodes(raw.children[i]) : i \in DOMAIN raw.children}

locator_signature(raw) == <<raw.ctype, raw.class, raw.auto, raw.name>>

\* build_child_locator_segments: an ordinal only where signatures repeat.
Segment(raws, i) ==
    LET twins == {j \in DOMAIN raws : locator_signature(raws[j]) = locator_signature(raws[i])}
    IN  [sig |-> locator_signature(raws[i]),
         ordinal |-> IF Cardinality(twins) = 1 THEN None
                     ELSE Cardinality({j \in twins : j < i})]

\* read_uia_tree: nothing below the given depth.
RECURSIVE read_uia_tree(_, _)
read_uia_tree(raw, depth) ==
    [raw EXCEPT !.children = IF depth = 0 THEN << >>
                             ELSE [i \in DOMAIN @ |-> read_uia_tree(@[i], depth - 1)]]

Element(id, parent, raw, segment, backend, children) ==
    [id |-> id, parent |-> parent, focused |-> raw.focused, children |-> children,
     attr |-> [ctype |-> raw.ctype, class |-> raw.class, auto |-> raw.auto, name |-> raw.name,
               handle |-> raw.handle, bounds |-> raw.bounds, segment |-> segment,
               backend |-> backend, notes |-> None]]

\* The id of an element is the hash of its window's fingerprint and its path.
RECURSIVE materialize_node(_, _, _, _)
materialize_node(raw, fingerprint, parent, path) ==
    LET id == <<fingerprint, path>>
    IN  Element(id, parent, raw, IF path = << >> THEN None ELSE Last(path), "Uia",
                [i \in DOMAIN raw.children |->
                    materialize_node(raw.children[i], fingerprint, id,
                                     Append(path, Segment(raw.children, i)))])

WindowState(fingerprint, open, backend, root) ==
    [id |-> Hash(fingerprint), pid |-> open.pid, process_name |-> open.process_name,
     title |-> open.title, backend |-> backend, root |-> root]

capture_uia_window(hwnd, open) ==
    LET raw         == read_uia_tree(open.root, MaxDepth)
        fingerprint == <<"uia", open.pid, hwnd, raw.class, open.title, raw.name>>
    IN  WindowState(fingerprint, open, "Uia", materialize_node(raw, fingerprint, None, << >>))

\* The root only, under a fingerprint and a control type of its own.
capture_msaa_window(hwnd, open) ==
    LET fingerprint == <<"msaa", open.pid, hwnd, "msaa_role", open.title>>
        raw         == [open.root EXCEPT !.ctype = "msaa_role", !.auto = None, !.handle = hwnd,
                                         !.focused = FALSE, !.children = << >>]
    IN  WindowState(fingerprint, open, "Msaa",
                    Element(<<fingerprint, << >>>>, None, raw, None, "Msaa", << >>))

Captured(hwnd, open, backend) ==
    IF backend = "Uia" THEN capture_uia_window(hwnd, open) ELSE capture_msaa_window(hwnd, open)

-----------------------------------------------------------------------------
(* Keeping ids.                                                            *)

\* An Option, as for windows.
element_match_score(previous, current) ==
    LET p == previous.attr
        c == current.attr
        possible == /\ p.ctype = c.ctype
                    /\ p.handle # None /\ c.handle # None => p.handle = c.handle
        score == 100 + Times(Same(p.handle, c.handle), 1000) + Times(Same(p.auto, c.auto), 300)
               + Times(Same(p.class, c.class), 120) + Times(Same(p.name, c.name), 120)
               + Times(p.segment = c.segment, 40) + Times(p.bounds = c.bounds, 40)
    IN  IF possible /\ score >= 220 THEN {score} ELSE {}

element_scores(previous, current) ==
    [i \in DOMAIN current |->
        [j \in DOMAIN previous |-> element_match_score(previous[j], current[i])]]

\* Mutant: the element itself keeps its id, those below it do not.
MutStabilizeRootOnly(previous, current, parent) ==
    [current EXCEPT
        !.id = previous.id, !.parent = parent,
        !.children = [i \in DOMAIN @ |-> reparent_subtree(@[i], previous.id)]]

RECURSIVE stabilize_element(_, _, _)
stabilize_element(previous, current, parent) ==
    LET match == Matching(element_scores(previous.children, current.children))
    IN  [current EXCEPT
            !.id = previous.id, !.parent = parent,
            !.children = [i \in DOMAIN @ |->
                IF match[i] = {} THEN reparent_subtree(@[i], previous.id)
                ELSE stabilize_element(previous.children[Max(match[i])], @[i], previous.id)]]

stabilize_window(previous, current) ==
    [current EXCEPT !.id = previous.id, !.root = stabilize_element(previous.root, @, None)]

-----------------------------------------------------------------------------
(* What diff_snapshots looks for in a tree.                                *)

\* A depth-first search: the first focused node.
RECURSIVE focused_element_id(_)
focused_element_id(node) ==
    LET below == {i \in DOMAIN node.children : focused_element_id(node.children[i]) # None}
    IN  IF node.focused THEN node.id
        ELSE IF below = {} THEN None
        ELSE focused_element_id(node.children[Min(below)])

-----------------------------------------------------------------------------
(* What the properties look at.                                            *)

\* A window without the ids it was given.
RECURSIVE Bare(_)
Bare(node) == [attr |-> [node.attr EXCEPT !.segment = None], focused |-> node.focused,
               children |-> [i \in DOMAIN node.children |-> Bare(node.children[i])]]

BareWindow(w) == [w EXCEPT !.id = 0, !.root = Bare(@)]

RECURSIVE IdCount(_)
IdCount(node) == 1 + FoldSeq(LAMBDA c, n : n + IdCount(c), 0, node.children)

\* Equal ids or two focused nodes.
AmbiguousWindow(w) ==
    LET nodes == NodesOf(w.root)
    IN  \/ Cardinality({n.id : n \in nodes}) < IdCount(w.root)
        \/ Cardinality({n \in nodes : n.focused}) > 1

=============================================================================
