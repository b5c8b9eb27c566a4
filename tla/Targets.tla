------------------------------- MODULE Targets -------------------------------
(***************************************************************************)
(* What the target of an action denotes in a snapshot: resolution of       *)
(* windows and elements, the enrichment every action starts with, the      *)
(* conditions of wait_for, and the parts of a snapshot that get_tree,      *)
(* write_artifact and the diagnostic bundle select.                        *)
(*                                                                         *)
(* A snapshot is a sequence of windows; the element tree of a window is    *)
(* the sequence of its nodes in preorder, each with its depth, the root    *)
(* first: all searches of the code are depth first.  An Option is a set    *)
(* of at most one element.                                                 *)
(***************************************************************************)
EXTENDS Naturals, Sequences, FiniteSets

CONSTANT None    \* a value no name, number or locator has

\* The criteria of a WindowLocator besides window_id.
WindowCriteria == {"title", "pid", "process_name", "class_name"}

Conditions == {"Exists", "Visible", "Enabled", "Focused", "Gone"}

\* Iterator::find: of the windows at these places, the first.
FirstOf(snapshot, hits) == {snapshot[i] : i \in {x \in hits : \A y \in hits : x <= y}}

window_by_id(snapshot, id) ==
    FirstOf(snapshot, {i \in DOMAIN snapshot : snapshot[i].window_id = id})

\* By id alone when it is given; without any criterion, the only window.
resolve_window(snapshot, locator) ==
    LET given == {c \in WindowCriteria : locator[c] # None}
    IN IF locator.window_id # None THEN window_by_id(snapshot, locator.window_id)
       ELSE IF given # {}
         THEN FirstOf(snapshot,
                      {i \in DOMAIN snapshot : \A c \in given : snapshot[i][c] = locator[c]})
       ELSE IF Len(snapshot) = 1 THEN {snapshot[1]}
       ELSE {}

\* Of the nodes at these <<window, position>>, the first in preorder of the first window.
find_element(snapshot, hits) ==
    {[window |-> snapshot[h[1]], at |-> h[2]] :
        h \in {x \in hits : \A y \in hits : x[1] < y[1] \/ (x[1] = y[1] /\ x[2] <= y[2])}}

Places(snapshot) == UNION {{i} \X DOMAIN snapshot[i].nodes : i \in DOMAIN snapshot}

find_element_by_id(snapshot, id) ==
    find_element(snapshot, {x \in Places(snapshot) : snapshot[x[1]].nodes[x[2]].element_id = id})

\* Windows of another fingerprint are not searched.
find_element_by_locator(snapshot, locator) ==
    find_element(snapshot, {x \in Places(snapshot) :
        LET nodes == snapshot[x[1]].nodes
        IN /\ nodes[1].locator.window_fingerprint = locator.window_fingerprint
           /\ nodes[x[2]].locator = locator})

\* By id first; an id that is not there falls back to the locator.
resolve_element(snapshot, target) ==
    LET by_id == IF target.element_id = None THEN {}
                 ELSE find_element_by_id(snapshot, target.element_id)
    IN IF by_id # {} THEN by_id
       ELSE IF target.locator = None THEN {}
       ELSE find_element_by_locator(snapshot, target.locator)

Node(element) == element.window.nodes[element.at]

subtree_has_focus(window) == \E i \in DOMAIN window.nodes : window.nodes[i].focused

IfNone(value, default) == IF value = None THEN default ELSE value

\* Mutant: the id of the window's root is filled in for the element's.
MutEnrichedRoot(snapshot, target) ==
    CASE target.kind = "Window" ->
           LET found == resolve_window(snapshot, target.locator)
           IN IF found = {} THEN target
              ELSE LET w == CHOOSE w \in found : TRUE
                   IN [target EXCEPT !.locator.window_id = IfNone(@, w.window_id),
                                     !.locator.title = IfNone(@, w.title),
                                     !.locator.pid = IfNone(@, w.pid)]
      [] target.kind = "Element" ->
           LET found == resolve_element(snapshot, target)
           IN IF found = {} THEN target
              ELSE LET node == Node(CHOOSE e \in found : TRUE)
                       root == (CHOOSE e \in found : TRUE).window.nodes[1]
                   IN [target EXCEPT !.element_id = IfNone(@, root.element_id),
                                     !.locator = IfNone(@, node.locator)]
      [] target.kind = "Region" ->
           IF target.window_id = None /\ Len(snapshot) = 1
             THEN [target EXCEPT !.window_id = snapshot[1].window_id]
             ELSE target
      [] OTHER -> target

\* enrich_action_target: what the caller left open is filled in from the snapshot.
Enriched(snapshot, target) ==
    CASE target.kind = "Window" ->
           LET found == resolve_window(snapshot, target.locator)
           IN IF found = {} THEN target
              ELSE LET w == CHOOSE w \in found : TRUE
                   IN [target EXCEPT !.locator.window_id = IfNone(@, w.window_id),
                                     !.locator.title = IfNone(@, w.title),
                                     !.locator.pid = IfNone(@, w.pid)]
      [] target.kind = "Element" ->
           LET found == resolve_element(snapshot, target)
           IN IF found = {} THEN target
              ELSE LET node == Node(CHOOSE e \in found : TRUE)
                   IN [target EXCEPT !.element_id = IfNone(@, node.element_id),
                                     !.locator = IfNone(@, node.locator)]
      [] target.kind = "Region" ->
           IF target.window_id = None /\ Len(snapshot) = 1
             THEN [target EXCEPT !.window_id = snapshot[1].window_id]
             ELSE target
      [] OTHER -> target

DesktopMatches(snapshot, condition) ==
    \/ condition \in {"Exists", "Visible", "Enabled"}
    \/ condition = "Focused" /\ \E i \in DOMAIN snapshot : subtree_has_focus(snapshot[i])

WindowMatches(found, condition) ==
    \/ condition = "Exists"  /\ found # {}
    \/ condition = "Gone"    /\ found = {}
    \/ condition = "Visible" /\ \E w \in found : w.nodes[1].visible /\ w.sized
    \/ condition = "Enabled" /\ \E w \in found : w.nodes[1].enabled
    \/ condition = "Focused" /\ \E w \in found : subtree_has_focus(w)

ElementMatches(found, condition) ==
    \/ condition = "Exists"  /\ found # {}
    \/ condition = "Gone"    /\ found = {}
    \/ condition = "Visible" /\ \E e \in found : Node(e).visible
    \/ condition = "Enabled" /\ \E e \in found : Node(e).enabled
    \/ condition = "Focused" /\ \E e \in found : Node(e).focused

RegionMatches(snapshot, window_id, condition) ==
    LET present == window_id = None \/ window_by_id(snapshot, window_id) # {}
    IN \/ condition \in {"Exists", "Visible", "Enabled"} /\ present
       \/ condition = "Gone" /\ ~present

wait_condition_matches(snapshot, target, condition) ==
    CASE target.kind = "Desktop" -> DesktopMatches(snapshot, condition)
      [] target.kind = "Window"  -> WindowMatches(resolve_window(snapshot, target.locator), condition)
      [] target.kind = "Element" -> ElementMatches(resolve_element(snapshot, target), condition)
      [] target.kind = "Region"  -> RegionMatches(snapshot, target.window_id, condition)

-----------------------------------------------------------------------------
(* What the program can be given.                                          *)

TargetOK(target) ==
    \/ target.kind = "Desktop"
    \/ /\ target.kind = "Window" /\ DOMAIN target = {"kind", "locator"}
       /\ DOMAIN target.locator = WindowCriteria \cup {"window_id"}
    \/ target.kind = "Element" /\ DOMAIN target = {"kind", "element_id", "locator"}
    \/ target.kind = "Region" /\ DOMAIN target = {"kind", "window_id"}

\* Windows and nodes are sequences; no two windows have one id.  Elements may: the ids
\* of the Windows backend are matched from one capture to the next and can repeat.
SnapshotOK(snapshot) ==
    /\ Len(snapshot) \in Nat /\ DOMAIN snapshot = 1 .. Len(snapshot)
    /\ \A i \in DOMAIN snapshot :
         LET nodes == snapshot[i].nodes
         IN  /\ Len(nodes) \in Nat /\ DOMAIN nodes = 1 .. Len(nodes)
             /\ \A k \in DOMAIN nodes : nodes[k].depth \in Nat
    /\ \A i, j \in DOMAIN snapshot :
         /\ snapshot[i].window_id # None
         /\ snapshot[i].window_id = snapshot[j].window_id => i = j

-----------------------------------------------------------------------------
(* The parts of a snapshot that actions select.                            *)

\* Mutant: later siblings count as part of the subtree.
MutSubtreeSiblings(nodes, i) ==
    LET ends == {j \in i .. Len(nodes) : \A k \in i + 1 .. j : nodes[k].depth >= nodes[i].depth}
    IN SubSeq(nodes, i, CHOOSE j \in ends : \A k \in ends : k <= j)

\* The nodes below and including nodes[i]: the next ones that lie deeper.
Subtree(nodes, i) ==
    LET ends == {j \in i .. Len(nodes) : \A k \in i + 1 .. j : nodes[k].depth > nodes[i].depth}
    IN SubSeq(nodes, i, CHOOSE j \in ends : \A k \in ends : k <= j)

\* truncate_node_depth; max_depth None keeps the whole tree.
Truncated(nodes, max_depth) ==
    IF max_depth = None THEN nodes
    ELSE SelectSeq(nodes, LAMBDA n : n.depth <= nodes[1].depth + max_depth)

\* build_tree_payload: the trees an action stores, or none.
TreePayload(snapshot, target, max_depth) ==
    CASE target.kind = "Desktop" ->
           {[i \in DOMAIN snapshot |-> Truncated(snapshot[i].nodes, max_depth)]}
      [] target.kind = "Window" ->
           {<<Truncated(w.nodes, max_depth)>> : w \in resolve_window(snapshot, target.locator)}
      [] target.kind = "Element" ->
           {<<Truncated(Subtree(e.window.nodes, e.at), max_depth)>> :
                e \in resolve_element(snapshot, target)}
      [] target.kind = "Region" -> {}

\* build_diagnostic_capture_target: the window a capture of the target is relative to.
CaptureWindow(snapshot, target) ==
    CASE target.kind = "Desktop" -> {}
      [] target.kind = "Window"  -> {w.window_id : w \in resolve_window(snapshot, target.locator)}
      [] target.kind = "Element" -> {e.window.window_id : e \in resolve_element(snapshot, target)}
      [] target.kind = "Region"  -> {target.window_id}

FallbackIn(nodes) == {nodes[i].element_id : i \in {j \in DOMAIN nodes : nodes[j].fallback}}

\* collect_fallback_surfaces: the elements read with degraded means.
FallbackSurfaces(snapshot, target) ==
    CASE target.kind = "Desktop" -> UNION {FallbackIn(snapshot[i].nodes) : i \in DOMAIN snapshot}
      [] target.kind = "Window" ->
           UNION {FallbackIn(w.nodes) : w \in resolve_window(snapshot, target.locator)}
      [] target.kind = "Element" ->
           UNION {FallbackIn(Subtree(e.window.nodes, e.at)) : e \in resolve_element(snapshot, target)}
      [] target.kind = "Region" ->
           UNION {FallbackIn(w.nodes) : w \in window_by_id(snapshot, target.window_id)}

-----------------------------------------------------------------------------

\* Element i lies in the tree below a: a is the nearest shallower node before i, or above that.
Ancestors(nodes, i) ==
    {a \in 1 .. i : \A k \in a + 1 .. i : nodes[a].depth < nodes[k].depth}

\* No other element of the snapshot has this one's id.
HasIdAlone(snapshot, element) ==
    \A x \in Places(snapshot) :
        snapshot[x[1]].nodes[x[2]].element_id = Node(element).element_id
            => element = [window |-> snapshot[x[1]], at |-> x[2]]

(***************************************************************************)
(* Two targets mean the same.  Of a desktop, a window or a region: every   *)
(* condition holds of both or of neither.  Of an element: both are there   *)
(* or neither is, what they denote has the same id, and it is the same     *)
(* element where no other one has that id.                                 *)
(***************************************************************************)
MeanTheSame(snapshot, target, new) ==
    /\ target.kind # "Element" =>
         \A c \in Conditions : wait_condition_matches(snapshot, new, c)
                               = wait_condition_matches(snapshot, target, c)
    /\ target.kind = "Element" =>
         LET before == resolve_element(snapshot, target)
             after  == resolve_element(snapshot, new)
         IN  /\ before = {} <=> after = {}
             /\ \A e \in before, f \in after :
                  /\ Node(f).element_id = Node(e).element_id
                  /\ HasIdAlone(snapshot, e) => f = e

(***************************************************************************)
(* Actions agree on what a target is.  Of a desktop, a window or an        *)
(* element: wait_for Exists holds of it exactly when get_tree stores a     *)
(* tree for it, and the fallback surfaces reported for it are those of     *)
(* that tree.  Of an element: the tree is the element with all its         *)
(* descendants and nothing else, and a capture is relative to its window.  *)
(* Nothing is said of a region, which has no tree, and of the captures of  *)
(* windows and desktops, which are found by the same search.               *)
(***************************************************************************)
SelectionsAgreeOn(snapshot, target) ==
    /\ target.kind # "Region" =>
         /\ wait_condition_matches(snapshot, target, "Exists")
              <=> TreePayload(snapshot, target, None) # {}
         /\ FallbackSurfaces(snapshot, target)
              = UNION {UNION {FallbackIn(p[i]) : i \in DOMAIN p} :
                         p \in TreePayload(snapshot, target, None)}
    /\ target.kind = "Element" =>
         \A e \in resolve_element(snapshot, target), payload \in TreePayload(snapshot, target, None) :
            LET nodes == e.window.nodes
            IN /\ {payload[1][k] : k \in DOMAIN payload[1]}
                    = {nodes[i] : i \in {j \in e.at .. Len(nodes) : e.at \in Ancestors(nodes, j)}}
               /\ \E id \in CaptureWindow(snapshot, target) : e.window \in window_by_id(snapshot, id)

=============================================================================
