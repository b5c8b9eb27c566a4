---------------------------- MODULE WaitForProofs ----------------------------
(***************************************************************************)
(* Proofs about WaitFor, for every set of desktops, requests and bounds.   *)
(***************************************************************************)
EXTENDS WaitFor, SequenceTheorems, WellFoundedInduction, TLAPS

-----------------------------------------------------------------------------
(* The search for windows and elements.                                    *)

\* What window_by_id finds has the id.
LEMMA FoundHasId ==
    ASSUME NEW snapshot, NEW id, NEW w \in window_by_id(snapshot, id)
    PROVE  w.window_id = id
  BY DEF window_by_id, FirstOf

\* Where ids are distinct, it finds the window that has the id.
LEMMA WindowOfId ==
    ASSUME NEW snapshot, SnapshotOK(snapshot), NEW i \in DOMAIN snapshot
    PROVE  window_by_id(snapshot, snapshot[i].window_id) = {snapshot[i]}
  <1> DEFINE hits == {j \in DOMAIN snapshot : snapshot[j].window_id = snapshot[i].window_id}
  <1>1. hits = {i}
    BY DEF SnapshotOK
  <1>2. i <= i
    BY DEF SnapshotOK
  <1>3. {x \in hits : \A y \in hits : x <= y} = {i}
    BY <1>1, <1>2
  <1> QED BY <1>3 DEF window_by_id, FirstOf

\* What resolve_window finds is in the snapshot, and there is at most one.
LEMMA ResolvedWindow ==
    ASSUME NEW snapshot, SnapshotOK(snapshot), NEW locator
    PROVE  \/ resolve_window(snapshot, locator) = {}
           \/ \E i \in DOMAIN snapshot : resolve_window(snapshot, locator) = {snapshot[i]}
  <1>1. ASSUME NEW hits \in SUBSET DOMAIN snapshot
        PROVE  \/ FirstOf(snapshot, hits) = {}
               \/ \E i \in DOMAIN snapshot : FirstOf(snapshot, hits) = {snapshot[i]}
    <2> DEFINE first == {x \in hits : \A y \in hits : x <= y}
    <2>1. CASE first = {}
      BY <2>1 DEF FirstOf
    <2>2. CASE first # {}
      <3>1. PICK i \in first : TRUE
        BY <2>2
      <3>2. \A j \in first : j = i
        BY <3>1 DEF SnapshotOK
      <3>3. FirstOf(snapshot, hits) = {snapshot[i]}
        BY <3>1, <3>2 DEF FirstOf
      <3> QED BY <3>1, <3>3
    <2> QED BY <2>1, <2>2
  <1>2. Len(snapshot) = 1 => 1 \in DOMAIN snapshot
    BY DEF SnapshotOK
  <1> QED BY <1>1, <1>2 DEF resolve_window, window_by_id

\* Enrichment of a window target fixes the window it denotes.
LEMMA EnrichedWindow ==
    ASSUME NEW snapshot, SnapshotOK(snapshot), NEW target, TargetOK(target),
           target.kind = "Window",
           resolve_window(snapshot, target.locator) # {}
    PROVE  /\ Enriched(snapshot, target).kind = "Window"
           /\ \E w \in resolve_window(snapshot, target.locator) :
                 /\ resolve_window(snapshot, target.locator) = {w}
                 /\ Enriched(snapshot, target).locator.window_id = w.window_id
                 /\ w.window_id # None
                 /\ resolve_window(snapshot, Enriched(snapshot, target).locator) = {w}
  <1> DEFINE found == resolve_window(snapshot, target.locator)
             given == target.locator.window_id
             new   == Enriched(snapshot, target)
  <1>1. PICK i \in DOMAIN snapshot : found = {snapshot[i]}
    BY ResolvedWindow
  <1> DEFINE w == snapshot[i]
  <1>2. (CHOOSE v \in found : TRUE) = w
    BY <1>1
  <1>3. new = [target EXCEPT !.locator.window_id = IfNone(@, w.window_id),
                             !.locator.title = IfNone(@, w.title),
                             !.locator.pid = IfNone(@, w.pid)]
    BY <1>1, <1>2, Zenon DEF Enriched
  <1>4. new.kind = "Window" /\ new.locator.window_id = IfNone(given, w.window_id)
    <2>1. DOMAIN target = {"kind", "locator"} /\ "window_id" \in DOMAIN target.locator
      BY DEF TargetOK
    <2> DEFINE id == IfNone(given, w.window_id)
               title == IfNone(target.locator.title, w.title)
               pid == IfNone(target.locator.pid, w.pid)
    <2>2. new = [target EXCEPT !.locator = [target.locator EXCEPT !.window_id = id,
                                                                 !.title = title, !.pid = pid]]
      BY <1>3
    <2> HIDE DEF new, given, w, id, title, pid
    <2>3. new.locator = [target.locator EXCEPT !.window_id = id, !.title = title, !.pid = pid]
      BY <2>1, <2>2
    <2>4. new.kind = "Window"
      BY <2>1, <2>2
    <2>5. new.locator.window_id = id
      BY <2>1, <2>3
    <2> QED BY <2>4, <2>5 DEF id
  <1>5. given # None => w.window_id = given
    <2> SUFFICES ASSUME given # None PROVE w.window_id = given
      OBVIOUS
    <2>1. found = window_by_id(snapshot, given)
      BY DEF resolve_window
    <2> QED BY <1>1, <2>1, FoundHasId
  <1>6. new.locator.window_id = w.window_id
    BY <1>4, <1>5 DEF IfNone
  <1>7. w.window_id # None
    BY DEF SnapshotOK
  <1>8. resolve_window(snapshot, new.locator) = {w}
    BY <1>6, <1>7, WindowOfId DEF resolve_window
  <1> QED BY <1>1, <1>4, <1>6, <1>7, <1>8

\* The places of a snapshot are pairs of numbers, and a search keeps to them.
LEMMA PlacesAreOrdered ==
    ASSUME NEW snapshot, SnapshotOK(snapshot), NEW x \in Places(snapshot)
    PROVE  /\ x[1] \in DOMAIN snapshot /\ x[1] \in Nat /\ x[2] \in Nat
           /\ x = <<x[1], x[2]>>
  BY DEF Places, SnapshotOK

\* A search finds nothing, or the element at one of the places it may find.
LEMMA FoundElement ==
    ASSUME NEW snapshot, SnapshotOK(snapshot), NEW hits \in SUBSET Places(snapshot)
    PROVE  \/ find_element(snapshot, hits) = {}
           \/ \E x \in hits :
                find_element(snapshot, hits) = {[window |-> snapshot[x[1]], at |-> x[2]]}
  <1> DEFINE first == {x \in hits : \A y \in hits :
                          x[1] < y[1] \/ (x[1] = y[1] /\ x[2] <= y[2])}
  <1>1. CASE first = {}
    BY <1>1 DEF find_element
  <1>2. CASE first # {}
    <2>1. PICK x \in first : TRUE
      BY <1>2
    <2>2. ASSUME NEW y \in first PROVE y = x
      <3>1. /\ x[1] < y[1] \/ (x[1] = y[1] /\ x[2] <= y[2])
            /\ y[1] < x[1] \/ (y[1] = x[1] /\ y[2] <= x[2])
        BY <2>1, <2>2
      <3>2. x[1] \in Nat /\ x[2] \in Nat /\ y[1] \in Nat /\ y[2] \in Nat
        BY <2>1, <2>2, PlacesAreOrdered
      <3>3. x[1] = y[1] /\ x[2] = y[2]
        BY <3>1, <3>2
      <3>4. x = <<x[1], x[2]>> /\ y = <<y[1], y[2]>>
        BY <2>1, <2>2, PlacesAreOrdered
      <3> QED BY <3>3, <3>4
    <2>3. first = {x}
      BY <2>1, <2>2
    <2>4. find_element(snapshot, hits) = {[window |-> snapshot[x[1]], at |-> x[2]]}
      BY <2>3 DEF find_element
    <2> QED BY <2>1, <2>4
  <1> QED BY <1>1, <1>2

\* An element that is found is a node of a window of the snapshot.
LEMMA ResolvedElement ==
    ASSUME NEW snapshot, SnapshotOK(snapshot), NEW target
    PROVE  \/ resolve_element(snapshot, target) = {}
           \/ \E x \in Places(snapshot) : resolve_element(snapshot, target)
                                            = {[window |-> snapshot[x[1]], at |-> x[2]]}
  <1>1. \A id : \/ find_element_by_id(snapshot, id) = {}
                \/ \E x \in Places(snapshot) : find_element_by_id(snapshot, id)
                                                 = {[window |-> snapshot[x[1]], at |-> x[2]]}
    BY FoundElement DEF find_element_by_id
  <1>2. \A l : \/ find_element_by_locator(snapshot, l) = {}
               \/ \E x \in Places(snapshot) : find_element_by_locator(snapshot, l)
                                                = {[window |-> snapshot[x[1]], at |-> x[2]]}
    BY FoundElement DEF find_element_by_locator
  <1> QED BY <1>1, <1>2 DEF resolve_element

\* The search by the id of an element finds only elements with that id, and that very
\* element where no other one has its id.
LEMMA ElementOfId ==
    ASSUME NEW snapshot, SnapshotOK(snapshot), NEW x \in Places(snapshot), NEW e,
           e = [window |-> snapshot[x[1]], at |-> x[2]]
    PROVE  /\ \A f \in find_element_by_id(snapshot, Node(e).element_id) :
                 Node(f).element_id = Node(e).element_id
           /\ HasIdAlone(snapshot, e) => find_element_by_id(snapshot, Node(e).element_id) = {e}
  <1> DEFINE At(y) == [window |-> snapshot[y[1]], at |-> y[2]]
             id    == Node(e).element_id
             hits  == {y \in Places(snapshot) : snapshot[y[1]].nodes[y[2]].element_id = id}
             found == find_element_by_id(snapshot, id)
  <1>1. \A y : Node(At(y)).element_id = snapshot[y[1]].nodes[y[2]].element_id
    BY DEF Node
  <1>2. found = find_element(snapshot, hits) /\ hits \in SUBSET Places(snapshot)
    BY DEF find_element_by_id
  <1>3. ASSUME NEW f \in found PROVE Node(f).element_id = id
    <2>1. PICK y \in hits : f = At(y)
      BY <1>2, <1>3 DEF find_element
    <2> QED BY <1>1, <2>1
  <1>4. ASSUME HasIdAlone(snapshot, e) PROVE found = {e}
    <2>1. ASSUME NEW y \in hits PROVE y = x
      <3>1. At(x) = At(y)
        BY <1>4, <2>1 DEF HasIdAlone
      <3>2. snapshot[x[1]] = snapshot[y[1]] /\ x[2] = y[2]
        BY <3>1
      <3>3. /\ x[1] \in DOMAIN snapshot /\ x = <<x[1], x[2]>>
            /\ y[1] \in DOMAIN snapshot /\ y = <<y[1], y[2]>>
        BY <2>1, PlacesAreOrdered
      <3>4. x[1] = y[1]
        BY <3>2, <3>3 DEF SnapshotOK
      <3> QED BY <3>2, <3>3, <3>4
    <2>2. x \in hits
      BY <1>1
    <2>3. hits = {x}
      BY <2>1, <2>2
    <2>4. x[1] = x[1] /\ x[2] <= x[2]
      BY PlacesAreOrdered
    <2>5. {z \in hits : \A y \in hits : z[1] < y[1] \/ (z[1] = y[1] /\ z[2] <= y[2])} = {x}
      BY <2>3, <2>4
    <2> QED BY <1>2, <2>5 DEF find_element
  <1> QED BY <1>3, <1>4

\* Enrichment of an element target exchanges the element it denotes for another one at
\* most where that has the same id.
LEMMA EnrichedElement ==
    ASSUME NEW snapshot, SnapshotOK(snapshot), NEW target, TargetOK(target),
           target.kind = "Element"
    PROVE  /\ Enriched(snapshot, target).kind = "Element"
           /\ MeanTheSame(snapshot, target, Enriched(snapshot, target))
  <1> DEFINE found == resolve_element(snapshot, target)
             new   == Enriched(snapshot, target)
             after == resolve_element(snapshot, new)
             By(id) == find_element_by_id(snapshot, id)
  <1>0. after = found => MeanTheSame(snapshot, target, new)
    <2>1. \A e, f \in found : e = f
      BY ResolvedElement
    <2> QED BY <2>1 DEF MeanTheSame
  <1>1. CASE found = {}
    <2>1. new = target
      BY <1>1 DEF Enriched
    <2> QED BY <1>0, <2>1
  <1>2. CASE found # {}
    <2> DEFINE e == CHOOSE e \in found : TRUE
    <2>1. new = [target EXCEPT !.element_id = IfNone(@, Node(e).element_id),
                               !.locator = IfNone(@, Node(e).locator)]
      BY <1>2, Zenon DEF Enriched
    <2>2. /\ new.kind = "Element"
          /\ new.element_id = IfNone(target.element_id, Node(e).element_id)
          /\ new.locator = IfNone(target.locator, Node(e).locator)
      BY <2>1 DEF TargetOK
    <2> HIDE DEF new
    <2>3. CASE target.element_id # None
      <3>1. new.element_id = target.element_id
        BY <2>2, <2>3 DEF IfNone
      <3>2. By(target.element_id) = {} => target.locator # None
        BY <1>2, <2>3 DEF resolve_element
      <3>3. By(target.element_id) = {} => new.locator = target.locator
        BY <2>2, <3>2 DEF IfNone
      <3>4. CASE By(target.element_id) # {}
        <4>1. found = By(target.element_id)
          BY <2>3, <3>4 DEF resolve_element
        <4>2. after = By(target.element_id)
          BY <2>3, <3>1, <3>4 DEF resolve_element
        <4> QED BY <1>0, <2>2, <4>1, <4>2 DEF new
      <3>5. CASE By(target.element_id) = {}
        <4>1. found = find_element_by_locator(snapshot, target.locator)
          BY <2>3, <3>2, <3>5 DEF resolve_element
        <4>2. after = find_element_by_locator(snapshot, target.locator)
          BY <2>3, <3>1, <3>2, <3>3, <3>5 DEF resolve_element
        <4> QED BY <1>0, <2>2, <4>1, <4>2 DEF new
      <3> QED BY <3>4, <3>5
    <2>4. CASE target.element_id = None
      <3>1. target.locator # None /\ found = find_element_by_locator(snapshot, target.locator)
        BY <1>2, <2>4 DEF resolve_element
      <3>2. PICK x \in Places(snapshot) : found = {[window |-> snapshot[x[1]], at |-> x[2]]}
        BY <1>2, ResolvedElement
      <3>3. e = [window |-> snapshot[x[1]], at |-> x[2]] /\ found = {e}
        BY <3>2
      <3>4. new.element_id = Node(e).element_id /\ new.locator = target.locator
        BY <2>2, <2>4, <3>1 DEF IfNone
      <3>5. CASE new.element_id = None \/ By(new.element_id) = {}
        <4>1. after = found
          BY <3>1, <3>4, <3>5 DEF resolve_element
        <4> QED BY <1>0, <2>2, <4>1 DEF new
      <3>6. CASE new.element_id # None /\ By(new.element_id) # {}
        <4>1. after = By(Node(e).element_id) /\ after # {}
          BY <3>4, <3>6 DEF resolve_element
        <4> HIDE DEF e
        <4>2. /\ \A f \in after : Node(f).element_id = Node(e).element_id
              /\ HasIdAlone(snapshot, e) => after = {e}
          BY <3>3, <4>1, ElementOfId
        <4>3. MeanTheSame(snapshot, target, new)
          <5> HIDE DEF found, after
          <5> QED BY <3>3, <4>1, <4>2 DEF MeanTheSame, found, after
        <4> QED BY <2>2, <4>3 DEF new
      <3> QED BY <3>5, <3>6
    <2> QED BY <2>3, <2>4
  <1> QED BY <1>1, <1>2

\* What the enriched target of another kind denotes satisfies a condition exactly when what
\* the caller's target denotes does.
LEMMA EnrichedSatisfies ==
    ASSUME NEW snapshot, SnapshotOK(snapshot), NEW target, TargetOK(target),
           target.kind # "Element", NEW condition
    PROVE  wait_condition_matches(snapshot, Enriched(snapshot, target), condition)
             = wait_condition_matches(snapshot, target, condition)
  <1> DEFINE new == Enriched(snapshot, target)
  <1>1. CASE target.kind = "Desktop"
    <2>1. new = target
      BY <1>1 DEF Enriched
    <2> QED BY <2>1
  <1>2. CASE target.kind = "Window"
    <2>1. CASE resolve_window(snapshot, target.locator) = {}
      <3>1. new = target
        BY <1>2, <2>1 DEF Enriched
      <3> QED BY <3>1
    <2>2. CASE resolve_window(snapshot, target.locator) # {}
      <3>1. new.kind = "Window"
        BY <1>2, <2>2, EnrichedWindow
      <3>2. resolve_window(snapshot, new.locator) = resolve_window(snapshot, target.locator)
        BY <1>2, <2>2, EnrichedWindow
      <3> QED BY <1>2, <3>1, <3>2 DEF wait_condition_matches
    <2> QED BY <2>1, <2>2
  <1>3. CASE target.kind = "Region"
    <2>1. CASE target.window_id = None /\ Len(snapshot) = 1
      <3>1. new = [target EXCEPT !.window_id = snapshot[1].window_id]
        BY <1>3, <2>1 DEF Enriched
      <3>2. new.kind = "Region" /\ new.window_id = snapshot[1].window_id
        BY <1>3, <3>1 DEF TargetOK
      <3>3. window_by_id(snapshot, new.window_id) # {}
        <4>1. 1 \in DOMAIN snapshot
          BY <2>1 DEF SnapshotOK
        <4> QED BY <3>2, <4>1, WindowOfId
      <3> QED BY <1>3, <2>1, <3>2, <3>3 DEF wait_condition_matches, RegionMatches
    <2>2. CASE ~(target.window_id = None /\ Len(snapshot) = 1)
      <3>1. new = target
        BY <1>3, <2>2 DEF Enriched
      <3> QED BY <3>1
    <2> QED BY <2>1, <2>2
  <1> QED BY <1>1, <1>2, <1>3 DEF TargetOK

LEMMA EnrichedMeansTheSame ==
    ASSUME NEW snapshot, SnapshotOK(snapshot), NEW target, TargetOK(target)
    PROVE  MeanTheSame(snapshot, target, Enriched(snapshot, target))
  <1>1. CASE target.kind = "Element"
    BY <1>1, EnrichedElement
  <1>2. CASE target.kind # "Element"
    BY <1>2, EnrichedSatisfies DEF MeanTheSame
  <1> QED BY <1>1, <1>2

-----------------------------------------------------------------------------
(* The parts of a snapshot that actions select.                            *)

\* A set of places that are at most n has a last one.
LEMMA LastPlace ==
    ASSUME NEW n \in Nat, NEW S \in SUBSET (1 .. n), S # {}
    PROVE  \E j \in S : \A k \in S : k <= j
  <1> DEFINE R == {p \in Nat \X Nat : p[1] < p[2]}
             far == {n - j : j \in S}
  <1>1. IsWellFoundedOn(R, Nat)
    BY NatLessThanWellFounded, Zenon DEF OpToRel
  <1>2. far \in SUBSET Nat /\ far # {}
    <2>1. \A j \in S : n - j \in Nat
      OBVIOUS
    <2> QED BY <2>1
  <1>3. PICK d \in far : \A e \in far : ~(<<e, d>> \in R)
    <2> HIDE DEF R, far
    <2> QED BY <1>1, <1>2, WFMin
  <1>4. PICK j \in S : d = n - j
    OBVIOUS
  <1>5. ASSUME NEW k \in S PROVE k <= j
    <2>1. n - k \in far /\ n - k \in Nat /\ n - j \in Nat /\ k \in Nat /\ j \in Nat
      <3>1. k \in 1 .. n /\ j \in 1 .. n
        OBVIOUS
      <3>2. n - k \in far
        OBVIOUS
      <3> HIDE DEF far
      <3> QED BY <3>1, <3>2
    <2>2. ~(n - k < n - j)
      <3>1. n - k < n - j => <<n - k, n - j>> \in R
        BY <2>1
      <3> HIDE DEF R, far
      <3> QED BY <1>3, <1>4, <2>1, <3>1
    <2> QED BY <2>1, <2>2
  <1> QED BY <1>5

\* Without a limit no node is cut off.
LEMMA TruncatedNowhere ==
    ASSUME NEW nodes
    PROVE  Truncated(nodes, None) = nodes
  BY DEF Truncated

\* A subtree is the node with all its descendants and nothing else.
LEMMA SubtreeIsDescendants ==
    ASSUME NEW nodes, Len(nodes) \in Nat, DOMAIN nodes = 1 .. Len(nodes),
           \A k \in DOMAIN nodes : nodes[k].depth \in Nat,
           NEW at \in DOMAIN nodes
    PROVE  LET below == Subtree(nodes, at)
           IN  {below[k] : k \in DOMAIN below}
                 = {nodes[i] : i \in {j \in at .. Len(nodes) : at \in Ancestors(nodes, j)}}
  <1> DEFINE ends == {j \in at .. Len(nodes) :
                        \A k \in at + 1 .. j : nodes[k].depth > nodes[at].depth}
             last == CHOOSE j \in ends : \A k \in ends : k <= j
             below == Subtree(nodes, at)
  <1>1. at \in ends /\ ends \in SUBSET (1 .. Len(nodes))
    OBVIOUS
  <1>2. last \in ends /\ \A k \in ends : k <= last
    <2> HIDE DEF ends
    <2>1. \E j \in ends : \A k \in ends : k <= j
      BY <1>1, LastPlace
    <2> QED BY <2>1, Zenon
  <1>3. ends = at .. last
    <2> HIDE DEF last
    <2>1. ASSUME NEW j \in at .. last PROVE j \in ends
      BY <1>2
    <2>2. \A j \in ends : j \in at .. last
      BY <1>1, <1>2
    <2> QED BY <2>1, <2>2
  <1>4. {j \in at .. Len(nodes) : at \in Ancestors(nodes, j)} = ends
    BY DEF Ancestors
  <1>5. below = SubSeq(nodes, at, last)
    BY DEF Subtree
  <1>6. last \in Int /\ at \in Int /\ at <= last /\ last <= Len(nodes) /\ at >= 1
    BY <1>1, <1>2
  <1> HIDE DEF last, ends, below
  <1> DEFINE S == {nodes[i] : i \in DOMAIN nodes}
  <1>7. /\ below \in Seq(S) /\ Len(below) = last - at + 1
        /\ \A i \in 1 .. last - at + 1 : below[i] = nodes[at + i - 1]
    <2>1. \A i \in at .. last : nodes[i] \in S
      BY <1>6
    <2> HIDE DEF S
    <2> QED BY <1>5, <1>6, <2>1, SubSeqProperties
  <1>8. DOMAIN below = 1 .. last - at + 1
    <2> HIDE DEF S
    <2> QED BY <1>7
  <1> HIDE DEF S
  <1>9. ASSUME NEW k \in DOMAIN below PROVE at + k - 1 \in at .. last /\ below[k] = nodes[at + k - 1]
    BY <1>6, <1>7, <1>8
  <1>10. ASSUME NEW i \in at .. last PROVE i - at + 1 \in DOMAIN below /\ below[i - at + 1] = nodes[i]
    <2> DEFINE k == i - at + 1
    <2>1. k \in 1 .. last - at + 1 /\ at + k - 1 = i
      BY <1>6
    <2> HIDE DEF k
    <2>2. k \in DOMAIN below /\ below[k] = nodes[i]
      BY <1>7, <1>8, <2>1
    <2> QED BY <2>2 DEF k
  <1>11. {below[k] : k \in DOMAIN below} = {nodes[i] : i \in ends}
    <2>1. ASSUME NEW k \in DOMAIN below PROVE \E i \in ends : below[k] = nodes[i]
      BY <1>3, <1>9
    <2>2. ASSUME NEW i \in ends PROVE \E k \in DOMAIN below : below[k] = nodes[i]
      BY <1>3, <1>10
    <2> QED BY <2>1, <2>2
  <1> QED BY <1>4, <1>11 DEF below

Kinds == {"Desktop", "Window", "Element", "Region"}

\* Whatever a target is, and although element ids may repeat, the actions agree on it.
LEMMA SelectionsAgreeAnywhere ==
    ASSUME NEW snapshot, SnapshotOK(snapshot), NEW target, target.kind \in Kinds
    PROVE  SelectionsAgreeOn(snapshot, target)
  <1> DEFINE Payload   == TreePayload(snapshot, target, None)
             Surfaces  == UNION {UNION {FallbackIn(p[i]) : i \in DOMAIN p} : p \in Payload}
             Exists    == wait_condition_matches(snapshot, target, "Exists")
  <1>1. ASSUME target.kind = "Desktop"
        PROVE  (Exists <=> Payload # {}) /\ FallbackSurfaces(snapshot, target) = Surfaces
    <2> DEFINE trees == [i \in DOMAIN snapshot |-> snapshot[i].nodes]
    <2>1. Payload = {trees}
      <3>1. Payload = {[i \in DOMAIN snapshot |-> Truncated(snapshot[i].nodes, None)]}
        BY <1>1 DEF TreePayload
      <3> QED BY <3>1, TruncatedNowhere
    <2>2. Exists
      BY <1>1 DEF wait_condition_matches, DesktopMatches
    <2>3. FallbackSurfaces(snapshot, target) = UNION {FallbackIn(snapshot[i].nodes) : i \in DOMAIN snapshot}
      BY <1>1 DEF FallbackSurfaces
    <2>4. Surfaces = UNION {FallbackIn(trees[i]) : i \in DOMAIN trees}
      <3> HIDE DEF trees, Payload
      <3> QED BY <2>1
    <2>5. DOMAIN trees = DOMAIN snapshot /\ \A i \in DOMAIN snapshot : trees[i] = snapshot[i].nodes
      OBVIOUS
    <2> HIDE DEF trees, Payload, Exists, Surfaces
    <2> QED BY <2>1, <2>2, <2>3, <2>4, <2>5
  \* One tree, or none.
  <1>2. ASSUME NEW nodes, Payload = {<<nodes>>}
        PROVE  Surfaces = FallbackIn(nodes)
    <2> HIDE DEF Payload
    <2>1. Surfaces = UNION {FallbackIn(<<nodes>>[i]) : i \in DOMAIN <<nodes>>}
      BY <1>2
    <2>2. DOMAIN <<nodes>> = {1} /\ <<nodes>>[1] = nodes
      OBVIOUS
    <2> QED BY <2>1, <2>2
  <1>3. ASSUME target.kind = "Window"
        PROVE  (Exists <=> Payload # {}) /\ FallbackSurfaces(snapshot, target) = Surfaces
    <2> DEFINE found == resolve_window(snapshot, target.locator)
    <2>1. /\ Payload = {<<Truncated(w.nodes, None)>> : w \in found}
          /\ FallbackSurfaces(snapshot, target) = UNION {FallbackIn(w.nodes) : w \in found}
          /\ Exists <=> found # {}
      BY <1>3 DEF TreePayload, FallbackSurfaces, wait_condition_matches, WindowMatches
    <2>2. CASE found = {}
      <3> HIDE DEF found
      <3>1. Payload = {} /\ ~Exists /\ FallbackSurfaces(snapshot, target) = {}
        BY <2>1, <2>2
      <3> HIDE DEF Payload, Exists
      <3> QED BY <3>1
    <2>3. CASE \E w : found = {w}
      <3> HIDE DEF found
      <3>0. PICK w : found = {w}
        BY <2>3
      <3>1. Payload = {<<w.nodes>>} /\ Exists /\ FallbackSurfaces(snapshot, target) = FallbackIn(w.nodes)
        BY <2>1, <3>0, TruncatedNowhere
      <3>2. Surfaces = FallbackIn(w.nodes)
        <4> HIDE DEF Payload, Surfaces
        <4> QED BY <1>2, <3>1
      <3> HIDE DEF Payload, Exists, Surfaces
      <3> QED BY <3>1, <3>2
    <2> QED BY <2>2, <2>3, ResolvedWindow
  <1>4. ASSUME target.kind = "Element"
        PROVE  SelectionsAgreeOn(snapshot, target)
    <2> DEFINE found == resolve_element(snapshot, target)
               tree(e) == Subtree(e.window.nodes, e.at)
    <2>1. /\ Payload = {<<Truncated(tree(e), None)>> : e \in found}
          /\ FallbackSurfaces(snapshot, target) = UNION {FallbackIn(tree(e)) : e \in found}
          /\ CaptureWindow(snapshot, target) = {e.window.window_id : e \in found}
          /\ Exists <=> found # {}
      BY <1>4 DEF TreePayload, FallbackSurfaces, CaptureWindow, wait_condition_matches, ElementMatches
    <2>2. CASE found = {}
      <3> HIDE DEF found, tree
      <3>1. Payload = {} /\ ~Exists /\ FallbackSurfaces(snapshot, target) = {}
        BY <2>1, <2>2
      <3> HIDE DEF Payload, Exists
      <3>2. SelectionsAgreeOn(snapshot, target)
        BY <2>2, <3>1 DEF SelectionsAgreeOn, Payload, Exists, found
      <3> QED BY <3>2
    <2>3. CASE found # {}
      <3>1. PICK x \in Places(snapshot) : found = {[window |-> snapshot[x[1]], at |-> x[2]]}
        BY <2>3, ResolvedElement
      <3> DEFINE e     == [window |-> snapshot[x[1]], at |-> x[2]]
                 nodes == snapshot[x[1]].nodes
                 below == Subtree(nodes, x[2])
      <3>2. e.window = snapshot[x[1]] /\ e.at = x[2] /\ tree(e) = below
        OBVIOUS
      <3>3. x[1] \in DOMAIN snapshot /\ x[2] \in DOMAIN nodes
        BY DEF Places
      <3> HIDE DEF e
      <3>4. found = {e}
        BY <3>1 DEF e
      <3> HIDE DEF found
      <3>5. /\ Payload = {<<below>>} /\ Exists
            /\ FallbackSurfaces(snapshot, target) = FallbackIn(below)
            /\ CaptureWindow(snapshot, target) = {snapshot[x[1]].window_id}
        <4> HIDE DEF below, tree
        <4> QED BY <2>1, <3>2, <3>4, TruncatedNowhere
      <3>6. Surfaces = FallbackIn(below)
        <4> HIDE DEF Payload, Surfaces, below
        <4> QED BY <1>2, <3>5
      <3>7. {below[k] : k \in DOMAIN below}
               = {nodes[i] : i \in {j \in x[2] .. Len(nodes) : x[2] \in Ancestors(nodes, j)}}
        <4>1. /\ Len(nodes) \in Nat /\ DOMAIN nodes = 1 .. Len(nodes)
              /\ \A k \in DOMAIN nodes : nodes[k].depth \in Nat
          BY <3>3 DEF SnapshotOK
        <4> HIDE DEF nodes
        <4> QED BY <3>3, <4>1, SubtreeIsDescendants
      <3>8. window_by_id(snapshot, snapshot[x[1]].window_id) = {snapshot[x[1]]}
        BY <3>3, WindowOfId
      <3> HIDE DEF below, nodes, Payload, Surfaces, Exists, tree
      <3>9. ASSUME NEW f \in found, NEW payload \in Payload
            PROVE  /\ {payload[1][k] : k \in DOMAIN payload[1]}
                         = {f.window.nodes[i] : i \in {j \in f.at .. Len(f.window.nodes) :
                                                        f.at \in Ancestors(f.window.nodes, j)}}
                   /\ \E id \in CaptureWindow(snapshot, target) : f.window \in window_by_id(snapshot, id)
        <4>1. payload[1] = below /\ f = e
          BY <3>4, <3>5
        <4>2. f.window.nodes = nodes /\ f.at = x[2] /\ f.window = snapshot[x[1]]
          BY <3>2, <4>1 DEF nodes
        <4>3. \E id \in CaptureWindow(snapshot, target) : f.window \in window_by_id(snapshot, id)
          BY <3>5, <3>8, <4>2
        <4>4. {payload[1][k] : k \in DOMAIN payload[1]} = {below[k] : k \in DOMAIN below}
          BY <4>1
        <4> DEFINE Whole(all, at) == {all[i] : i \in {j \in at .. Len(all) : at \in Ancestors(all, j)}}
        <4>5. {below[k] : k \in DOMAIN below} = Whole(nodes, x[2])
          BY <3>7
        <4>6. Whole(f.window.nodes, f.at) = Whole(nodes, x[2])
          <5> HIDE DEF Whole
          <5> QED BY <4>2
        <4> QED BY <4>3, <4>4, <4>5, <4>6
      <3>10. (Exists <=> Payload # {}) /\ FallbackSurfaces(snapshot, target) = Surfaces
        BY <3>5, <3>6
      <3> QED BY <3>9, <3>10 DEF SelectionsAgreeOn, found, Payload, Surfaces, Exists
    <2> QED BY <2>2, <2>3
  <1>5. CASE target.kind # "Element"
    <2> HIDE DEF Payload, Surfaces, Exists
    <2>1. target.kind # "Region" => (Exists <=> Payload # {}) /\ FallbackSurfaces(snapshot, target) = Surfaces
      BY <1>1, <1>3, <1>5 DEF Kinds
    <2> QED BY <1>5, <2>1 DEF SelectionsAgreeOn, Payload, Surfaces, Exists
  <1> QED BY <1>4, <1>5

-----------------------------------------------------------------------------
(* The inductive invariant.                                                *)

\* The types, with the fields of the waiter's locals.
WaitType ==
    /\ TypeOK
    /\ DOMAIN wait = {"target", "deadline", "since", "seen", "view", "bound"}

\* revision_tx lags behind the cache only while the forwarder has yet to publish.
Publication ==
    /\ forwarder = "changed" => published < cache.rev
    /\ forwarder # "changed" => published = cache.rev
    /\ forwarder = "recovering" => cache.rev <= MaxRev

\* What the waiter holds of a state whose revision it has seen is still so.
Looked ==
    wait.seen = cache.rev =>
        /\ pc = "capture" => cache.marked
        /\ pc = "decide" /\ ~cache.marked /\ ~cache.torn => wait.view = cache.snapshot
        /\ pc = "sleep" /\ ~cache.marked /\ ~cache.torn
             => (Holds(cache.snapshot) <=> wait.since # None)

\* A target that denoted a window is bound to its id.
Bounded ==
    /\ pc = "new" => wait.bound = {} /\ wait.target = request.target
    /\ wait.bound # {} =>
         \E id : /\ id # None /\ wait.bound = {id}
                 /\ wait.target.locator.window_id = id

\* As long as nothing goes unseen, the waiter's `since` is what the history says, as
\* soon as it has looked at the state.
Attentive ==
    ~unseen =>
        /\ ~cache.marked /\ forwarder # "recovering" /\ pc # "capture"
        /\ pc \in {"new", "start"} => wait.since = None
        /\ pc \in {"read", "decide", "sleep"} =>
             held = IF Holds(cache.snapshot) THEN IfNone(wait.since, now) ELSE None
        /\ pc = "decide" => wait.view = cache.snapshot
        /\ pc = "sleep" =>
             /\ forwarder = "idle" /\ wait.seen = published => held = wait.since
             /\ request.stable_for = 0 => wait.since = None
        /\ pc = "attach" =>
             /\ outcome = "completed" => held # None /\ now - held >= request.stable_for
             /\ outcome = "timed_out" /\ request.stable_for = 0 => held = None

\* Instants lie in the past.
Past ==
    /\ wait.since # None => wait.since <= now
    /\ held # None => held <= now

WaitInv == WaitType /\ Publication /\ Looked /\ Bounded /\ Past /\ Attentive

LEMMA WaitInit == Init => WaitInv
  <1> SUFFICES ASSUME Init PROVE WaitInv
    OBVIOUS
  <1> USE BoundsAssumption, NoneAssumption DEF Init
  <1>1. cache.rev = 1 /\ cache.torn = FALSE /\ cache.marked \in BOOLEAN
    OBVIOUS
  <1>2. unseen \in BOOLEAN
    BY <1>1
  <1>3. cache \in [snapshot : Snapshots, rev : 1 .. MaxRev + 1, marked : BOOLEAN, torn : BOOLEAN]
    <2>1. {FALSE, Faults} \subseteq BOOLEAN /\ {FALSE} \subseteq BOOLEAN
      BY Zenon
    <2>2. {1} \subseteq 1 .. MaxRev + 1
      OBVIOUS
    <2>3. cache \in [snapshot : Snapshots, rev : {1}, marked : {FALSE, Faults}, torn : {FALSE}]
      OBVIOUS
    <2> HIDE DEF Init
    <2> QED BY <2>1, <2>2, <2>3
  <1>4. WaitType
    BY <1>1, <1>2, <1>3 DEF WaitType, TypeOK, Times
  <1>5. Publication /\ Looked /\ Bounded /\ Past /\ Attentive
    BY <1>1 DEF Publication, Looked, Bounded, Past, Attentive
  <1> QED BY <1>4, <1>5 DEF WaitInv

\* HeldAfter keeps to the clock.
LEMMA HeldAfterType ==
    ASSUME now \in Times, held \in Times \cup {None}, Past, NEW s, NEW m
    PROVE  /\ HeldAfter(s, m) \in Times \cup {None}
           /\ HeldAfter(s, m) # None => HeldAfter(s, m) <= now
  BY BoundsAssumption, NoneAssumption DEF HeldAfter, IfNone, Past, Times

\* The waiter's own steps keep the types.
LEMMA WaiterTypeStep ==
    ASSUME WaitInv, WaiterNext
    PROVE  WaitType' /\ Past'
  <1> USE BoundsAssumption, NoneAssumption DEF WaitInv, WaitType, TypeOK, Times, Past
  <1>0. request.timeout \in 1 .. MaxTime /\ request.stable_for \in Nat
    OBVIOUS
  <1>1. CASE EnrichTarget
    <2>1. ASSUME NEW s, Enrich(s) PROVE
            /\ DOMAIN wait' = DOMAIN wait /\ wait'.since = wait.since /\ wait'.seen = wait.seen
            /\ wait'.deadline = wait.deadline /\ wait'.view = wait.view
      BY <2>1 DEF Enrich
    <2>2. /\ DOMAIN wait' = DOMAIN wait /\ wait'.since = wait.since /\ wait'.seen = wait.seen
          /\ wait'.deadline = wait.deadline /\ wait'.view = wait.view
      BY <1>1, <2>1 DEF EnrichTarget
    <2> QED BY <1>1, <2>2 DEF EnrichTarget
  <1>2. CASE StartWait
    <2>1. /\ DOMAIN wait' = DOMAIN wait /\ wait'.since = wait.since /\ wait'.seen = published
          /\ wait'.deadline = now + request.timeout /\ wait'.view = wait.view
      BY <1>2 DEF StartWait
    <2>2. now + request.timeout \in 0 .. 2 * MaxTime
      <3>1. now \in 0 .. MaxTime /\ MaxTime \in Nat
        OBVIOUS
      <3> HIDE DEF WaitInv, WaitType, TypeOK, Times, Past
      <3> QED BY <1>0, <3>1
    <2>3. held' \in Times \cup {None} /\ (held' # None => held' <= now)
      BY <1>2 DEF StartWait
    <2>4. /\ UNCHANGED <<now, cache, published, forwarder, request, outcome, unseen>>
          /\ pc' = "read"
      BY <1>2 DEF StartWait
    <2> QED BY <2>1, <2>2, <2>3, <2>4
  <1>3. CASE ReadState
    <2>1. /\ DOMAIN wait' = DOMAIN wait /\ wait'.since = wait.since /\ wait'.seen = wait.seen
          /\ wait'.deadline = wait.deadline /\ wait'.view \in Snapshots \cup {<< >>}
      BY <1>3 DEF ReadState
    <2>2. /\ UNCHANGED <<now, cache, published, forwarder, request, outcome, held, unseen>>
          /\ pc' \in {"capture", "decide"}
      BY <1>3 DEF ReadState
    <2> QED BY <2>1, <2>2
  <1>4. CASE CaptureState
    <2>1. /\ DOMAIN wait' = DOMAIN wait /\ wait'.since = wait.since /\ wait'.seen = wait.seen
          /\ wait'.deadline = wait.deadline /\ wait'.view \in Snapshots \cup {<< >>}
      BY <1>4 DEF CaptureState
    <2>2. /\ UNCHANGED <<now, cache, published, forwarder, request, held, unseen>>
          /\ pc' \in {"decide", "done"} /\ outcome' \in {outcome, "failed"}
      BY <1>4 DEF CaptureState
    <2> QED BY <2>1, <2>2
  <1>5. CASE Decide
    BY <1>5 DEF Decide, DecideOn, IfNone
  <1>6. CASE RevisionArrives
    BY <1>6 DEF RevisionArrives
  <1>7. CASE DeadlinePasses
    BY <1>7 DEF DeadlinePasses
  <1>8. CASE AttachSnapshot
    BY <1>8 DEF AttachSnapshot
  <1> QED BY <1>1, <1>2, <1>3, <1>4, <1>5, <1>6, <1>7, <1>8 DEF WaiterNext

\* So do the forwarder's and the clock's.
LEMMA OthersTypeStep ==
    ASSUME WaitInv, ApplyDiff \/ DiffFails \/ Recapture \/ Publish \/ Tick
    PROVE  WaitType' /\ Past' /\ Publication'
  <1> USE BoundsAssumption, NoneAssumption
      DEF WaitInv, WaitType, TypeOK, Times, Past, Publication
  <1>1. CASE ApplyDiff
    <2>1. PICK s \in Snapshots, marks \in {FALSE, Faults} :
            /\ unseen' = (unseen \/ Busy \/ cache.marked \/ marks)
            /\ cache' = [snapshot |-> s, rev |-> cache.rev + 1, marked |-> cache.marked \/ marks,
                         torn |-> FALSE]
            /\ held' = HeldAfter(s, cache.marked \/ marks)
      BY <1>1 DEF ApplyDiff
    <2>2. held' \in Times \cup {None} /\ (held' # None => held' <= now)
      BY <2>1, HeldAfterType
    <2>3. unseen' \in BOOLEAN /\ cache'.marked \in BOOLEAN
      BY <2>1, Zenon
    <2> QED BY <1>1, <2>1, <2>2, <2>3 DEF ApplyDiff
  <1>2. CASE DiffFails
    <2>1. held' \in Times \cup {None} /\ (held' # None => held' <= now)
      BY <1>2, HeldAfterType DEF DiffFails
    <2>2. /\ cache' \in [snapshot : Snapshots, rev : 1 .. MaxRev + 1,
                         marked : BOOLEAN, torn : BOOLEAN]
          /\ cache'.rev = cache.rev
      BY <1>2 DEF DiffFails
    <2>3. WaitType' /\ Past'
      BY <1>2, <2>1, <2>2 DEF DiffFails
    <2>4. /\ forwarder = "idle" /\ forwarder' = "recovering" /\ published' = published
          /\ cache.rev < MaxRev
      BY <1>2 DEF DiffFails
    <2> QED BY <2>2, <2>3, <2>4
  <1>3. CASE Recapture
    <2>1. held' \in Times \cup {None} /\ (held' # None => held' <= now)
      <3>1. ASSUME NEW s, held' = HeldAfter(s, FALSE)
            PROVE  held' \in Times \cup {None} /\ (held' # None => held' <= now)
        BY <3>1, HeldAfterType
      <3>2. CASE UNCHANGED held
        BY <3>2
      <3> QED BY <1>3, <3>1, <3>2 DEF Recapture
    <2>2. /\ cache' \in [snapshot : Snapshots, rev : 1 .. MaxRev + 1,
                         marked : BOOLEAN, torn : BOOLEAN]
          /\ \/ forwarder' = "changed" /\ cache'.rev = cache.rev + 1
             \/ forwarder' = "idle" /\ cache'.rev = cache.rev
      <3>1. CASE forwarder' = "idle" /\ UNCHANGED <<cache, held>>
        BY <3>1
      <3>2. ASSUME NEW s \in Snapshots,
                   cache' = [snapshot |-> s, rev |-> cache.rev + 1, marked |-> FALSE,
                             torn |-> FALSE]
            PROVE  /\ cache'.rev = cache.rev + 1
                   /\ cache' \in [snapshot : Snapshots, rev : 1 .. MaxRev + 1,
                                  marked : BOOLEAN, torn : BOOLEAN]
        <4>1. cache.rev + 1 \in 1 .. MaxRev + 1
          BY <1>3 DEF Recapture
        <4> QED BY <3>2, <4>1
      <3> QED BY <1>3, <3>1, <3>2 DEF Recapture
    <2>3. /\ forwarder = "recovering" /\ published' = published
          /\ UNCHANGED <<now, request, pc, wait, outcome, unseen>>
      BY <1>3 DEF Recapture
    <2>4. WaitType' /\ Past'
      BY <2>1, <2>2, <2>3
    <2>5. Publication'
      BY <2>2, <2>3
    <2> QED BY <2>4, <2>5
  <1>4. CASE Publish
    BY <1>4 DEF Publish
  <1>5. CASE Tick
    BY <1>5 DEF Tick
  <1> QED BY <1>1, <1>2, <1>3, <1>4, <1>5

\* Where the parts of the state go that a step of the waiter leaves alone.
LEMMA WaiterLeavesCache ==
    ASSUME WaiterNext
    PROVE  UNCHANGED <<now, cache, published, forwarder, request>>
  BY DEF WaiterNext, EnrichTarget, StartWait, ReadState, CaptureState, Decide, RevisionArrives,
         DeadlinePasses, AttachSnapshot

LEMMA OthersLeaveWait ==
    ASSUME ApplyDiff \/ DiffFails \/ Recapture \/ Publish \/ Tick
    PROVE  UNCHANGED <<request, pc, wait, outcome>>
  BY DEF ApplyDiff, DiffFails, Recapture, Publish, Tick

\* What the waiter has found stays right until a newer revision is there.
LEMMA LookedStep == WaitInv /\ Next => Looked'
  <1> SUFFICES ASSUME WaitInv, Next PROVE Looked'
    OBVIOUS
  <1> USE NoneAssumption DEF WaitInv
  <1>0. /\ published \in Nat /\ wait.seen \in Nat /\ wait.seen <= published
        /\ cache.rev \in Nat /\ now \in Nat /\ published <= cache.rev
    BY BoundsAssumption DEF WaitType, TypeOK, Times, Publication
  <1>d. DOMAIN wait = {"target", "deadline", "since", "seen", "view", "bound"}
    BY DEF WaitType
  <1>1. CASE EnrichTarget
    BY <1>1 DEF EnrichTarget, Looked
  <1>2. CASE StartWait
    BY <1>2 DEF StartWait, Looked
  <1>3. CASE ReadState
    BY <1>3, <1>d DEF ReadState, Looked
  <1>4. CASE CaptureState
    BY <1>4, <1>d DEF CaptureState, Looked
  <1>5. CASE Decide
    <2>1. CASE pc' = "sleep"
      <3>1. ~(Holds(wait.view) /\ now - IfNone(wait.since, now) >= request.stable_for)
              /\ wait' = [wait EXCEPT !.since = IF Holds(wait.view) THEN IfNone(wait.since, now)
                                                ELSE None]
        BY <1>5, <2>1 DEF Decide, DecideOn
      <3>2. wait'.since # None <=> Holds(wait.view)
        BY <1>0, <1>d, <3>1 DEF IfNone
      <3>3. wait'.seen = wait.seen /\ wait'.target = wait.target /\ UNCHANGED <<cache, request>>
        BY <1>5, <1>d, <3>1 DEF Decide
      <3>4. pc = "decide"
        BY <1>5 DEF Decide
      <3> QED BY <2>1, <3>2, <3>3, <3>4 DEF Looked, Holds
    <2>2. CASE pc' # "sleep"
      <3>1. pc' = "attach"
        BY <1>5, <2>2 DEF Decide, DecideOn
      <3> QED BY <3>1 DEF Looked
    <2> QED BY <2>1, <2>2
  <1>6. CASE RevisionArrives
    BY <1>6 DEF RevisionArrives, Looked
  <1>7. CASE DeadlinePasses
    BY <1>7 DEF DeadlinePasses, Looked
  <1>8. CASE AttachSnapshot
    BY <1>8 DEF AttachSnapshot, Looked
  <1>9. ASSUME ApplyDiff \/ Recapture, cache'.rev = cache.rev + 1 PROVE Looked'
    <2>1. wait' = wait
      BY <1>9, OthersLeaveWait
    <2> QED BY <1>0, <1>9, <2>1 DEF Looked
  <1>10. CASE ApplyDiff
    <2>1. cache'.rev = cache.rev + 1
      BY <1>10 DEF ApplyDiff
    <2> QED BY <1>9, <1>10, <2>1
  <1>11. CASE DiffFails
    <2>1. cache'.rev = cache.rev /\ (cache'.marked \/ cache'.torn)
          /\ (cache.marked => cache'.marked)
      BY <1>11 DEF DiffFails, WaitType, TypeOK
    <2>2. UNCHANGED <<wait, pc>>
      BY <1>11, OthersLeaveWait
    <2> QED BY <2>1, <2>2 DEF Looked
  <1>12. CASE Recapture
    <2>1. CASE UNCHANGED cache
      <3>1. UNCHANGED <<wait, pc, request>>
        BY <1>12, OthersLeaveWait
      <3> QED BY <2>1, <3>1 DEF Looked, Holds
    <2>2. cache'.rev = cache.rev + 1 \/ UNCHANGED cache
      <3>1. ASSUME NEW s, cache' = [snapshot |-> s, rev |-> cache.rev + 1, marked |-> FALSE,
                                    torn |-> FALSE]
            PROVE  cache'.rev = cache.rev + 1
        BY <3>1
      <3> QED BY <1>12, <3>1 DEF Recapture
    <2> QED BY <1>9, <1>12, <2>1, <2>2
  <1>13. CASE Publish \/ Tick
    <2>1. UNCHANGED <<wait, pc, request, cache>>
      BY <1>13, OthersLeaveWait DEF Publish, Tick
    <2> QED BY <2>1 DEF Looked, Holds
  <1> QED BY <1>1, <1>2, <1>3, <1>4, <1>5, <1>6, <1>7, <1>8, <1>10, <1>11, <1>12, <1>13
          DEF Next, WaiterNext

\* The target is bound once, when it is enriched.
LEMMA BoundedStep == WaitInv /\ Next => Bounded'
  <1> SUFFICES ASSUME WaitInv, Next PROVE Bounded'
    OBVIOUS
  <1>d. DOMAIN wait = {"target", "deadline", "since", "seen", "view", "bound"}
    BY DEF WaitInv, WaitType
  <1>1. CASE EnrichTarget
    <2>1. CASE UNCHANGED wait
      BY <1>1, <2>1 DEF EnrichTarget, WaitInv, Bounded
    <2>2. ASSUME NEW s \in Snapshots, Enrich(s) PROVE Bounded'
      <3>1. wait'.target = Enriched(s, request.target) /\ wait'.bound = Bound(s)
        BY <1>d, <2>2 DEF Enrich
      <3>2. pc' = "start"
        BY <1>1 DEF EnrichTarget
      <3>3. CASE Bound(s) = {}
        BY <3>1, <3>2, <3>3 DEF Bounded
      <3>4. CASE Bound(s) # {}
        <4>1. /\ request.target.kind = "Window"
              /\ Bound(s) = {w.window_id : w \in resolve_window(s, request.target.locator)}
          BY <3>4 DEF Bound
        <4>2. resolve_window(s, request.target.locator) # {}
          BY <3>4, <4>1
        <4>3. TargetOK(request.target) /\ SnapshotOK(s)
          BY InputsAssumption DEF WaitInv, WaitType, TypeOK
        <4>4. PICK w \in resolve_window(s, request.target.locator) :
                /\ resolve_window(s, request.target.locator) = {w}
                /\ Enriched(s, request.target).locator.window_id = w.window_id
                /\ w.window_id # None
          <5>1. \A t : (TargetOK(t) /\ t.kind = "Window" /\ resolve_window(s, t.locator) # {}) =>
                  \E w \in resolve_window(s, t.locator) :
                     /\ resolve_window(s, t.locator) = {w}
                     /\ Enriched(s, t).locator.window_id = w.window_id
                     /\ w.window_id # None
            BY ONLY <4>3, EnrichedWindow
          <5> QED BY <4>1, <4>2, <4>3, <5>1
        <4> QED BY <3>1, <3>2, <4>1, <4>4 DEF Bounded
      <3> QED BY <3>3, <3>4
    <2>3. cache.snapshot \in Snapshots
      BY DEF WaitInv, WaitType, TypeOK
    <2> QED BY <1>1, <2>1, <2>2, <2>3 DEF EnrichTarget
  <1>2. CASE WaiterNext /\ ~EnrichTarget
    <2>1. wait'.target = wait.target /\ wait'.bound = wait.bound /\ pc' # "new"
      BY <1>2, <1>d DEF WaiterNext, StartWait, ReadState, CaptureState, Decide, DecideOn,
         RevisionArrives, DeadlinePasses, AttachSnapshot
    <2> QED BY <2>1 DEF WaitInv, Bounded
  <1>3. CASE ApplyDiff \/ DiffFails \/ Recapture \/ Publish \/ Tick
    <2>1. UNCHANGED <<wait, pc, request>>
      BY <1>3, OthersLeaveWait
    <2> QED BY <2>1 DEF WaitInv, Bounded
  <1> QED BY <1>1, <1>2, <1>3 DEF Next

\* The waiter's steps keep `since` in line with the history of the condition.
LEMMA WaiterAttentiveStep ==
    ASSUME WaitInv, WaiterNext, ~unseen'
    PROVE  Attentive'
  <1> USE NoneAssumption
  <1>d. DOMAIN wait = {"target", "deadline", "since", "seen", "view", "bound"}
    BY DEF WaitInv, WaitType
  <1>0. /\ now \in Nat /\ request.stable_for \in Nat
        /\ wait.since \in Nat \cup {None} /\ held \in Nat \cup {None}
        /\ wait.since # None => wait.since <= now
        /\ held # None => held <= now
    BY BoundsAssumption DEF WaitInv, WaitType, TypeOK, Times, Past
  <1>u. ~unseen
    BY DEF WaiterNext, EnrichTarget, StartWait, ReadState, CaptureState, Decide, RevisionArrives,
           DeadlinePasses, AttachSnapshot
  <1>a. /\ ~cache.marked /\ forwarder # "recovering" /\ pc # "capture"
        /\ pc \in {"new", "start"} => wait.since = None
        /\ pc \in {"read", "decide", "sleep"} =>
             held = IF Holds(cache.snapshot) THEN IfNone(wait.since, now) ELSE None
        /\ pc = "decide" => wait.view = cache.snapshot
        /\ pc = "sleep" =>
             /\ forwarder = "idle" /\ wait.seen = published => held = wait.since
             /\ request.stable_for = 0 => wait.since = None
        /\ pc = "attach" =>
             /\ outcome = "completed" => held # None /\ now - held >= request.stable_for
             /\ outcome = "timed_out" /\ request.stable_for = 0 => held = None
    BY <1>u DEF WaitInv, Attentive
  <1>c. UNCHANGED <<now, cache, published, forwarder, request>>
    BY WaiterLeavesCache
  <1>1. CASE EnrichTarget
    <2>1. ASSUME NEW s, Enrich(s) PROVE wait'.since = wait.since
      BY <1>d, <2>1 DEF Enrich
    <2>2. wait'.since = wait.since /\ pc' = "start" /\ pc = "new"
      BY <1>1, <2>1 DEF EnrichTarget
    <2> QED BY <1>a, <1>c, <2>2 DEF Attentive
  <1>2. CASE StartWait
    <2>1. /\ pc' = "read" /\ wait'.since = None /\ wait'.target = wait.target
          /\ held' = IF ~cache.marked /\ Holds(cache.snapshot) THEN now ELSE None
      BY <1>2, <1>d, <1>a DEF StartWait
    <2> QED BY <1>a, <1>c, <2>1 DEF Attentive, Holds, IfNone
  <1>3. CASE ReadState
    <2>1. /\ pc' = "decide" /\ pc = "read" /\ held' = held
          /\ wait'.since = wait.since /\ wait'.target = wait.target
          /\ wait'.view = cache.snapshot
      BY <1>3, <1>a, <1>d DEF ReadState
    <2> QED BY <1>a, <1>c, <2>1 DEF Attentive, Holds
  <1>4. CASE CaptureState
    BY <1>4, <1>a DEF CaptureState
  <1>5. CASE Decide
    <2> DEFINE since == IF Holds(wait.view) THEN IfNone(wait.since, now) ELSE None
    <2>1. held = since /\ held' = held /\ (Holds(wait.view) <=> held # None)
      BY <1>0, <1>5, <1>a DEF Decide, IfNone
    <2>2. CASE pc' = "sleep"
      <3>1. /\ wait' = [wait EXCEPT !.since = since]
            /\ ~(Holds(wait.view) /\ now - since >= request.stable_for)
        BY <1>5, <2>2 DEF Decide, DecideOn
      <3>2. wait'.since = since /\ wait'.target = wait.target
        BY <1>d, <3>1
      <3>3. request.stable_for = 0 => since = None
        BY <1>0, <2>1, <3>1
      <3>4. held = IF Holds(cache.snapshot) THEN IfNone(since, now) ELSE None
        BY <1>5, <1>a, <2>1 DEF Decide, IfNone
      <3> QED BY <1>a, <1>c, <2>1, <2>2, <3>2, <3>3, <3>4 DEF Attentive, Holds
    <2>3. CASE pc' # "sleep"
      <3>1. /\ pc' = "attach"
            /\ \/ outcome' = "completed" /\ Holds(wait.view) /\ now - since >= request.stable_for
               \/ /\ outcome' = "timed_out"
                  /\ ~(Holds(wait.view) /\ now - since >= request.stable_for)
        BY <1>5, <2>3 DEF Decide, DecideOn
      <3>2. outcome' = "completed" => held' # None /\ now - held' >= request.stable_for
        BY <2>1, <3>1
      <3>3. outcome' = "timed_out" /\ request.stable_for = 0 => held' = None
        BY <1>0, <2>1, <3>1
      <3> QED BY <1>a, <1>c, <3>1, <3>2, <3>3 DEF Attentive
    <2> QED BY <2>2, <2>3
  <1>6. CASE RevisionArrives
    <2>1. /\ pc' = "read" /\ pc = "sleep" /\ held' = held
          /\ wait'.since = wait.since /\ wait'.target = wait.target
      BY <1>6, <1>d DEF RevisionArrives
    <2> QED BY <1>a, <1>c, <2>1 DEF Attentive, Holds
  <1>7. CASE DeadlinePasses
    <2>1. /\ pc' = "attach" /\ pc = "sleep" /\ held' = held /\ outcome' = "timed_out"
          /\ published = wait.seen /\ forwarder = "idle"
      <3>1. forwarder \in {"idle", "changed", "recovering"}
        BY DEF WaitInv, WaitType, TypeOK
      <3> QED BY <1>7, <1>a, <3>1 DEF DeadlinePasses
    <2> QED BY <1>a, <1>c, <2>1 DEF Attentive
  <1>8. CASE AttachSnapshot
    BY <1>8, <1>a, <1>c DEF AttachSnapshot, Attentive
  <1> QED BY <1>1, <1>2, <1>3, <1>4, <1>5, <1>6, <1>7, <1>8 DEF WaiterNext

\* A step of the forwarder or the clock that the waiter may miss sets `unseen`.
LEMMA OthersAttentiveStep ==
    ASSUME WaitInv, ApplyDiff \/ DiffFails \/ Recapture \/ Publish \/ Tick, ~unseen'
    PROVE  Attentive'
  <1> USE NoneAssumption
  <1>0. /\ now \in Nat /\ request.stable_for \in Nat
        /\ wait.since \in Nat \cup {None} /\ held \in Nat \cup {None}
        /\ wait.since # None => wait.since <= now
        /\ held # None => held <= now
        /\ forwarder \in {"idle", "changed", "recovering"}
        /\ pc \in {"new", "start", "read", "capture", "decide", "sleep", "attach", "done"}
    BY BoundsAssumption DEF WaitInv, WaitType, TypeOK, Times, Past
  <1>u. ~unseen
    BY DEF ApplyDiff, DiffFails, Recapture, Publish, Tick
  <1>a. /\ ~cache.marked /\ forwarder # "recovering" /\ pc # "capture"
        /\ pc \in {"new", "start"} => wait.since = None
        /\ pc \in {"read", "decide", "sleep"} =>
             held = IF Holds(cache.snapshot) THEN IfNone(wait.since, now) ELSE None
        /\ pc = "decide" => wait.view = cache.snapshot
        /\ pc = "sleep" =>
             /\ forwarder = "idle" /\ wait.seen = published => held = wait.since
             /\ request.stable_for = 0 => wait.since = None
        /\ pc = "attach" =>
             /\ outcome = "completed" => held # None /\ now - held >= request.stable_for
             /\ outcome = "timed_out" /\ request.stable_for = 0 => held = None
    BY <1>u DEF WaitInv, Attentive
  <1>c. UNCHANGED <<request, pc, wait, outcome>>
    BY OthersLeaveWait
  <1>1. CASE ApplyDiff
    <2>1. PICK s \in Snapshots, marks \in {FALSE, Faults} :
            /\ unseen' = (unseen \/ Busy \/ cache.marked \/ marks)
            /\ cache' = [snapshot |-> s, rev |-> cache.rev + 1, marked |-> cache.marked \/ marks,
                         torn |-> FALSE]
            /\ held' = HeldAfter(s, cache.marked \/ marks)
      BY <1>1 DEF ApplyDiff
    <2>2. ~Busy /\ ~cache.marked /\ ~marks
      BY <2>1
    <2>3. /\ cache'.snapshot = s /\ cache'.marked = (cache.marked \/ marks)
          /\ forwarder' = "changed" /\ forwarder = "idle" /\ now' = now /\ published' = published
      BY <1>1, <2>1 DEF ApplyDiff
    <2>4. ~cache'.marked
      BY <2>2, <2>3
    <2>5. pc \in {"new", "start", "sleep", "done"} /\ (pc = "sleep" => wait.seen = published)
      BY <1>0, <1>a, <2>2 DEF Busy
    <2>6. pc = "sleep" => held' = IF Holds(s) THEN IfNone(wait.since, now) ELSE None
      BY <1>a, <2>1, <2>2, <2>3, <2>5 DEF HeldAfter
    <2> QED BY <1>a, <1>c, <2>3, <2>4, <2>5, <2>6 DEF Attentive, Holds
  <1>2. CASE DiffFails
    BY <1>2 DEF DiffFails
  <1>3. CASE Recapture
    BY <1>3, <1>a DEF Recapture
  <1>4. CASE Publish
    <2>1. /\ UNCHANGED <<now, cache, held>> /\ published' = cache.rev
          /\ forwarder = "changed" /\ forwarder' = "idle"
      BY <1>4 DEF Publish
    <2>2. wait.seen # published'
      BY <2>1, BoundsAssumption DEF WaitInv, WaitType, TypeOK, Publication
    <2> QED BY <1>a, <1>c, <2>1, <2>2 DEF Attentive, Holds
  <1>5. CASE Tick
    <2>1. /\ now' = now + 1 /\ UNCHANGED <<cache, published, forwarder, held>>
          /\ ~Busy /\ forwarder = "idle"
      BY <1>0, <1>5, <1>a DEF Tick
    <2>2. pc \in {"new", "start", "sleep", "done"} /\ (pc = "sleep" => wait.seen = published)
      BY <1>0, <1>a, <2>1 DEF Busy
    <2>3. pc = "sleep" =>
            held = IF Holds(cache.snapshot) THEN IfNone(wait.since, now + 1) ELSE None
      BY <1>0, <1>a, <2>1, <2>2 DEF IfNone
    <2> QED BY <1>a, <1>c, <2>1, <2>2, <2>3 DEF Attentive, Holds
  <1> QED BY <1>1, <1>2, <1>3, <1>4, <1>5

LEMMA WaitStep == WaitInv /\ [Next]_vars => WaitInv'
  <1> SUFFICES ASSUME WaitInv, [Next]_vars PROVE WaitInv'
    OBVIOUS
  <1>1. CASE WaiterNext /\ Next
    <2>1. WaitType' /\ Past'
      BY <1>1, WaiterTypeStep
    <2>2. Publication'
      BY <1>1, WaiterLeavesCache DEF WaitInv, Publication
    <2>3. Attentive'
      BY <1>1, WaiterAttentiveStep DEF Attentive
    <2> QED BY <1>1, <2>1, <2>2, <2>3, LookedStep, BoundedStep DEF WaitInv
  <1>2. CASE (ApplyDiff \/ DiffFails \/ Recapture \/ Publish \/ Tick) /\ Next
    <2>1. Attentive'
      BY <1>2, OthersAttentiveStep DEF Attentive
    <2> QED BY <1>2, <2>1, OthersTypeStep, LookedStep, BoundedStep DEF WaitInv
  <1>3. CASE UNCHANGED vars
    BY <1>3 DEF vars, WaitInv, WaitType, TypeOK, Publication, Looked, Bounded, Past, Attentive,
                Holds
  <1> QED BY <1>1, <1>2, <1>3 DEF Next

-----------------------------------------------------------------------------
(* The theorems.                                                           *)

\* The invariant of the wait, its forwarder and the clock.
THEOREM WaitInvariant == Spec => []WaitInv
  <1> QED BY WaitInit, WaitStep, PTL DEF Spec

\* Every variable of a wait_for has its type, whatever the forwarder does.
THEOREM WaitTypeCorrect == Spec => []TypeOK
  <1>1. WaitInv => TypeOK
    BY DEF WaitInv, WaitType
  <1> QED BY <1>1, WaitInvariant, PTL

\* No wake-up is lost between the cache, revision_tx and the sleeping wait.
THEOREM NoWakeUpIsLost == Spec => []NoWakeUpLost
  <1>1. WaitInv => NoWakeUpLost
    BY DEF WaitInv, Publication, Looked, NoWakeUpLost
  <1> QED BY <1>1, WaitInvariant, PTL

\* A wait that completes has been decided by the window it was asked about.
THEOREM WaitIsBoundToItsWindow == Spec => []WaitStaysOnTarget
  <1>1. WaitInv => WaitStaysOnTarget
    <2> SUFFICES ASSUME WaitInv, wait.bound # {},
                        NEW w \in resolve_window(wait.view, wait.target.locator)
                 PROVE  w.window_id \in wait.bound
      BY DEF WaitStaysOnTarget
    <2>1. PICK id : /\ id # None /\ wait.bound = {id}
                    /\ wait.target.locator.window_id = id
      BY DEF WaitInv, Bounded
    <2>2. w \in window_by_id(wait.view, id)
      BY <2>1 DEF resolve_window
    <2> QED BY <2>1, <2>2, FoundHasId
  <1> QED BY <1>1, WaitInvariant, PTL

\* The answer of a wait that misses nothing is true: the condition has held for the
\* stability window when it completes, and does not hold when it times out.
THEOREM WaitAnswersTruly == Spec => []AnswersAreTrue
  <1>1. WaitInv => AnswersAreTrue
    BY DEF WaitInv, Attentive, AnswersAreTrue
  <1> QED BY <1>1, WaitInvariant, PTL

\* Filling in a target from a snapshot does not change what it denotes, except that where
\* several elements have one id it may exchange one of them for another.
THEOREM EnrichmentPreservesMeaning == Spec => EnrichmentKeepsMeaning
  <1> DEFINE Keeps ==
        pc = "new" /\ pc' = "start" /\ ~cache.marked =>
          MeanTheSame(cache.snapshot, request.target, wait'.target)
  <1>1. WaitInv /\ [Next]_vars => [Keeps]_vars
    <2> SUFFICES ASSUME WaitInv, Next, pc = "new", pc' = "start", ~cache.marked
                 PROVE  Keeps
      OBVIOUS
    <2>1. EnrichTarget
      BY DEF Next, WaiterNext, EnrichTarget, StartWait, ReadState, CaptureState, Decide,
             DecideOn, RevisionArrives, DeadlinePasses, AttachSnapshot, ApplyDiff, DiffFails,
             Recapture, Publish, Tick
    <2>2. Enrich(cache.snapshot)
      BY <2>1 DEF EnrichTarget
    <2>3. wait'.target = Enriched(cache.snapshot, request.target)
      BY <2>2 DEF Enrich, WaitInv, WaitType
    <2>4. SnapshotOK(cache.snapshot) /\ TargetOK(request.target)
      BY InputsAssumption DEF WaitInv, WaitType, TypeOK
    <2> QED BY <2>3, <2>4, EnrichedMeansTheSame
  <1>2. EnrichmentKeepsMeaning <=> [][Keeps]_vars
    BY PTL DEF EnrichmentKeepsMeaning
  <1> QED BY <1>1, <1>2, WaitInvariant, PTL DEF Spec

\* Enriching a target does not change what kind of target it is.
LEMMA EnrichedKind ==
    ASSUME NEW snapshot, SnapshotOK(snapshot), NEW target, TargetOK(target)
    PROVE  Enriched(snapshot, target).kind = target.kind /\ target.kind \in Kinds
  <1> DEFINE new == Enriched(snapshot, target)
  <1>1. CASE target.kind = "Window"
    <2>1. CASE resolve_window(snapshot, target.locator) = {}
      BY <1>1, <2>1 DEF Enriched, Kinds
    <2>2. CASE resolve_window(snapshot, target.locator) # {}
      <3>1. new.kind = "Window"
        BY <1>1, <2>2, EnrichedWindow
      <3> QED BY <1>1, <3>1 DEF Kinds
    <2> QED BY <2>1, <2>2
  <1>2. CASE target.kind = "Element"
    <2>1. new.kind = "Element"
      BY <1>2, EnrichedElement
    <2> QED BY <1>2, <2>1 DEF Kinds
  <1>3. CASE target.kind = "Region"
    <2>1. \/ new = target
          \/ new = [target EXCEPT !.window_id = snapshot[1].window_id]
      BY <1>3 DEF Enriched
    <2> HIDE DEF new
    <2>2. new.kind = "Region"
      BY <1>3, <2>1 DEF TargetOK
    <2> QED BY <1>3, <2>2 DEF Kinds, new
  <1>4. CASE target.kind = "Desktop"
    BY <1>4 DEF Enriched, Kinds
  <1> QED BY <1>1, <1>2, <1>3, <1>4 DEF TargetOK

KnownKind == wait.target.kind \in Kinds

\* On whatever state the cache holds while a wait goes on, the actions agree on what its
\* target is, unless it is a region: Exists holds of it exactly when get_tree stores a tree
\* for it, with the same fallback surfaces; the tree of an element is the element with all
\* its descendants, and a capture of it is relative to its window.
THEOREM ActionsAgreeOnTargets == Spec => []SelectionsAgree
  <1>1. Init => KnownKind
    BY InputsAssumption DEF Init, TargetOK, Kinds, KnownKind
  <1>2. WaitInv /\ KnownKind /\ [Next]_vars => KnownKind'
    <2> SUFFICES ASSUME WaitInv, wait.target.kind \in Kinds, [Next]_vars
                 PROVE  wait'.target.kind \in Kinds
      BY DEF KnownKind
    <2>d. DOMAIN wait = {"target", "deadline", "since", "seen", "view", "bound"}
      BY DEF WaitInv, WaitType
    <2>1. CASE EnrichTarget
      <3>1. TargetOK(request.target) /\ cache.snapshot \in Snapshots
        BY InputsAssumption DEF WaitInv, WaitType, TypeOK
      <3>2. ASSUME NEW s \in Snapshots, Enrich(s) PROVE wait'.target.kind \in Kinds
        <4>1. wait'.target = Enriched(s, request.target)
          BY <2>d, <3>2 DEF Enrich
        <4>2. SnapshotOK(s)
          BY InputsAssumption
        <4>3. Enriched(s, request.target).kind \in Kinds
          <5>1. \A t : TargetOK(t) => Enriched(s, t).kind \in Kinds
            BY ONLY <4>2, EnrichedKind
          <5> QED BY <3>1, <5>1
        <4> QED BY <4>1, <4>3
      <3>3. CASE UNCHANGED wait
        BY <3>3
      <3> QED BY <2>1, <3>1, <3>2, <3>3 DEF EnrichTarget
    <2>2. CASE WaiterNext /\ ~EnrichTarget
      <3>1. wait'.target = wait.target
        BY <2>2, <2>d DEF WaiterNext, StartWait, ReadState, CaptureState, Decide, DecideOn,
           RevisionArrives, DeadlinePasses, AttachSnapshot
      <3> QED BY <3>1
    <2>3. CASE ApplyDiff \/ DiffFails \/ Recapture \/ Publish \/ Tick
      BY <2>3, OthersLeaveWait
    <2>4. CASE UNCHANGED vars
      BY <2>4 DEF vars
    <2> QED BY <2>1, <2>2, <2>3, <2>4 DEF Next
  <1>3. WaitInv /\ KnownKind => SelectionsAgree
    <2> SUFFICES ASSUME WaitInv, wait.target.kind \in Kinds PROVE SelectionsAgree
      BY DEF KnownKind
    <2>1. SnapshotOK(cache.snapshot)
      BY InputsAssumption DEF WaitInv, WaitType, TypeOK
    <2> QED BY <2>1, SelectionsAgreeAnywhere DEF SelectionsAgree
  <1> QED BY <1>1, <1>2, <1>3, WaitInvariant, PTL DEF Spec

=============================================================================
