-------------------------- MODULE SnapshotDiffProofs --------------------------
(***************************************************************************)
(* What diff_snapshots and UiStateStore::apply_diff do together, for all   *)
(* windows that WindowsAssumption and RootsAssumption admit: the           *)
(* difference of two snapshots applies to what the daemon holds of the     *)
(* first, and leaves what it may hold of the second.  The list of windows  *)
(* is followed through the operations, one id after the other; recursive   *)
(* functions are shown to be defined by minimal counterexamples.           *)
(***************************************************************************)
EXTENDS WindowsObserver, FiniteSetTheorems, SequenceTheorems, WellFoundedInduction, TLAPS

-----------------------------------------------------------------------------
(* Ordering a finite set of numbers.                                       *)

\* A non-empty set of naturals has a least member.
LEMMA LeastNatural ==
    ASSUME NEW T \in SUBSET Nat, T # {}
    PROVE  \E n \in T : \A m \in T : n <= m
<1> DEFINE R == {p \in Nat \X Nat : p[1] < p[2]}
<1>1. IsWellFoundedOn(R, Nat)
  BY NatLessThanWellFounded, Zenon DEF OpToRel
<1>2. \E n \in T : \A m \in T : ~(<<m, n>> \in R)
  <2> HIDE DEF R
  <2> QED BY <1>1, WFMin
<1>3. PICK n \in T : \A m \in T : ~(<<m, n>> \in R)
  BY <1>2
<1>4. ASSUME NEW m \in T PROVE n <= m
  <2>1. m \in Nat /\ n \in Nat
    OBVIOUS
  <2>2. m < n => <<m, n>> \in R
    BY <2>1
  <2>3. ~(m < n)
    <3> HIDE DEF R
    <3> QED BY <1>3, <2>2
  <2> QED BY <2>1, <2>3
<1> QED BY <1>4

Increasing(q) == \A i, j \in DOMAIN q : i < j => q[i] < q[j]

\* The members of a finite set of naturals can be put in order.
LEMMA AscendingExists ==
    ASSUME NEW S, IsFiniteSet(S), S \subseteq Nat
    PROVE  \E q \in [1 .. Cardinality(S) -> S] : Increasing(q)
<1> DEFINE Sized(T, n) == IsFiniteSet(T) /\ T \subseteq Nat /\ Cardinality(T) = n
           Sortable(T, n) == \E q \in [1 .. n -> T] : Increasing(q)
           bad == {n \in Nat : \E T : Sized(T, n) /\ ~Sortable(T, n)}
<1>1. SUFFICES ASSUME bad # {} PROVE FALSE
  <2>1. Cardinality(S) \in Nat
    BY FS_CardinalityType
  <2> QED BY <2>1
<1>2. PICK n \in bad : \A m \in bad : n <= m
  <2>1. bad \in SUBSET Nat
    OBVIOUS
  <2> HIDE DEF bad
  <2> QED BY <1>1, <2>1, LeastNatural
<1>3. PICK T : Sized(T, n) /\ ~Sortable(T, n)
  OBVIOUS
<1>4. n # 0
  <2> SUFFICES ASSUME n = 0 PROVE FALSE
    OBVIOUS
  <2> DEFINE q == [i \in 1 .. 0 |-> i]
  <2>1. q \in [1 .. 0 -> T] /\ Increasing(q)
    BY DEF Increasing
  <2> QED BY <1>3, <2>1
<1>5. PICK x \in T : \A y \in T : x <= y
  <2>1. T # {}
    BY <1>3, <1>4, FS_EmptySet
  <2> QED BY <1>3, <2>1, LeastNatural
<1> DEFINE U == T \ {x}
<1>6. Sized(U, n - 1) /\ n - 1 \in Nat
  BY <1>3, <1>4, <1>5, FS_RemoveElement
<1>7. PICK p \in [1 .. n - 1 -> U] : Increasing(p)
  <2>1. n - 1 \notin bad
    <3> HIDE DEF bad
    <3>1. n \in Nat
      BY DEF bad
    <3> QED BY <1>2, <3>1
  <2> HIDE DEF Sized
  <2> QED BY <1>6, <2>1
<1> DEFINE q == [i \in 1 .. n |-> IF i = 1 THEN x ELSE p[i - 1]]
<1>8. /\ q \in [1 .. n -> T]
      /\ \A i \in 1 .. n : i # 1 => i - 1 \in 1 .. n - 1 /\ q[i] = p[i - 1] /\ q[i] \in U
      /\ q[1] = x
  BY <1>5, <1>6
<1>9. Increasing(q)
  <2> SUFFICES ASSUME NEW i \in 1 .. n, NEW j \in 1 .. n, i < j PROVE q[i] < q[j]
    BY <1>8 DEF Increasing
  <2>1. q[j] = p[j - 1] /\ q[j] \in U /\ j - 1 \in 1 .. n - 1
    BY <1>8
  <2>2. CASE i = 1
    <3>1. q[i] = x /\ x <= q[j] /\ x # q[j] /\ x \in Nat /\ q[j] \in Nat
      BY <1>3, <1>5, <1>8, <2>1, <2>2
    <3> QED BY <3>1
  <2>3. CASE i # 1
    <3>1. q[i] = p[i - 1] /\ i - 1 \in 1 .. n - 1 /\ i - 1 < j - 1
      BY <1>8, <2>3
    <3> HIDE DEF q
    <3> QED BY <1>7, <2>1, <3>1 DEF Increasing
  <2> QED BY <2>2, <2>3
<1>10. Sortable(T, n)
  <2> HIDE DEF q
  <2> QED BY <1>8, <1>9
<1> QED BY <1>3, <1>10

\* Ascending lists every member once, in order.
LEMMA AscendingProperties ==
    ASSUME NEW S, IsFiniteSet(S), S \subseteq Nat
    PROVE  /\ Ascending(S) \in Seq(S)
           /\ Len(Ascending(S)) = Cardinality(S)
           /\ Increasing(Ascending(S))
           /\ \A x \in S : \E i \in DOMAIN Ascending(S) : Ascending(S)[i] = x
<1> DEFINE n == Cardinality(S)
           q == Ascending(S)
<1>1. n \in Nat
  BY FS_CardinalityType
<1>2. q \in [1 .. n -> S] /\ Increasing(q)
  <2>1. \E f \in [1 .. n -> S] : \A i, j \in DOMAIN f : i < j => f[i] < f[j]
    BY AscendingExists DEF Increasing
  <2> QED BY <2>1, Zenon DEF Ascending, Increasing
<1> HIDE DEF q
<1>3. q \in Injection(1 .. n, S)
  <2>1. ASSUME NEW i \in 1 .. n, NEW j \in 1 .. n, q[i] = q[j] PROVE i = j
    <3>0. q[i] \in S /\ q[j] \in S
      BY <1>2
    <3>1. q[i] \in Nat /\ q[j] \in Nat
      BY <3>0
    <3>2. i \in Int /\ j \in Int
      BY <1>1
    <3>3. ~(i < j) /\ ~(j < i)
      BY <1>2, <2>1, <3>1 DEF Increasing
    <3> QED BY <3>2, <3>3
  <2> QED BY <1>2, <2>1 DEF Injection, IsInjective
<1>4. q \in Surjection(1 .. n, S)
  <2>1. IsFiniteSet(1 .. n) /\ Cardinality(1 .. n) = n
    BY <1>1, FS_Interval
  <2> QED BY <1>3, <2>1, FS_Injection
<1>5. \A x \in S : \E i \in DOMAIN q : q[i] = x
  BY <1>2, <1>4 DEF Surjection
<1>6. q \in Seq(S) /\ Len(q) = n
  BY <1>1, <1>2
<1> QED BY <1>2, <1>5, <1>6 DEF q

\* A bounded set of naturals has a greatest member, which Max gives.
LEMMA MaxOfPlaces ==
    ASSUME NEW n \in Nat, NEW S \in SUBSET (1 .. n), S # {}
    PROVE  Max(S) \in S
<1> DEFINE far == {n - x : x \in S}
<1>1. far \in SUBSET Nat /\ far # {}
  <2>1. \A x \in S : n - x \in Nat
    OBVIOUS
  <2> QED BY <2>1
<1>2. PICK d \in far : \A e \in far : d <= e
  <2> HIDE DEF far
  <2> QED BY <1>1, LeastNatural
<1>3. PICK x \in S : d = n - x
  OBVIOUS
<1>4. \A y \in S : n - y \in far /\ y \in Nat /\ x \in Nat
  OBVIOUS
<1>5. \A y \in S : x >= y
  <2> HIDE DEF far
  <2> QED BY <1>2, <1>3, <1>4
<1>6. (CHOOSE z \in S : \A y \in S : z >= y) \in S
  BY <1>5
<1> QED BY <1>6 DEF Max

-----------------------------------------------------------------------------
(* Lists of windows.                                                       *)

Held == UNION {Cached(v) : v \in Views}

\* What the daemon holds lists no id twice.
ListOK(windows) ==
    /\ windows \in Seq(Held)
    /\ \A i, j \in DOMAIN windows : windows[i].id = windows[j].id => i = j

\* What a session is shown is in the order of the ids.
ViewOK(windows) ==
    /\ windows \in Seq(Views)
    /\ \A i, j \in DOMAIN windows : i < j => windows[i].id < windows[j].id

OneEach(W) == \A v, w \in W : v.id = w.id => v = w

\* exact: nothing has been ambiguous.
Allowed(exact, w) == IF exact THEN {w} ELSE Cached(w)

\* The list holds these windows, each perhaps with its focus moved.
Tells(exact, windows, W) ==
    /\ ListOK(windows)
    /\ \A i \in DOMAIN windows : \E w \in W : windows[i] \in Allowed(exact, w)
    /\ \A w \in W : \E i \in DOMAIN windows : windows[i] \in Allowed(exact, w)

LEMMA CachedWindow ==
    ASSUME NEW v \in Views, NEW c \in Cached(v)
    PROVE  /\ c.id = v.id /\ c \in Held /\ v \in Cached(v)
           /\ \A root : [c EXCEPT !.root = root] = [v EXCEPT !.root = root]
<1>1. v = [id |-> v.id, pid |-> v.pid, process_name |-> v.process_name,
           title |-> v.title, backend |-> v.backend, root |-> v.root]
  BY WindowsAssumption
<1>2. c \in Held /\ v \in Cached(v)
  BY DEF Held, Cached
<1>3. c = v \/ \E root : c = [v EXCEPT !.root = root]
  BY DEF Cached, Refocused
<1>4. CASE c = v
  BY <1>2, <1>4
<1>5. CASE \E root : c = [v EXCEPT !.root = root]
  <2>1. PICK root : c = [v EXCEPT !.root = root]
    BY <1>5
  <2>2. c.id = v.id
    BY <1>1, <2>1
  <2>3. \A other : [c EXCEPT !.root = other] = [v EXCEPT !.root = other]
    BY <1>1, <2>1
  <2> QED BY <1>2, <2>2, <2>3
<1> QED BY <1>3, <1>4, <1>5

LEMMA AllowedWindow ==
    ASSUME NEW exact \in BOOLEAN, NEW v \in Views
    PROVE  Allowed(exact, v) \subseteq Cached(v) /\ v \in Allowed(exact, v)
BY DEF Allowed, Cached

LEMMA IndexOf ==
    ASSUME NEW windows, ListOK(windows), NEW i \in DOMAIN windows
    PROVE  Index(windows, windows[i].id) = {i} /\ Min({i}) = i
<1>1. Index(windows, windows[i].id) = {i}
  BY DEF Index, ListOK
<1>2. i \in Nat
  BY DEF ListOK
<1>3. Min({i}) = i
  BY <1>2 DEF Min
<1> QED BY <1>1, <1>3

\* A window of the list is exchanged for another with its id.
LEMMA Exchanged ==
    ASSUME NEW exact \in BOOLEAN, NEW W \in SUBSET Views, OneEach(W),
           NEW windows, Tells(exact, windows, W),
           NEW p \in W, NEW i \in DOMAIN windows, windows[i] \in Allowed(exact, p),
           NEW v \in Views, v.id = p.id, NEW c \in Allowed(exact, v)
    PROVE  Tells(exact, [windows EXCEPT ![i] = c], (W \ {p}) \cup {v})
<1> DEFINE changed == [windows EXCEPT ![i] = c]
           X == (W \ {p}) \cup {v}
<1>0. windows \in Seq(Held) /\ c \in Held
  BY AllowedWindow, CachedWindow DEF Tells, ListOK
<1>1. /\ changed \in Seq(Held) /\ DOMAIN changed = DOMAIN windows /\ changed[i] = c
      /\ \A j \in DOMAIN windows : j # i => changed[j] = windows[j]
  BY <1>0
<1>2. \A w \in Views : \A d \in Allowed(exact, w) : d.id = w.id
  BY AllowedWindow, CachedWindow
<1>3. c.id = p.id /\ windows[i].id = p.id
  BY <1>2
<1>4. \A j \in DOMAIN windows : changed[j].id = windows[j].id
  BY <1>1, <1>3
<1> HIDE DEF changed, X
<1>5. ListOK(changed)
  BY <1>1, <1>4 DEF ListOK, Tells
<1>6. ASSUME NEW j \in DOMAIN changed PROVE \E w \in X : changed[j] \in Allowed(exact, w)
  <2>1. CASE j = i
    BY <1>1, <2>1 DEF X
  <2>2. CASE j # i
    <3>1. PICK w \in W : windows[j] \in Allowed(exact, w)
      BY <1>1 DEF Tells
    <3>2. windows[j].id = w.id /\ windows[j].id # windows[i].id
      BY <1>1, <1>2, <2>2, <3>1 DEF Tells, ListOK
    <3>3. w \in X
      BY <1>3, <3>2 DEF X
    <3> QED BY <1>1, <2>2, <3>1, <3>3
  <2> QED BY <2>1, <2>2
<1>7. ASSUME NEW w \in X PROVE \E j \in DOMAIN changed : changed[j] \in Allowed(exact, w)
  <2>1. CASE w = v
    BY <1>1, <2>1
  <2>2. CASE w # v
    <3>1. w \in W /\ w # p
      BY <2>2 DEF X
    <3>2. PICK j \in DOMAIN windows : windows[j] \in Allowed(exact, w)
      BY <3>1 DEF Tells
    <3>3. w.id # p.id
      BY <3>1 DEF OneEach
    <3>4. j # i
      BY <1>2, <1>3, <3>1, <3>2, <3>3
    <3> QED BY <1>1, <3>2, <3>4
  <2> QED BY <2>1, <2>2
<1>8. Tells(exact, changed, X)
  BY <1>5, <1>6, <1>7 DEF Tells
<1> QED BY <1>8 DEF changed, X

\* WindowAdded of a window whose id is new.
LEMMA WindowIsAdded ==
    ASSUME NEW exact \in BOOLEAN, NEW W \in SUBSET Views,
           NEW windows, Tells(exact, windows, W),
           NEW v \in Views, \A w \in W : w.id # v.id
    PROVE  LET run == upsert_window(windows, v)
           IN  /\ run.ok /\ Tells(exact, run.content, W \cup {v})
               /\ \E i \in DOMAIN run.content : run.content[i] = v
<1> DEFINE added == Append(windows, v)
<1>1. \A w \in Views : \A d \in Allowed(exact, w) : d.id = w.id
  BY AllowedWindow, CachedWindow
<1>2. \A i \in DOMAIN windows : windows[i].id # v.id
  BY <1>1 DEF Tells
<1>3. upsert_window(windows, v) = Done(added)
  BY <1>2, Zenon DEF upsert_window, Index
<1>4. windows \in Seq(Held) /\ v \in Held
  BY CachedWindow DEF Tells, ListOK, Cached
<1>5. /\ added \in Seq(Held) /\ Len(windows) \in Nat
      /\ DOMAIN windows = 1 .. Len(windows) /\ DOMAIN added = 1 .. Len(windows) + 1
      /\ added[Len(windows) + 1] = v
      /\ \A i \in DOMAIN windows : added[i] = windows[i]
  BY <1>4
<1> HIDE DEF added
<1>6. \A i \in DOMAIN added : i \in DOMAIN windows \/ i = Len(windows) + 1
  BY <1>5
<1>7. ListOK(added)
  BY <1>2, <1>5, <1>6 DEF ListOK, Tells
<1>8. \A i \in DOMAIN added : \E w \in W \cup {v} : added[i] \in Allowed(exact, w)
  <2> SUFFICES ASSUME NEW i \in DOMAIN added PROVE \E w \in W \cup {v} : added[i] \in Allowed(exact, w)
    OBVIOUS
  <2>1. CASE i \in DOMAIN windows
    BY <1>5, <2>1 DEF Tells
  <2>2. CASE i = Len(windows) + 1
    BY <1>5, <2>2, AllowedWindow
  <2> QED BY <1>6, <2>1, <2>2
<1>9. \A w \in W \cup {v} : \E i \in DOMAIN added : added[i] \in Allowed(exact, w)
  <2> SUFFICES ASSUME NEW w \in W \cup {v} PROVE \E i \in DOMAIN added : added[i] \in Allowed(exact, w)
    OBVIOUS
  <2>1. Len(windows) + 1 \in DOMAIN added /\ DOMAIN windows \subseteq DOMAIN added
    BY <1>5
  <2>2. CASE w \in W
    <3>1. PICK i \in DOMAIN windows : windows[i] \in Allowed(exact, w)
      BY <2>2 DEF Tells
    <3> QED BY <1>5, <2>1, <3>1
  <2>3. CASE w = v
    BY <1>5, <2>1, <2>3, AllowedWindow
  <2> QED BY <2>2, <2>3
<1>10. \E i \in DOMAIN added : added[i] = v
  <2>1. Len(windows) + 1 \in DOMAIN added
    BY <1>5
  <2> QED BY <1>5, <2>1
<1> QED BY <1>3, <1>7, <1>8, <1>9, <1>10 DEF Done, Tells

\* WindowRemoved.
LEMMA WindowIsRemoved ==
    ASSUME NEW exact \in BOOLEAN, NEW W \in SUBSET Views, OneEach(W),
           NEW windows, Tells(exact, windows, W), NEW p \in W
    PROVE  LET run == remove_window(windows, p.id)
           IN  run.ok /\ Tells(exact, run.content, W \ {p})
<1>1. \A w \in Views : \A d \in Allowed(exact, w) : d.id = w.id
  BY AllowedWindow, CachedWindow
<1>2. PICK at \in DOMAIN windows : windows[at] \in Allowed(exact, p)
  BY DEF Tells
<1>3. windows[at].id = p.id
  BY <1>1, <1>2
<1> DEFINE left == [i \in 1 .. Len(windows) - 1 |-> IF i < at THEN windows[i] ELSE windows[i + 1]]
<1>4. remove_window(windows, p.id) = Done(left)
  <2>1. Index(windows, p.id) = {at} /\ Min({at}) = at
    BY <1>3, IndexOf DEF Tells
  <2> QED BY <2>1 DEF remove_window
<1>5. /\ windows \in Seq(Held) /\ Len(windows) \in Nat /\ DOMAIN windows = 1 .. Len(windows)
      /\ at \in 1 .. Len(windows)
  BY DEF Tells, ListOK
<1>6. \A i \in 1 .. Len(windows) - 1 :
        /\ i \in DOMAIN windows /\ i + 1 \in DOMAIN windows /\ i \in Nat
        /\ i < at => left[i] = windows[i]
        /\ ~(i < at) => left[i] = windows[i + 1]
  BY <1>5
<1>7. left \in Seq(Held) /\ DOMAIN left = 1 .. Len(windows) - 1
  <2>1. \A i \in 1 .. Len(windows) - 1 : left[i] \in Held
    BY <1>5, <1>6
  <2>2. Len(windows) - 1 \in Nat
    BY <1>5
  <2> QED BY <2>1, <2>2
<1> HIDE DEF left
\* Each place in what is left is another place of the list.
<1>8. \A i \in DOMAIN left :
        \E j \in DOMAIN windows : /\ j # at /\ left[i] = windows[j]
                                  /\ j = IF i < at THEN i ELSE i + 1
  BY <1>5, <1>6, <1>7
<1>9. \A j \in DOMAIN windows : j # at => \E i \in DOMAIN left : left[i] = windows[j]
  <2> SUFFICES ASSUME NEW j \in DOMAIN windows, j # at PROVE \E i \in DOMAIN left : left[i] = windows[j]
    OBVIOUS
  <2>1. CASE j < at
    <3>1. j \in DOMAIN left
      BY <1>5, <1>7, <2>1
    <3> QED BY <1>6, <1>7, <2>1, <3>1
  <2>2. CASE ~(j < at)
    <3>1. j - 1 \in DOMAIN left /\ ~(j - 1 < at) /\ (j - 1) + 1 = j
      BY <1>5, <1>7, <2>2
    <3> QED BY <1>6, <1>7, <3>1
  <2> QED BY <2>1, <2>2
<1>10. ListOK(left)
  <2> SUFFICES ASSUME NEW i \in DOMAIN left, NEW j \in DOMAIN left, left[i].id = left[j].id
               PROVE  i = j
    BY <1>7 DEF ListOK
  <2>1. (IF i < at THEN i ELSE i + 1) = (IF j < at THEN j ELSE j + 1)
    BY <1>8 DEF Tells, ListOK
  <2> QED BY <1>5, <1>7, <2>1
<1>11. \A i \in DOMAIN left : \E w \in W \ {p} : left[i] \in Allowed(exact, w)
  <2> SUFFICES ASSUME NEW i \in DOMAIN left PROVE \E w \in W \ {p} : left[i] \in Allowed(exact, w)
    OBVIOUS
  <2>1. PICK j \in DOMAIN windows : j # at /\ left[i] = windows[j]
    BY <1>8
  <2>2. PICK w \in W : windows[j] \in Allowed(exact, w)
    BY DEF Tells
  <2>3. windows[j].id # windows[at].id
    BY <2>1 DEF Tells, ListOK
  <2>4. w # p
    BY <1>1, <1>3, <2>2, <2>3
  <2> QED BY <2>1, <2>2, <2>4
<1>12. \A w \in W \ {p} : \E i \in DOMAIN left : left[i] \in Allowed(exact, w)
  <2> SUFFICES ASSUME NEW w \in W \ {p} PROVE \E i \in DOMAIN left : left[i] \in Allowed(exact, w)
    OBVIOUS
  <2>1. PICK j \in DOMAIN windows : windows[j] \in Allowed(exact, w)
    BY DEF Tells
  <2>2. w.id # p.id
    BY DEF OneEach
  <2>3. j # at
    BY <1>1, <1>3, <2>1, <2>2
  <2> QED BY <1>9, <2>1, <2>3
<1> QED BY <1>4, <1>10, <1>11, <1>12 DEF Done, Tells

\* Where the list holds a window, and that it holds it once.
LEMMA PlaceOf ==
    ASSUME NEW exact \in BOOLEAN, NEW W \in SUBSET Views, OneEach(W),
           NEW windows, Tells(exact, windows, W), NEW p \in W
    PROVE  \E i \in DOMAIN windows :
              /\ windows[i] \in Allowed(exact, p)
              /\ \A j \in DOMAIN windows : j # i =>
                    \E w \in W : windows[j] \in Allowed(exact, w) /\ w.id # p.id
<1>1. \A w \in Views : \A d \in Allowed(exact, w) : d.id = w.id
  BY AllowedWindow, CachedWindow
<1>2. PICK i \in DOMAIN windows : windows[i] \in Allowed(exact, p)
  BY DEF Tells
<1>3. ASSUME NEW j \in DOMAIN windows, j # i
      PROVE  \E w \in W : windows[j] \in Allowed(exact, w) /\ w.id # p.id
  <2>1. PICK w \in W : windows[j] \in Allowed(exact, w)
    BY DEF Tells
  <2>2. windows[j].id # windows[i].id
    BY <1>3 DEF Tells, ListOK
  <2> QED BY <1>1, <1>2, <2>1, <2>2
<1> QED BY <1>2, <1>3

\* NodeReplaced of a window's root.
LEMMA RootIsReplaced ==
    ASSUME NEW exact \in BOOLEAN, NEW W \in SUBSET Views, OneEach(W),
           NEW windows, Tells(exact, windows, W),
           NEW p \in W, NEW v \in Views, v.id = p.id, same_window_shell(p, v)
    PROVE  LET run == replace_node(windows, p.root.id, v.root)
           IN  /\ run.ok /\ Tells(exact, run.content, (W \ {p}) \cup {v})
               /\ \E i \in DOMAIN run.content : run.content[i] = v
<1>1. PICK i \in DOMAIN windows :
              /\ windows[i] \in Allowed(exact, p)
              /\ \A j \in DOMAIN windows : j # i =>
                    \E w \in W : windows[j] \in Allowed(exact, w) /\ w.id # p.id
  BY PlaceOf
<1>2. windows[i] \in Cached(p)
  BY <1>1, AllowedWindow
<1>3. InTree(windows[i].root, p.root.id)
  BY <1>2, RootsAssumption
<1>4. ASSUME NEW j \in DOMAIN windows, j # i PROVE ~InTree(windows[j].root, p.root.id)
  <2>1. PICK w \in W : windows[j] \in Allowed(exact, w) /\ w.id # p.id
    BY <1>1, <1>4
  <2>2. windows[j] \in Cached(w)
    BY <2>1, AllowedWindow
  <2> QED BY <2>1, <2>2, RootsAssumption
<1>5. Holding(windows, p.root.id) = {i}
  BY <1>3, <1>4 DEF Holding
<1>6. Min({i}) = i
  BY IndexOf DEF Tells
<1>7. WithNode(windows[i].root, p.root.id, v.root) = v.root
  BY <1>2, RootsAssumption
<1>8. [windows[i] EXCEPT !.root = v.root] = v
  <2>1. [windows[i] EXCEPT !.root = v.root] = [p EXCEPT !.root = v.root]
    BY <1>2, CachedWindow
  <2>2. /\ p = [id |-> p.id, pid |-> p.pid, process_name |-> p.process_name,
                title |-> p.title, backend |-> p.backend, root |-> p.root]
        /\ v = [id |-> v.id, pid |-> v.pid, process_name |-> v.process_name,
                title |-> v.title, backend |-> v.backend, root |-> v.root]
    BY WindowsAssumption
  <2>3. /\ p.pid = v.pid /\ p.process_name = v.process_name
        /\ p.title = v.title /\ p.backend = v.backend
    BY DEF same_window_shell
  <2>4. [p EXCEPT !.root = v.root] =
           [id |-> p.id, pid |-> p.pid, process_name |-> p.process_name,
            title |-> p.title, backend |-> p.backend, root |-> v.root]
    BY <2>2
  <2> QED BY <2>1, <2>2, <2>3, <2>4
<1> DEFINE changed == [windows EXCEPT ![i] = v]
<1>9. [windows EXCEPT ![i].root = WithNode(@, p.root.id, v.root)] = changed
  BY <1>7, <1>8
<1>10. replace_node(windows, p.root.id, v.root) = Done(changed)
  BY <1>5, <1>6, <1>9 DEF replace_node
<1>11. v \in Allowed(exact, v)
  BY AllowedWindow
<1>12. Tells(exact, changed, (W \ {p}) \cup {v})
  BY <1>1, <1>11, Exchanged
<1>13. i \in DOMAIN changed /\ changed[i] = v
  BY DEF Tells, ListOK
<1> HIDE DEF changed
<1> QED BY <1>10, <1>12, <1>13 DEF Done

\* FocusChanged of a window the list holds as it is.
LEMMA FocusIsMoved ==
    ASSUME NEW exact \in BOOLEAN, NEW W \in SUBSET Views, OneEach(W),
           NEW windows, Tells(exact, windows, W), NEW v \in W,
           exact => ~HasAmbiguity(v),
           \E i \in DOMAIN windows : windows[i] = v
    PROVE  LET run == apply_focus_change(windows, v.id, FocusOf(v.root))
           IN  run.ok /\ Tells(exact, run.content, W)
<1>1. PICK i \in DOMAIN windows : windows[i] = v
  OBVIOUS
<1> DEFINE e       == FocusOf(v.root)
           cleared == WithoutFocus(v.root)
           root    == IF e = NoFocus THEN cleared ELSE WithFocus(cleared, e)
           changed == [windows EXCEPT ![i].root = root]
<1>2. Index(windows, v.id) = {i} /\ Min({i}) = i
  BY <1>1, IndexOf DEF Tells
<1>3. e # NoFocus => InTree(cleared, e)
  BY RootsAssumption
<1>4. apply_focus_change(windows, v.id, e) = Done(changed)
  <2>1. CASE e = NoFocus
    BY <1>1, <1>2, <2>1, Zenon DEF apply_focus_change
  <2>2. CASE e # NoFocus
    BY <1>1, <1>2, <1>3, <2>2, Zenon DEF apply_focus_change
  <2> QED BY <2>1, <2>2
<1>5. changed = [windows EXCEPT ![i] = Refocused(v)]
  BY <1>1 DEF Refocused
<1>6. Refocused(v) \in Allowed(exact, v)
  BY RootsAssumption DEF Allowed, Cached
<1>7. windows[i] \in Allowed(exact, v)
  BY <1>1, AllowedWindow
<1>8. (W \ {v}) \cup {v} = W
  OBVIOUS
<1>9. Tells(exact, [windows EXCEPT ![i] = Refocused(v)], (W \ {v}) \cup {v})
  BY <1>6, <1>7, Exchanged
<1>10. Tells(exact, changed, W)
  <2> HIDE DEF changed
  <2> QED BY <1>5, <1>8, <1>9
<1> HIDE DEF changed
<1>11. apply_focus_change(windows, v.id, FocusOf(v.root)) = Done(changed)
  BY <1>4
<1> QED BY <1>10, <1>11 DEF Done

-----------------------------------------------------------------------------
(* The operations for one window.                                          *)

\* The operations run one after the other from place m on, as long as none fails.
RunsFrom(run, m, ops) ==
    \A k \in 1 .. Len(ops) :
        run[m + k - 1].ok => run[m + k] = apply_diff_op(run[m + k - 1].content, ops[k])

LEMMA OpApplied ==
    ASSUME NEW windows
    PROVE  /\ \A w : apply_diff_op(windows, [op |-> "WindowAdded", window |-> w])
                        = upsert_window(windows, w)
           /\ \A w : apply_diff_op(windows, [op |-> "WindowRemoved", window_id |-> w])
                        = remove_window(windows, w)
           /\ \A e, node :
                 apply_diff_op(windows, [op |-> "NodeReplaced", element_id |-> e, node |-> node])
                    = replace_node(windows, e, node)
           /\ \A w, e :
                 apply_diff_op(windows, [op |-> "FocusChanged", window_id |-> w, element_id |-> e])
                    = apply_focus_change(windows, w, e)
<1>1. ASSUME NEW w
      PROVE  apply_diff_op(windows, [op |-> "WindowAdded", window |-> w]) = upsert_window(windows, w)
  BY DEF apply_diff_op
<1>2. ASSUME NEW w
      PROVE  apply_diff_op(windows, [op |-> "WindowRemoved", window_id |-> w]) = remove_window(windows, w)
  BY DEF apply_diff_op
<1>3. ASSUME NEW e, NEW node
      PROVE  apply_diff_op(windows, [op |-> "NodeReplaced", element_id |-> e, node |-> node])
                = replace_node(windows, e, node)
  BY DEF apply_diff_op
<1>4. ASSUME NEW w, NEW e
      PROVE  apply_diff_op(windows, [op |-> "FocusChanged", window_id |-> w, element_id |-> e])
                = apply_focus_change(windows, w, e)
  BY DEF apply_diff_op
<1> QED BY <1>1, <1>2, <1>3, <1>4

\* Running a list of operations is running its two parts.
LEMMA RunsSplit ==
    ASSUME NEW S, NEW a \in Seq(S), NEW b \in Seq(S), NEW run, NEW m \in Nat,
           RunsFrom(run, m, a \o b)
    PROVE  RunsFrom(run, m, a) /\ RunsFrom(run, m + Len(a), b)
<1>1. /\ Len(a) \in Nat /\ Len(b) \in Nat /\ Len(a \o b) = Len(a) + Len(b)
      /\ \A k \in 1 .. Len(a) : (a \o b)[k] = a[k]
      /\ \A k \in 1 .. Len(b) : (a \o b)[Len(a) + k] = b[k]
  OBVIOUS
<1>2. ASSUME NEW k \in 1 .. Len(a), run[m + k - 1].ok
      PROVE  run[m + k] = apply_diff_op(run[m + k - 1].content, a[k])
  <2>1. k \in 1 .. Len(a \o b)
    BY <1>1
  <2>2. run[m + k] = apply_diff_op(run[m + k - 1].content, (a \o b)[k])
    BY <1>2, <2>1 DEF RunsFrom
  <2> QED BY <1>1, <2>2
<1>3. ASSUME NEW k \in 1 .. Len(b), run[m + Len(a) + k - 1].ok
      PROVE  run[m + Len(a) + k] = apply_diff_op(run[m + Len(a) + k - 1].content, b[k])
  <2>1. /\ Len(a) + k \in 1 .. Len(a \o b)
        /\ m + (Len(a) + k) - 1 = m + Len(a) + k - 1 /\ m + (Len(a) + k) = m + Len(a) + k
    BY <1>1
  <2>2. run[m + (Len(a) + k) - 1].ok =>
          run[m + (Len(a) + k)] = apply_diff_op(run[m + (Len(a) + k) - 1].content, (a \o b)[Len(a) + k])
    BY <2>1 DEF RunsFrom
  <2> QED BY <1>1, <1>3, <2>1, <2>2
<1> QED BY <1>2, <1>3 DEF RunsFrom

\* One operation runs.
LEMMA RunsOne ==
    ASSUME NEW run, NEW m \in Nat, NEW op, RunsFrom(run, m, << op >>), run[m].ok
    PROVE  run[m + 1] = apply_diff_op(run[m].content, op)
<1>1. 1 \in 1 .. Len(<< op >>) /\ m + 1 - 1 = m
  OBVIOUS
<1>2. run[m + 1 - 1].ok => run[m + 1] = apply_diff_op(run[m + 1 - 1].content, << op >>[1])
  BY <1>1 DEF RunsFrom
<1> QED BY <1>1, <1>2

\* What the operations on one window leave behind: the list tells of these windows.
Good(exact, run, m, W) == run[m].ok /\ Tells(exact, run[m].content, W)

\* The list holds this window as it is.
HoldsExactly(run, m, v) == \E i \in DOMAIN run[m].content : run[m].content[i] = v

\* The operations before the one that moves the focus.
BodyOps(p, v) ==
    IF ~same_window_shell(p, v)
      THEN << [op |-> "WindowRemoved", window_id |-> v.id], [op |-> "WindowAdded", window |-> v] >>
    ELSE IF p.root # v.root
      THEN << [op |-> "NodeReplaced", element_id |-> p.root.id, node |-> v.root] >>
    ELSE << >>

LEMMA BodyIsRun ==
    ASSUME NEW exact \in BOOLEAN, NEW W \in SUBSET Views, OneEach(W),
           NEW p \in W, NEW v \in Views, v.id = p.id, p # v,
           NEW run, NEW m \in Nat, Good(exact, run, m, W), RunsFrom(run, m, BodyOps(p, v))
    PROVE  LET n == m + Len(BodyOps(p, v))
           IN  Good(exact, run, n, (W \ {p}) \cup {v}) /\ HoldsExactly(run, n, v)
<1> DEFINE X == (W \ {p}) \cup {v}
<1>1. CASE ~same_window_shell(p, v)
  <2> DEFINE removed == [op |-> "WindowRemoved", window_id |-> v.id]
             added   == [op |-> "WindowAdded", window |-> v]
  <2>1. BodyOps(p, v) = << removed >> \o << added >> /\ Len(BodyOps(p, v)) = 2
    BY <1>1 DEF BodyOps
  <2>2. /\ << removed >> \in Seq({removed, added}) /\ << added >> \in Seq({removed, added})
        /\ Len(<< removed >>) = 1
    OBVIOUS
  <2>3. apply_diff_op(run[m].content, removed) = remove_window(run[m].content, v.id)
    BY OpApplied
  <2>4. apply_diff_op(run[m + 1].content, added) = upsert_window(run[m + 1].content, v)
    BY OpApplied
  <2> HIDE DEF removed, added
  <2>5. RunsFrom(run, m, << removed >>) /\ RunsFrom(run, m + 1, << added >>)
    <3> DEFINE a == << removed >>
               b == << added >>
    <3>1. a \in Seq({removed, added}) /\ b \in Seq({removed, added}) /\ Len(a) = 1
      BY <2>2
    <3>2. RunsFrom(run, m, a \o b)
      BY <2>1
    <3> HIDE DEF a, b
    <3>3. RunsFrom(run, m, a) /\ RunsFrom(run, m + Len(a), b)
      BY <3>1, <3>2, RunsSplit
    <3>4. RunsFrom(run, m, a) /\ RunsFrom(run, m + 1, b)
      BY <3>1, <3>3
    <3> QED BY <3>4 DEF a, b
  <2>6. run[m + 1] = remove_window(run[m].content, p.id)
    BY <2>3, <2>5, RunsOne DEF Good
  <2>7. run[m + 1].ok /\ Tells(exact, run[m + 1].content, W \ {p})
    BY <2>6, WindowIsRemoved DEF Good
  <2>8. run[m + 2] = upsert_window(run[m + 1].content, v)
    <3>1. run[m + 1 + 1] = upsert_window(run[m + 1].content, v)
      BY <2>4, <2>5, <2>7, RunsOne
    <3> QED BY <3>1
  <2>9. W \ {p} \in SUBSET Views /\ \A w \in W \ {p} : w.id # v.id
    BY DEF OneEach
  <2>10. /\ run[m + 2].ok /\ Tells(exact, run[m + 2].content, (W \ {p}) \cup {v})
         /\ \E i \in DOMAIN run[m + 2].content : run[m + 2].content[i] = v
    BY <2>7, <2>8, <2>9, WindowIsAdded
  <2> QED BY <2>1, <2>10 DEF Good, HoldsExactly
<1>2. CASE same_window_shell(p, v)
  <2>1. p.root # v.root
    <3>1. /\ p = [id |-> p.id, pid |-> p.pid, process_name |-> p.process_name,
                  title |-> p.title, backend |-> p.backend, root |-> p.root]
          /\ v = [id |-> v.id, pid |-> v.pid, process_name |-> v.process_name,
                  title |-> v.title, backend |-> v.backend, root |-> v.root]
      BY WindowsAssumption
    <3>2. /\ p.pid = v.pid /\ p.process_name = v.process_name
          /\ p.title = v.title /\ p.backend = v.backend
      BY <1>2 DEF same_window_shell
    <3> QED BY <3>1, <3>2
  <2> DEFINE replaced == [op |-> "NodeReplaced", element_id |-> p.root.id, node |-> v.root]
  <2>2. BodyOps(p, v) = << replaced >> /\ Len(BodyOps(p, v)) = 1
    BY <1>2, <2>1 DEF BodyOps
  <2>3. apply_diff_op(run[m].content, replaced) = replace_node(run[m].content, p.root.id, v.root)
    BY OpApplied
  <2> HIDE DEF replaced
  <2>4. run[m + 1] = replace_node(run[m].content, p.root.id, v.root)
    BY <2>2, <2>3, RunsOne DEF Good
  <2>5. /\ run[m + 1].ok /\ Tells(exact, run[m + 1].content, (W \ {p}) \cup {v})
        /\ \E i \in DOMAIN run[m + 1].content : run[m + 1].content[i] = v
    BY <1>2, <2>4, RootIsReplaced DEF Good
  <2> QED BY <2>2, <2>5 DEF Good, HoldsExactly
<1> QED BY <1>1, <1>2

LEMMA ChangeIsRun ==
    ASSUME NEW exact \in BOOLEAN, NEW W \in SUBSET Views, OneEach(W),
           NEW p \in W, NEW v \in Views, v.id = p.id, exact => ~HasAmbiguity(v),
           NEW run, NEW m \in Nat, Good(exact, run, m, W), RunsFrom(run, m, ChangeOps(p, v))
    PROVE  Good(exact, run, m + Len(ChangeOps(p, v)), (W \ {p}) \cup {v})
<1> DEFINE X == (W \ {p}) \cup {v}
           body == BodyOps(p, v)
           focus == FocusOps(p, v)
           ops == ChangeOps(p, v)
<1>1. ops = body \o focus
  BY DEF ChangeOps, BodyOps
<1>2. CASE p = v
  <2>1. body = << >> /\ focus = << >>
    BY <1>2 DEF BodyOps, FocusOps, same_window_shell
  <2>2. ops = << >> /\ Len(ops) = 0 /\ m + 0 = m /\ X = W
    BY <1>1, <1>2, <2>1
  <2> HIDE DEF ops, X
  <2> QED BY <2>2 DEF X, ops
<1>3. CASE p # v
  <2> DEFINE moved == [op |-> "FocusChanged", window_id |-> v.id, element_id |-> FocusOf(v.root)]
             removed == [op |-> "WindowRemoved", window_id |-> v.id]
             added == [op |-> "WindowAdded", window |-> v]
             replaced == [op |-> "NodeReplaced", element_id |-> p.root.id, node |-> v.root]
             S == {moved, removed, added, replaced}
             n == m + Len(body)
  <2>1. body \in Seq(S)
    <3>1. body = << removed, added >> \/ body = << replaced >> \/ body = << >>
      BY Zenon DEF BodyOps
    <3> HIDE DEF body, removed, added, replaced, moved
    <3>2. removed \in S /\ added \in S /\ replaced \in S
      OBVIOUS
    <3> HIDE DEF S
    <3>3. << removed, added >> \in Seq(S) /\ << replaced >> \in Seq(S) /\ << >> \in Seq(S)
      BY <3>2
    <3> QED BY <3>1, <3>3
  <2>2. focus \in Seq(S) /\ (focus = << >> \/ focus = << moved >>)
    <3>1. focus = << >> \/ focus = << moved >>
      BY Zenon DEF FocusOps
    <3> HIDE DEF focus, removed, added, replaced, moved
    <3>2. moved \in S
      OBVIOUS
    <3> HIDE DEF S
    <3>3. << moved >> \in Seq(S) /\ << >> \in Seq(S)
      BY <3>2
    <3> QED BY <3>1, <3>3
  <2>3. apply_diff_op(run[n].content, moved) = apply_focus_change(run[n].content, v.id, FocusOf(v.root))
    BY OpApplied
  <2> HIDE DEF moved, removed, added, replaced, S, body, focus, n, ops
  <2>4. /\ RunsFrom(run, m, body) /\ RunsFrom(run, n, focus) /\ n \in Nat
        /\ m + Len(ops) = n + Len(focus)
    <3>1. RunsFrom(run, m, body \o focus)
      BY <1>1 DEF ops
    <3>2. RunsFrom(run, m, body) /\ RunsFrom(run, m + Len(body), focus)
      BY <2>1, <2>2, <3>1, RunsSplit
    <3>3. Len(body) \in Nat /\ Len(focus) \in Nat /\ Len(body \o focus) = Len(body) + Len(focus)
      BY <2>1, <2>2
    <3> QED BY <1>1, <3>2, <3>3 DEF n
  <2>5. Good(exact, run, n, X) /\ HoldsExactly(run, n, v)
    BY <1>3, <2>4, BodyIsRun DEF n, body
  <2>6. X \in SUBSET Views /\ OneEach(X) /\ v \in X
    BY DEF OneEach
  <2> HIDE DEF X
  <2>7. CASE focus = << >>
    <3>1. m + Len(ops) = n
      BY <2>4, <2>7
    <3> QED BY <2>5, <3>1 DEF ops, X
  <2>8. CASE focus = << moved >>
    <3>1. m + Len(ops) = n + 1
      BY <2>4, <2>8
    <3>2. run[n + 1] = apply_focus_change(run[n].content, v.id, FocusOf(v.root))
      BY <2>3, <2>4, <2>5, <2>8, RunsOne DEF Good
    <3>3. run[n + 1].ok /\ Tells(exact, run[n + 1].content, X)
      BY <2>5, <2>6, <3>2, FocusIsMoved DEF Good, HoldsExactly
    <3> QED BY <3>1, <3>3 DEF Good, ops, X
  <2> QED BY <2>2, <2>7, <2>8
<1> QED BY <1>2, <1>3

-----------------------------------------------------------------------------
(* Running a list of operations.                                           *)

\* Running the operations is defined at every place.
RunUpTo(f, n, windows, ops) ==
    f = [k \in 0 .. n |->
            IF k = 0 THEN Done(windows)
            ELSE IF f[k - 1].ok THEN apply_diff_op(f[k - 1].content, ops[k]) ELSE f[k - 1]]

LEMMA RunExists ==
    ASSUME NEW windows, NEW ops, NEW m \in Nat
    PROVE  \E f : RunUpTo(f, m, windows, ops)
<1> DEFINE bad == {n \in Nat : ~\E f : RunUpTo(f, n, windows, ops)}
<1>1. SUFFICES ASSUME bad # {} PROVE FALSE
  OBVIOUS
<1>2. PICK n \in bad : \A k \in bad : n <= k
  <2>1. bad \in SUBSET Nat
    OBVIOUS
  <2> HIDE DEF bad
  <2> QED BY <1>1, <2>1, LeastNatural
<1>3. CASE n = 0
  <2> DEFINE f == [k \in 0 .. 0 |-> Done(windows)]
  <2>1. RunUpTo(f, 0, windows, ops)
    BY DEF RunUpTo
  <2> QED BY <1>3, <2>1
<1>4. CASE n # 0
  <2>1. n - 1 \in Nat
    BY <1>4
  <2>2. PICK g : RunUpTo(g, n - 1, windows, ops)
    BY <1>2, <2>1
  <2> DEFINE last == IF g[n - 1].ok THEN apply_diff_op(g[n - 1].content, ops[n]) ELSE g[n - 1]
             f == [k \in 0 .. n |-> IF k = n THEN last ELSE g[k]]
  <2>3. \A k \in 0 .. n : k # n => f[k] = g[k] /\ k \in 0 .. n - 1
    BY <2>1
  <2>4. f[n] = last /\ DOMAIN f = 0 .. n
    BY <2>1
  <2>5. \A k \in 0 .. n - 1 :
          g[k] = IF k = 0 THEN Done(windows)
                 ELSE IF g[k - 1].ok THEN apply_diff_op(g[k - 1].content, ops[k]) ELSE g[k - 1]
    <3> DEFINE rhs(k) == IF k = 0 THEN Done(windows)
                         ELSE IF g[k - 1].ok THEN apply_diff_op(g[k - 1].content, ops[k]) ELSE g[k - 1]
    <3>1. g = [k \in 0 .. n - 1 |-> rhs(k)]
      BY <2>2 DEF RunUpTo
    <3> HIDE DEF rhs
    <3>2. \A k \in 0 .. n - 1 : g[k] = rhs(k)
      BY <3>1
    <3> QED BY <3>2 DEF rhs
  <2>6. ASSUME NEW k \in 0 .. n
        PROVE  f[k] = IF k = 0 THEN Done(windows)
                      ELSE IF f[k - 1].ok THEN apply_diff_op(f[k - 1].content, ops[k]) ELSE f[k - 1]
    <3>1. CASE k = n
      <4>1. k # 0 /\ n - 1 \in 0 .. n /\ n - 1 # n
        BY <1>4, <2>1, <3>1
      <4>2. f[n - 1] = g[n - 1] /\ f[n] = last
        BY <2>3, <2>4, <4>1
      <4> HIDE DEF f
      <4> QED BY <3>1, <4>1, <4>2
    <3>2. CASE k # n
      <4>1. k \in 0 .. n - 1 /\ f[k] = g[k]
        BY <2>3, <3>2
      <4>2. k # 0 => f[k - 1] = g[k - 1]
        <5>1. k # 0 => k - 1 \in 0 .. n /\ k - 1 # n
          BY <2>1, <4>1
        <5> HIDE DEF f
        <5> QED BY <2>3, <5>1
      <4> HIDE DEF f
      <4>3. CASE k = 0
        BY <2>5, <4>1, <4>3
      <4>4. CASE k # 0
        <5>1. g[k] = IF g[k - 1].ok THEN apply_diff_op(g[k - 1].content, ops[k]) ELSE g[k - 1]
          BY <2>5, <4>1, <4>4
        <5> QED BY <4>1, <4>2, <4>4, <5>1, Zenon
      <4> QED BY <4>3, <4>4
    <3> QED BY <3>1, <3>2
  <2>7. RunUpTo(f, n, windows, ops)
    <3> DEFINE rhs(k) == IF k = 0 THEN Done(windows)
                         ELSE IF f[k - 1].ok THEN apply_diff_op(f[k - 1].content, ops[k]) ELSE f[k - 1]
    <3>1. \A k \in 0 .. n : f[k] = rhs(k)
      BY <2>6
    <3>2. f = [k \in 0 .. n |-> f[k]]
      OBVIOUS
    <3> HIDE DEF f, rhs
    <3>3. f = [k \in 0 .. n |-> rhs(k)]
      BY <3>1, <3>2
    <3> QED BY <3>3 DEF RunUpTo, rhs
  <2> QED BY <2>7
<1> QED BY <1>3, <1>4

LEMMA RunSteps ==
    ASSUME NEW windows, NEW ops, Len(ops) \in Nat
    PROVE  LET run == Run(windows, ops)
           IN  run[0] = Done(windows) /\ RunsFrom(run, 0, ops)
<1> DEFINE run == Run(windows, ops)
           rhs(f, k) == IF k = 0 THEN Done(windows)
                        ELSE IF f[k - 1].ok THEN apply_diff_op(f[k - 1].content, ops[k]) ELSE f[k - 1]
<1>1. RunUpTo(run, Len(ops), windows, ops)
  <2>1. run = CHOOSE f : RunUpTo(f, Len(ops), windows, ops)
    BY Zenon DEF Run, RunUpTo
  <2> QED BY <2>1, RunExists
<1>2. run = [k \in 0 .. Len(ops) |-> rhs(run, k)]
  <2> HIDE DEF run
  <2> QED BY <1>1 DEF RunUpTo
<1> HIDE DEF run
<1>3. \A k \in 0 .. Len(ops) : run[k] = rhs(run, k)
  <2> HIDE DEF rhs
  <2> QED BY <1>2
<1>4. run[0] = Done(windows)
  BY <1>3
<1>5. ASSUME NEW k \in 1 .. Len(ops), run[0 + k - 1].ok
      PROVE  run[0 + k] = apply_diff_op(run[0 + k - 1].content, ops[k])
  <2>1. k \in 0 .. Len(ops) /\ k # 0 /\ 0 + k - 1 = k - 1 /\ 0 + k = k
    OBVIOUS
  <2>2. run[k] = rhs(run, k)
    BY <1>3, <2>1
  <2> QED BY <1>5, <2>1, <2>2
<1> QED BY <1>4, <1>5 DEF RunsFrom, run

-----------------------------------------------------------------------------
(* From one snapshot to the next.                                          *)

WindowsIn(windows) == {windows[i] : i \in DOMAIN windows}

IdsIn(windows) == {windows[i].id : i \in DOMAIN windows}

\* The windows of the next snapshot for the ids that are done, those of the
\* previous one for the others.
Mix(previous, current, done) ==
    {w \in WindowsIn(current) : w.id \in done} \cup {w \in WindowsIn(previous) : w.id \notin done}

LEMMA ViewWindows ==
    ASSUME NEW windows, ViewOK(windows)
    PROVE  /\ WindowsIn(windows) \subseteq Views
           /\ OneEach(WindowsIn(windows))
           /\ IdsIn(windows) \subseteq Nat
           /\ \A i, j \in DOMAIN windows : windows[i].id = windows[j].id => i = j
<1>1. windows \in Seq(Views) /\ \A i \in DOMAIN windows : windows[i] \in Views /\ i \in Int
  BY DEF ViewOK
<1>2. \A i \in DOMAIN windows : windows[i].id \in Nat
  BY <1>1, WindowsAssumption
<1>3. ASSUME NEW i \in DOMAIN windows, NEW j \in DOMAIN windows, windows[i].id = windows[j].id
      PROVE  i = j
  <2>1. ~(i < j) /\ ~(j < i)
    BY <1>2, <1>3 DEF ViewOK
  <2> QED BY <1>1, <2>1
<1>4. OneEach(WindowsIn(windows))
  BY <1>3 DEF OneEach, WindowsIn
<1> QED BY <1>1, <1>2, <1>3, <1>4 DEF WindowsIn, IdsIn

\* The window with an id, as diff_snapshots looks it up.
LEMMA WindowWithId ==
    ASSUME NEW windows, ViewOK(windows), NEW id \in IdsIn(windows)
    PROVE  \E w \in WindowsIn(windows) :
              /\ w.id = id /\ \A x \in WindowsIn(windows) : x.id = id => x = w
              /\ Index(windows, id) # {} /\ windows[Max(Index(windows, id))] = w
<1>1. PICK i \in DOMAIN windows : windows[i].id = id
  BY DEF IdsIn
<1>2. Index(windows, id) = {i}
  BY <1>1, ViewWindows DEF Index
<1>3. Max({i}) = i
  <2>1. i \in Nat
    BY DEF ViewOK
  <2> QED BY <2>1 DEF Max
<1>4. \A x \in WindowsIn(windows) : x.id = id => x = windows[i]
  BY <1>1, ViewWindows DEF WindowsIn
<1> QED BY <1>1, <1>2, <1>3, <1>4 DEF WindowsIn

LEMMA NoWindowWithId ==
    ASSUME NEW windows, NEW id, id \notin IdsIn(windows)
    PROVE  Index(windows, id) = {} /\ \A x \in WindowsIn(windows) : x.id # id
BY DEF Index, IdsIn, WindowsIn

LEMMA MixWindows ==
    ASSUME NEW previous, NEW current, ViewOK(previous), ViewOK(current), NEW done
    PROVE  Mix(previous, current, done) \in SUBSET Views /\ OneEach(Mix(previous, current, done))
<1>1. /\ WindowsIn(previous) \subseteq Views /\ WindowsIn(current) \subseteq Views
      /\ OneEach(WindowsIn(previous)) /\ OneEach(WindowsIn(current))
  BY ViewWindows
<1>2. Mix(previous, current, done) \subseteq Views
  BY <1>1 DEF Mix
<1>3. OneEach(Mix(previous, current, done))
  BY <1>1 DEF Mix, OneEach
<1> QED BY <1>2, <1>3

LEMMA BlockIsRun ==
    ASSUME NEW exact \in BOOLEAN, NEW previous, NEW current, ViewOK(previous), ViewOK(current),
           NEW done, NEW id \in IdsIn(previous) \cup IdsIn(current), id \notin done,
           exact => \A i \in DOMAIN current : ~HasAmbiguity(current[i]),
           NEW run, NEW m \in Nat, Good(exact, run, m, Mix(previous, current, done)),
           RunsFrom(run, m, OpsOf(previous, current, id))
    PROVE  Good(exact, run, m + Len(OpsOf(previous, current, id)),
                Mix(previous, current, done \cup {id}))
<1> DEFINE W == Mix(previous, current, done)
           X == Mix(previous, current, done \cup {id})
           ops == OpsOf(previous, current, id)
           old == Index(previous, id)
           new == Index(current, id)
<1>1. W \in SUBSET Views /\ OneEach(W)
  BY MixWindows
<1>2. WindowsIn(previous) \subseteq Views /\ WindowsIn(current) \subseteq Views
  BY ViewWindows
<1>3. CASE id \notin IdsIn(previous)
  <2>1. old = {} /\ \A x \in WindowsIn(previous) : x.id # id
    BY <1>3, NoWindowWithId
  <2>2. PICK v \in WindowsIn(current) :
              /\ v.id = id /\ \A x \in WindowsIn(current) : x.id = id => x = v
              /\ current[Max(new)] = v
    BY <1>3, WindowWithId
  <2> DEFINE added == [op |-> "WindowAdded", window |-> v]
  <2>3. ops = << added >> /\ Len(ops) = 1
    BY <2>1, <2>2 DEF OpsOf
  <2>4. apply_diff_op(run[m].content, added) = upsert_window(run[m].content, v)
    BY OpApplied
  <2>5. X = W \cup {v}
    BY <2>1, <2>2 DEF Mix
  <2>6. \A w \in W : w.id # v.id
    BY <2>1, <2>2 DEF Mix
  <2> HIDE DEF added, W, X, ops, new
  <2>7. run[m + 1] = upsert_window(run[m].content, v)
    BY <2>3, <2>4, RunsOne DEF Good, ops
  <2>8. v \in Views
    BY <1>2
  <2>9. run[m + 1].ok /\ Tells(exact, run[m + 1].content, W \cup {v})
    BY <1>1, <2>6, <2>7, <2>8, WindowIsAdded DEF Good, W
  <2> QED BY <2>3, <2>5, <2>9 DEF Good, ops, X
<1>4. CASE id \in IdsIn(previous) /\ id \notin IdsIn(current)
  <2>1. new = {} /\ \A x \in WindowsIn(current) : x.id # id
    BY <1>4, NoWindowWithId
  <2>2. PICK p \in WindowsIn(previous) :
              /\ p.id = id /\ \A x \in WindowsIn(previous) : x.id = id => x = p
              /\ old # {}
    BY <1>4, WindowWithId
  <2> DEFINE removed == [op |-> "WindowRemoved", window_id |-> id]
  <2>3. ops = << removed >> /\ Len(ops) = 1
    BY <2>1, <2>2 DEF OpsOf
  <2>4. apply_diff_op(run[m].content, removed) = remove_window(run[m].content, p.id)
    BY <2>2, OpApplied
  <2>5. X = W \ {p} /\ p \in W
    BY <2>1, <2>2 DEF Mix
  <2> HIDE DEF removed, W, X, ops, old, new
  <2>6. run[m + 1] = remove_window(run[m].content, p.id)
    BY <2>3, <2>4, RunsOne DEF Good, ops
  <2>7. run[m + 1].ok /\ Tells(exact, run[m + 1].content, W \ {p})
    BY <1>1, <2>5, <2>6, WindowIsRemoved DEF Good, W
  <2> QED BY <2>3, <2>5, <2>7 DEF Good, ops, X
<1>5. CASE id \in IdsIn(previous) /\ id \in IdsIn(current)
  <2>1. PICK p \in WindowsIn(previous) :
              /\ p.id = id /\ \A x \in WindowsIn(previous) : x.id = id => x = p
              /\ old # {} /\ previous[Max(old)] = p
    BY <1>5, WindowWithId
  <2>2. PICK v \in WindowsIn(current) :
              /\ v.id = id /\ \A x \in WindowsIn(current) : x.id = id => x = v
              /\ new # {} /\ current[Max(new)] = v
    BY <1>5, WindowWithId
  <2>3. ops = ChangeOps(p, v)
    BY <2>1, <2>2, Zenon DEF OpsOf
  <2>4. X = (W \ {p}) \cup {v} /\ p \in W
    BY <2>1, <2>2 DEF Mix
  <2>5. exact => ~HasAmbiguity(v)
    BY DEF WindowsIn
  <2>6. v \in Views /\ v.id = p.id
    BY <1>2, <2>1, <2>2
  <2> HIDE DEF W, X, ops, old, new
  <2>7. Good(exact, run, m + Len(ChangeOps(p, v)), (W \ {p}) \cup {v})
    BY <1>1, <2>3, <2>4, <2>5, <2>6, ChangeIsRun DEF ops, W
  <2> QED BY <2>3, <2>4, <2>7 DEF ops, X
<1> QED BY <1>3, <1>4, <1>5

\* The operations for the first ids are defined for each number of them.
OpsListed(f, n, previous, current) ==
    f = [k \in 0 .. n |->
            IF k = 0 THEN << >>
            ELSE f[k - 1] \o OpsOf(previous, current, window_ids(previous, current)[k])]

LEMMA OpsListExists ==
    ASSUME NEW previous, NEW current, NEW m \in Nat
    PROVE  \E f : OpsListed(f, m, previous, current)
<1> DEFINE bad == {n \in Nat : ~\E f : OpsListed(f, n, previous, current)}
           block(k) == OpsOf(previous, current, window_ids(previous, current)[k])
<1>1. SUFFICES ASSUME bad # {} PROVE FALSE
  OBVIOUS
<1>2. PICK n \in bad : \A k \in bad : n <= k
  <2>1. bad \in SUBSET Nat
    OBVIOUS
  <2> HIDE DEF bad
  <2> QED BY <1>1, <2>1, LeastNatural
<1>3. CASE n = 0
  <2> DEFINE f == [k \in 0 .. 0 |-> << >>]
  <2>1. OpsListed(f, 0, previous, current)
    BY DEF OpsListed
  <2> QED BY <1>3, <2>1
<1>4. CASE n # 0
  <2>1. n - 1 \in Nat
    BY <1>4
  <2>2. PICK g : OpsListed(g, n - 1, previous, current)
    BY <1>2, <2>1
  <2> DEFINE f == [k \in 0 .. n |-> IF k = n THEN g[n - 1] \o block(n) ELSE g[k]]
             rhs(h, k) == IF k = 0 THEN << >> ELSE h[k - 1] \o block(k)
  <2> HIDE DEF block
  <2>3. \A k \in 0 .. n : k # n => f[k] = g[k] /\ k \in 0 .. n - 1
    BY <2>1
  <2>4. f[n] = g[n - 1] \o block(n) /\ DOMAIN f = 0 .. n /\ f = [k \in 0 .. n |-> f[k]]
    BY <2>1
  <2>5. \A k \in 0 .. n - 1 : g[k] = rhs(g, k)
    <3>1. g = [k \in 0 .. n - 1 |-> rhs(g, k)]
      BY <2>2 DEF OpsListed, block
    <3> HIDE DEF rhs
    <3> QED BY <3>1
  <2> HIDE DEF f
  <2>6. ASSUME NEW k \in 0 .. n
        PROVE  f[k] = rhs(f, k)
    <3>1. CASE k = n
      <4>1. k # 0 /\ n - 1 \in 0 .. n /\ n - 1 # n
        BY <1>4, <2>1, <3>1
      <4> QED BY <2>3, <2>4, <3>1, <4>1
    <3>2. CASE k # n /\ k = 0
      <4>1. k \in 0 .. n - 1 /\ f[k] = g[k]
        BY <2>3, <3>2
      <4> QED BY <2>5, <3>2, <4>1
    <3>3. CASE k # n /\ k # 0
      <4>1. k \in 0 .. n - 1 /\ f[k] = g[k] /\ k - 1 \in 0 .. n /\ k - 1 # n
        BY <2>3, <2>1, <3>3
      <4>2. f[k - 1] = g[k - 1] /\ g[k] = g[k - 1] \o block(k)
        BY <2>3, <2>5, <3>3, <4>1
      <4> QED BY <3>3, <4>1, <4>2
    <3> QED BY <3>1, <3>2, <3>3
  <2>7. OpsListed(f, n, previous, current)
    <3> HIDE DEF rhs
    <3>1. f = [k \in 0 .. n |-> rhs(f, k)]
      BY <2>4, <2>6
    <3> QED BY <3>1 DEF OpsListed, rhs, block
  <2> QED BY <2>7
<1> QED BY <1>3, <1>4

LEMMA OpsUpToSteps ==
    ASSUME NEW previous, NEW current, Len(window_ids(previous, current)) \in Nat
    PROVE  LET ids == window_ids(previous, current)
               ops == OpsUpTo(previous, current)
           IN  /\ ops[0] = << >>
               /\ \A k \in 1 .. Len(ids) :
                     ops[k] = ops[k - 1] \o OpsOf(previous, current, ids[k])
<1> DEFINE ids == window_ids(previous, current)
           ops == OpsUpTo(previous, current)
           rhs(h, k) == IF k = 0 THEN << >> ELSE h[k - 1] \o OpsOf(previous, current, ids[k])
<1>1. OpsListed(ops, Len(ids), previous, current)
  <2>1. ops = CHOOSE f : OpsListed(f, Len(ids), previous, current)
    BY Zenon DEF OpsUpTo, OpsListed
  <2> QED BY <2>1, OpsListExists
<1>2. ops = [k \in 0 .. Len(ids) |-> rhs(ops, k)]
  <2> HIDE DEF ops
  <2> QED BY <1>1 DEF OpsListed
<1> HIDE DEF ops, ids
<1>3. \A k \in 0 .. Len(ids) : ops[k] = rhs(ops, k)
  <2> HIDE DEF rhs
  <2> QED BY <1>2
<1>4. ops[0] = << >>
  <2>1. 0 \in 0 .. Len(ids)
    BY DEF ids
  <2> QED BY <1>3, <2>1
<1>5. ASSUME NEW k \in 1 .. Len(ids)
      PROVE  ops[k] = ops[k - 1] \o OpsOf(previous, current, ids[k])
  <2>1. k \in 0 .. Len(ids) /\ k # 0
    BY DEF ids
  <2>2. ops[k] = rhs(ops, k)
    BY <1>3, <2>1
  <2> QED BY <2>1, <2>2
<1> QED BY <1>4, <1>5 DEF ops, ids

\* The operations on one window are a sequence.
LEMMA OpsOfIsSequence ==
    ASSUME NEW previous, NEW current, NEW id
    PROVE  \E S : OpsOf(previous, current, id) \in Seq(S)
<1> DEFINE p == previous[Max(Index(previous, id))]
           v == current[Max(Index(current, id))]
           added    == [op |-> "WindowAdded", window |-> v]
           removed  == [op |-> "WindowRemoved", window_id |-> id]
           first    == [op |-> "WindowRemoved", window_id |-> v.id]
           replaced == [op |-> "NodeReplaced", element_id |-> p.root.id, node |-> v.root]
           moved    == [op |-> "FocusChanged", window_id |-> v.id, element_id |-> FocusOf(v.root)]
           S == {added, removed, first, replaced, moved}
           ops == OpsOf(previous, current, id)
           body == BodyOps(p, v)
           focus == FocusOps(p, v)
<1>1. ops = << added >> \/ ops = << removed >> \/ ops = body \o focus
  <2>1. ChangeOps(p, v) = BodyOps(p, v) \o FocusOps(p, v)
    BY Zenon DEF ChangeOps, BodyOps
  <2> QED BY <2>1, Zenon DEF OpsOf
<1>2. body = << first, added >> \/ body = << replaced >> \/ body = << >>
  BY Zenon DEF BodyOps
<1>3. focus = << moved >> \/ focus = << >>
  BY Zenon DEF FocusOps
<1> HIDE DEF p, v, added, removed, first, replaced, moved, ops, body, focus
<1>4. added \in S /\ removed \in S /\ first \in S /\ replaced \in S /\ moved \in S
  OBVIOUS
<1> HIDE DEF S
<1>5. /\ << added >> \in Seq(S) /\ << removed >> \in Seq(S) /\ << first, added >> \in Seq(S)
      /\ << replaced >> \in Seq(S) /\ << moved >> \in Seq(S) /\ << >> \in Seq(S)
  BY <1>4
<1>6. body \in Seq(S) /\ focus \in Seq(S)
  BY <1>2, <1>3, <1>5
<1>7. body \o focus \in Seq(S)
  BY <1>6
<1> QED BY <1>1, <1>5, <1>7 DEF ops

LEMMA WindowIds ==
    ASSUME NEW previous, NEW current, ViewOK(previous), ViewOK(current)
    PROVE  LET ids == window_ids(previous, current)
               S   == IdsIn(previous) \cup IdsIn(current)
           IN  /\ ids \in Seq(S)
               /\ \A i, j \in DOMAIN ids : i < j => ids[i] < ids[j]
               /\ \A id \in S : \E i \in DOMAIN ids : ids[i] = id
               /\ S \subseteq Nat
<1>1. ASSUME NEW windows, ViewOK(windows)
      PROVE  IsFiniteSet(IdsIn(windows)) /\ IdsIn(windows) \subseteq Nat
  <2> DEFINE f == [i \in 1 .. Len(windows) |-> windows[i].id]
  <2>1. Len(windows) \in Nat /\ DOMAIN windows = 1 .. Len(windows)
    BY <1>1 DEF ViewOK
  <2>2. f \in Surjection(1 .. Len(windows), IdsIn(windows))
    BY <2>1 DEF Surjection, IdsIn
  <2>3. IsFiniteSet(1 .. Len(windows))
    BY <2>1, FS_Interval
  <2> HIDE DEF f
  <2> QED BY <1>1, <2>2, <2>3, FS_Surjection, ViewWindows
<1> DEFINE S == IdsIn(previous) \cup IdsIn(current)
<1>2. IsFiniteSet(S) /\ S \subseteq Nat
  BY <1>1, FS_Union
<1>3. window_ids(previous, current) = Ascending(S)
  BY DEF window_ids, IdsIn
<1> HIDE DEF S
<1>4. /\ Ascending(S) \in Seq(S) /\ Increasing(Ascending(S))
      /\ \A x \in S : \E i \in DOMAIN Ascending(S) : Ascending(S)[i] = x
  BY <1>2, AscendingProperties
<1> QED BY <1>2, <1>3, <1>4 DEF Increasing, S

\* What is listed for the first ids is a sequence.
LEMMA OpsAreSequences ==
    ASSUME NEW previous, NEW current, Len(window_ids(previous, current)) \in Nat
    PROVE  \A k \in 0 .. Len(window_ids(previous, current)) :
              \E S : OpsUpTo(previous, current)[k] \in Seq(S)
<1> DEFINE N == Len(window_ids(previous, current))
           ops == OpsUpTo(previous, current)
           block(k) == OpsOf(previous, current, window_ids(previous, current)[k])
           Sequence(k) == \E S : ops[k] \in Seq(S)
           bad == {k \in 0 .. N : ~Sequence(k)}
<1>1. /\ ops[0] = << >>
      /\ \A k \in 1 .. N : ops[k] = ops[k - 1] \o block(k)
  BY OpsUpToSteps
<1>2. SUFFICES ASSUME bad # {} PROVE FALSE
  OBVIOUS
<1>3. PICK k \in bad : \A j \in bad : k <= j
  <2>1. bad \in SUBSET Nat
    OBVIOUS
  <2> HIDE DEF bad
  <2> QED BY <1>2, <2>1, LeastNatural
<1>4. k \in 0 .. N /\ ~Sequence(k)
  OBVIOUS
<1> HIDE DEF ops, block
<1>5. k # 0
  <2>1. Sequence(0)
    BY <1>1
  <2> HIDE DEF Sequence
  <2> QED BY <1>4, <2>1
<1>6. k \in 1 .. N /\ k - 1 \in 0 .. N /\ ~(k <= k - 1)
  BY <1>4, <1>5
<1>7. Sequence(k - 1)
  <2>1. k - 1 \notin bad
    <3> HIDE DEF bad
    <3> QED BY <1>3, <1>6
  <2> HIDE DEF Sequence
  <2> QED BY <1>6, <2>1
<1>8. PICK S : ops[k - 1] \in Seq(S)
  BY <1>7
<1>9. PICK T : block(k) \in Seq(T)
  BY OpsOfIsSequence DEF block
<1>10. ops[k - 1] \o block(k) \in Seq(S \cup T)
  <2>1. ops[k - 1] \in Seq(S \cup T) /\ block(k) \in Seq(S \cup T)
    BY <1>8, <1>9
  <2> QED BY <2>1
<1>11. ops[k] \in Seq(S \cup T)
  BY <1>1, <1>6, <1>10
<1>12. Sequence(k)
  BY <1>11
<1> HIDE DEF Sequence
<1> QED BY <1>4, <1>12

\* The difference of two snapshots is a sequence.
LEMMA DiffIsSequence ==
    ASSUME NEW previous, NEW current, ViewOK(previous), ViewOK(current)
    PROVE  \E S : diff_snapshots(previous, current) \in Seq(S)
<1> DEFINE N == Len(window_ids(previous, current))
<1>1. N \in Nat
  <2>1. window_ids(previous, current) \in Seq(IdsIn(previous) \cup IdsIn(current))
    BY WindowIds
  <2> QED BY <2>1
<1>2. N \in 0 .. N
  BY <1>1
<1> QED BY <1>1, <1>2, OpsAreSequences DEF diff_snapshots

\* The operations that turn one snapshot into the next run on what the daemon
\* holds of the first, and leave what it may hold of the second.
LEMMA DiffIsRun ==
    ASSUME NEW exact \in BOOLEAN, NEW previous, NEW current, ViewOK(previous), ViewOK(current),
           exact => \A i \in DOMAIN current : ~HasAmbiguity(current[i]),
           NEW run, Good(exact, run, 0, WindowsIn(previous)),
           RunsFrom(run, 0, diff_snapshots(previous, current))
    PROVE  LET diff == diff_snapshots(previous, current)
           IN  Good(exact, run, Len(diff), WindowsIn(current))
<1> DEFINE ids == window_ids(previous, current)
           ops == OpsUpTo(previous, current)
           N == Len(ids)
           block(k) == OpsOf(previous, current, ids[k])
           done(k) == {ids[j] : j \in 1 .. k}
           Turned(k) == RunsFrom(run, 0, ops[k]) =>
                            Good(exact, run, Len(ops[k]), Mix(previous, current, done(k)))
           bad == {k \in 0 .. N : ~Turned(k)}
<1>1. /\ ids \in Seq(IdsIn(previous) \cup IdsIn(current)) /\ N \in Nat /\ DOMAIN ids = 1 .. N
      /\ \A i, j \in 1 .. N : i < j => ids[i] < ids[j]
      /\ \A id \in IdsIn(previous) \cup IdsIn(current) : \E i \in 1 .. N : ids[i] = id
      /\ \A i \in 1 .. N : ids[i] \in Nat /\ ids[i] \in IdsIn(previous) \cup IdsIn(current)
  <2>1. /\ ids \in Seq(IdsIn(previous) \cup IdsIn(current))
        /\ \A i, j \in DOMAIN ids : i < j => ids[i] < ids[j]
        /\ \A id \in IdsIn(previous) \cup IdsIn(current) : \E i \in DOMAIN ids : ids[i] = id
        /\ IdsIn(previous) \cup IdsIn(current) \subseteq Nat
    BY WindowIds
  <2> HIDE DEF ids
  <2>2. N \in Nat /\ DOMAIN ids = 1 .. N
    BY <2>1
  <2> HIDE DEF N
  <2>3. \A i \in 1 .. N : ids[i] \in IdsIn(previous) \cup IdsIn(current)
    BY <2>1, <2>2
  <2> QED BY <2>1, <2>2, <2>3
<1>2. /\ ops[0] = << >>
      /\ \A k \in 1 .. N : ops[k] = ops[k - 1] \o block(k)
  <2>1. Len(window_ids(previous, current)) \in Nat
    BY <1>1
  <2> QED BY <2>1, OpsUpToSteps
<1>3. diff_snapshots(previous, current) = ops[N]
  BY DEF diff_snapshots
<1>4. done(0) = {} /\ \A k \in 1 .. N : done(k) = done(k - 1) \cup {ids[k]} /\ ids[k] \notin done(k - 1)
  <2>1. done(0) = {}
    OBVIOUS
  <2>2. ASSUME NEW k \in 1 .. N
        PROVE  done(k) = done(k - 1) \cup {ids[k]} /\ ids[k] \notin done(k - 1)
    <3> HIDE DEF ids, N
    <3>1. k \in Nat /\ \A j : j \in 1 .. k <=> j \in 1 .. k - 1 \/ j = k
      BY <1>1
    <3>2. \A j \in 1 .. k - 1 : j \in 1 .. N /\ j < k
      BY <1>1
    <3>3. \A j \in 1 .. k - 1 : ids[j] # ids[k]
      BY <1>1, <3>2
    <3> QED BY <3>1, <3>3
  <2> QED BY <2>1, <2>2
<1>5. Mix(previous, current, {}) = WindowsIn(previous)
  BY DEF Mix
<1>6. Mix(previous, current, done(N)) = WindowsIn(current)
  <2>1. \A w \in WindowsIn(current) : w.id \in IdsIn(current)
    BY DEF WindowsIn, IdsIn
  <2>2. \A w \in WindowsIn(previous) : w.id \in IdsIn(previous)
    BY DEF WindowsIn, IdsIn
  <2>3. IdsIn(previous) \cup IdsIn(current) \subseteq done(N)
    <3> HIDE DEF ids, N
    <3> QED BY <1>1
  <2> HIDE DEF done
  <2> QED BY <2>1, <2>2, <2>3 DEF Mix
<1> HIDE DEF ids, ops, N, block, done
<1>7. Turned(0)
  <2>1. Len(ops[0]) = 0
    BY <1>2
  <2> QED BY <1>4, <1>5, <2>1
<1>8. ASSUME NEW k \in 1 .. N, Turned(k - 1)
      PROVE  Turned(k)
  <2>1. ops[k] = ops[k - 1] \o block(k)
    BY <1>2
  <2>2. PICK S : ops[k - 1] \in Seq(S)
    <3>1. k - 1 \in 0 .. N
      BY <1>1
    <3> QED BY <1>1, <3>1, OpsAreSequences DEF ops, N, ids
  <2>3. PICK T : block(k) \in Seq(T)
    BY OpsOfIsSequence DEF block
  <2>4. ops[k - 1] \in Seq(S \cup T) /\ block(k) \in Seq(S \cup T)
    BY <2>2, <2>3
  <2>5. /\ ops[k] \in Seq(S \cup T) /\ Len(ops[k - 1]) \in Nat
        /\ Len(ops[k]) = Len(ops[k - 1]) + Len(block(k)) /\ Len(block(k)) \in Nat
    BY <2>1, <2>4
  <2>6. ASSUME RunsFrom(run, 0, ops[k])
        PROVE  Good(exact, run, Len(ops[k]), Mix(previous, current, done(k)))
    <3> DEFINE m == Len(ops[k - 1])
    <3>1. RunsFrom(run, 0, ops[k - 1]) /\ RunsFrom(run, 0 + m, block(k))
      BY <2>1, <2>4, <2>6, RunsSplit
    <3>2. m \in Nat /\ 0 + m = m /\ Len(ops[k]) = m + Len(block(k))
      BY <2>5
    <3>3. Good(exact, run, m, Mix(previous, current, done(k - 1)))
      BY <1>8, <3>1
    <3> HIDE DEF m
    <3>4. RunsFrom(run, m, block(k))
      BY <3>1, <3>2
    <3>5. /\ ids[k] \in IdsIn(previous) \cup IdsIn(current) /\ ids[k] \notin done(k - 1)
          /\ done(k) = done(k - 1) \cup {ids[k]}
      BY <1>1, <1>4
    <3>6. Good(exact, run, m + Len(block(k)), Mix(previous, current, done(k - 1) \cup {ids[k]}))
      BY <3>2, <3>3, <3>4, <3>5, BlockIsRun DEF block
    <3> QED BY <3>2, <3>5, <3>6
  <2> QED BY <2>6
<1>9. bad = {}
  <2> SUFFICES ASSUME bad # {} PROVE FALSE
    OBVIOUS
  <2>1. PICK k \in bad : \A j \in bad : k <= j
    <3>1. bad \in SUBSET Nat
      BY <1>1
    <3> HIDE DEF bad
    <3> QED BY <3>1, LeastNatural
  <2>2. k \in 0 .. N /\ ~Turned(k)
    OBVIOUS
  <2> HIDE DEF Turned
  <2>3. k # 0
    BY <1>7, <2>2
  <2>4. k \in 1 .. N /\ k - 1 \in 0 .. N /\ ~(k <= k - 1)
    BY <1>1, <2>2, <2>3
  <2>5. k - 1 \notin bad
    <3> HIDE DEF bad
    <3> QED BY <2>1, <2>4
  <2>6. Turned(k - 1)
    BY <2>4, <2>5
  <2> QED BY <1>8, <2>2, <2>4, <2>6
<1>10. Turned(N)
  <2>1. N \in 0 .. N
    BY <1>1
  <2> HIDE DEF Turned
  <2> QED BY <1>9, <2>1
<1> QED BY <1>3, <1>6, <1>10

-----------------------------------------------------------------------------
(* Sorting.                                                                *)

\* These are the ids of the windows, in order and none twice.
IdsInOrder(windows, q, n) ==
    /\ n \in Nat /\ DOMAIN q = 1 .. n
    /\ \A i \in 1 .. n : q[i] \in Nat /\ q[i] \in IdsIn(windows)
    /\ \A i, j \in 1 .. n : i < j => q[i] < q[j]
    /\ \A id \in IdsIn(windows) : \E i \in 1 .. n : q[i] = id
    /\ Len(windows) \in Nat /\ DOMAIN windows = 1 .. Len(windows)
    /\ \A i, j \in DOMAIN windows : windows[i].id = windows[j].id => i = j

\* Sorting windows that have different ids puts each at the place of its id.
LEMMA SortedWindows ==
    ASSUME NEW windows, NEW q, NEW n, IdsInOrder(windows, q, n)
    PROVE  /\ Len(windows) = n /\ DOMAIN sort_windows(windows) = 1 .. n
           /\ \A k \in 1 .. n : \E j \in DOMAIN windows :
                 sort_windows(windows)[k] = windows[j] /\ windows[j].id = q[k]
<1> DEFINE Before(i, j) == \/ windows[i].id < windows[j].id
                           \/ windows[i].id = windows[j].id /\ i < j
           Place(j) == Cardinality({i \in DOMAIN windows : Before(i, j)}) + 1
           at == [j \in DOMAIN windows |-> CHOOSE k \in 1 .. n : q[k] = windows[j].id]
<1>1. /\ n \in Nat /\ DOMAIN q = 1 .. n /\ Len(windows) \in Nat /\ DOMAIN windows = 1 .. Len(windows)
      /\ \A i \in 1 .. n : q[i] \in Nat
      /\ \A i, j \in 1 .. n : i < j => q[i] < q[j]
      /\ \A i, j \in DOMAIN windows : windows[i].id = windows[j].id => i = j
      /\ \A k \in 1 .. n : \E j \in DOMAIN windows : windows[j].id = q[k]
  <2>1. \A k \in 1 .. n : q[k] \in IdsIn(windows)
    BY DEF IdsInOrder
  <2>2. \A k \in 1 .. n : \E j \in DOMAIN windows : windows[j].id = q[k]
    BY <2>1 DEF IdsIn
  <2> QED BY <2>2 DEF IdsInOrder
<1>2. \A j \in DOMAIN windows : at[j] \in 1 .. n /\ q[at[j]] = windows[j].id
  <2>1. \A j \in DOMAIN windows : \E k \in 1 .. n : q[k] = windows[j].id
    <3>1. \A j \in DOMAIN windows : windows[j].id \in IdsIn(windows)
      BY DEF IdsIn
    <3>2. \A id \in IdsIn(windows) : \E k \in 1 .. n : q[k] = id
      BY DEF IdsInOrder
    <3> QED BY <3>1, <3>2
  <2> QED BY <2>1
<1>3. DOMAIN at = DOMAIN windows
  OBVIOUS
<1> HIDE DEF at
<1>4. \A i, j \in 1 .. n : q[i] < q[j] <=> i < j
  <2> SUFFICES ASSUME NEW i \in 1 .. n, NEW j \in 1 .. n PROVE q[i] < q[j] <=> i < j
    OBVIOUS
  <2>1. i \in Nat /\ j \in Nat /\ q[i] \in Nat /\ q[j] \in Nat
    BY <1>1
  <2>2. CASE i < j
    BY <1>1, <2>2
  <2>3. CASE j < i
    <3>1. q[j] < q[i]
      BY <1>1, <2>3
    <3> QED BY <2>1, <2>3, <3>1
  <2>4. CASE i = j
    BY <2>1, <2>4
  <2> QED BY <2>1, <2>2, <2>3, <2>4
<1>5. \A k \in 1 .. n : \E j \in DOMAIN windows : at[j] = k
  <2> SUFFICES ASSUME NEW k \in 1 .. n PROVE \E j \in DOMAIN windows : at[j] = k
    OBVIOUS
  <2>1. PICK j \in DOMAIN windows : windows[j].id = q[k]
    BY <1>1
  <2>2. at[j] \in 1 .. n /\ q[at[j]] = q[k] /\ q[k] \in Nat
    BY <1>1, <1>2, <2>1
  <2>3. ~(at[j] < k) /\ ~(k < at[j])
    BY <1>4, <2>2
  <2>4. at[j] = k
    BY <2>2, <2>3
  <2> QED BY <2>4
<1>6. \A i, j \in DOMAIN windows : at[i] = at[j] => i = j
  <2> SUFFICES ASSUME NEW i \in DOMAIN windows, NEW j \in DOMAIN windows, at[i] = at[j]
               PROVE  i = j
    OBVIOUS
  <2>0. \A k \in DOMAIN windows : windows[k].id = q[at[k]]
    BY <1>2
  <2> HIDE DEF at
  <2>1. windows[i].id = q[at[i]] /\ windows[j].id = q[at[j]]
    BY <2>0
  <2>2. windows[i].id = windows[j].id
    BY <2>1
  <2>3. windows[i].id = windows[j].id => i = j
    BY <1>1
  <2> QED BY <2>2, <2>3
\* The windows before one are those with the smaller ids.
<1>7. ASSUME NEW j \in DOMAIN windows PROVE Place(j) = at[j]
  <2> DEFINE A == {i \in DOMAIN windows : Before(i, j)}
             f == [i \in A |-> at[i]]
             m == at[j] - 1
  <2>1. at[j] \in 1 .. n /\ m \in Nat /\ \A k \in 1 .. m : k \in 1 .. n /\ k < at[j]
    <3>1. at[j] \in 1 .. n
      BY <1>2
    <3>2. n \in Nat
      BY <1>1
    <3> HIDE DEF at, A, f
    <3> QED BY <3>1, <3>2
  <2>2. \A i \in DOMAIN windows : i \in A <=> at[i] < at[j]
    <3> SUFFICES ASSUME NEW i \in DOMAIN windows PROVE i \in A <=> at[i] < at[j]
      OBVIOUS
    <3>1. windows[i].id = q[at[i]] /\ windows[j].id = q[at[j]] /\ at[i] \in 1 .. n
      BY <1>2
    <3>2. windows[i].id < windows[j].id <=> at[i] < at[j]
      BY <1>4, <2>1, <3>1
    <3>3. i \in Nat /\ j \in Nat
      BY <1>1
    <3>4. ~(windows[i].id = windows[j].id /\ i < j)
      <4>1. windows[i].id = windows[j].id => i = j
        BY <1>1
      <4>2. i = j => ~(i < j)
        BY <3>3
      <4> QED BY <4>1, <4>2
    <3> QED BY <3>2, <3>4
  <2> HIDE DEF m
  <2>3. \A i \in A : at[i] \in 1 .. m
    <3> SUFFICES ASSUME NEW i \in A PROVE at[i] \in 1 .. m
      OBVIOUS
    <3>1. i \in DOMAIN windows
      OBVIOUS
    <3> HIDE DEF A
    <3>2. at[i] \in 1 .. n /\ at[i] < at[j]
      BY <1>2, <2>2, <3>1
    <3>3. n \in Nat
      BY <1>1
    <3> HIDE DEF at
    <3> QED BY <2>1, <3>2, <3>3 DEF m
  <2>4. \A k \in 1 .. m : \E i \in A : at[i] = k
    <3> SUFFICES ASSUME NEW k \in 1 .. m PROVE \E i \in A : at[i] = k
      OBVIOUS
    <3>1. PICK i \in DOMAIN windows : at[i] = k
      BY <1>5, <2>1
    <3> HIDE DEF A
    <3>2. i \in A
      BY <2>1, <2>2, <3>1
    <3> QED BY <3>1, <3>2
  <2>5. A \subseteq DOMAIN windows
    OBVIOUS
  <2> HIDE DEF A
  <2>6. f \in Bijection(A, 1 .. m)
    <3>1. f \in [A -> 1 .. m] /\ \A i \in A : f[i] = at[i]
      BY <2>3
    <3> HIDE DEF f
    <3>2. f \in Injection(A, 1 .. m)
      BY <1>6, <2>5, <3>1 DEF Injection, IsInjective
    <3>3. f \in Surjection(A, 1 .. m)
      BY <2>4, <3>1 DEF Surjection
    <3> QED BY <3>2, <3>3 DEF Bijection
  <2>7. IsFiniteSet(A)
    <3>1. IsFiniteSet(DOMAIN windows)
      BY <1>1, FS_Interval
    <3> QED BY <2>5, <3>1, FS_Subset
  <2>8. Cardinality(1 .. m) = Cardinality(A)
    <3>1. ExistsBijection(A, 1 .. m)
      BY <2>6 DEF ExistsBijection
    <3> QED BY <2>7, <3>1, FS_Bijection
  <2>9. Cardinality(1 .. m) = m
    BY <2>1, FS_Interval
  <2>10. m + 1 = at[j]
    BY <1>1, <2>1 DEF m
  <2>11. Place(j) = Cardinality(A) + 1
    BY DEF A
  <2> QED BY <2>8, <2>9, <2>10, <2>11
<1>8. Len(windows) = n
  <2>1. at \in Bijection(DOMAIN windows, 1 .. n)
    <3>1. at \in [DOMAIN windows -> 1 .. n]
      BY <1>2, <1>3 DEF at
    <3> QED BY <1>5, <1>6, <3>1 DEF Bijection, Injection, IsInjective, Surjection
  <2>2. ExistsBijection(1 .. Len(windows), 1 .. n)
    BY <1>1, <2>1 DEF ExistsBijection
  <2>3. \A m \in Nat : IsFiniteSet(1 .. m) /\ Cardinality(1 .. m) = m
    BY FS_Interval
  <2> DEFINE A == 1 .. Len(windows)
             B == 1 .. n
  <2>4. IsFiniteSet(A) /\ Cardinality(A) = Len(windows) /\ Cardinality(B) = n
    BY <1>1, <2>3
  <2>5. ExistsBijection(A, B)
    BY <2>2
  <2> HIDE DEF A, B
  <2>6. Cardinality(B) = Cardinality(A)
    BY <2>4, <2>5, FS_Bijection
  <2> QED BY <2>4, <2>6
<1> DEFINE sorted == sort_windows(windows)
<1>9. sorted = [k \in DOMAIN windows |-> windows[CHOOSE j \in DOMAIN windows : Place(j) = k]]
  BY Zenon DEF sort_windows
<1> HIDE DEF Place, sorted
<1>10. ASSUME NEW k \in 1 .. n
       PROVE  \E j \in DOMAIN windows : sorted[k] = windows[j] /\ windows[j].id = q[k]
  <2> DEFINE j == CHOOSE j \in DOMAIN windows : Place(j) = k
  <2>1. \E i \in DOMAIN windows : Place(i) = k
    BY <1>5, <1>7
  <2>2. j \in DOMAIN windows /\ Place(j) = k
    BY <2>1
  <2>3. k \in DOMAIN windows
    BY <1>1, <1>8
  <2>4. sorted[k] = windows[j]
    BY <1>9, <2>3
  <2> HIDE DEF j
  <2>5. at[j] = k
    BY <1>7, <2>2
  <2> QED BY <1>2, <2>2, <2>4, <2>5
<1> QED BY <1>1, <1>8, <1>9, <1>10 DEF sorted

\* What the daemon holds is, window by window, what it was last told.
Shows(exact, held, windows) ==
    /\ held \in Seq(Held) /\ Len(held) = Len(windows)
    /\ \A i \in DOMAIN windows : held[i] \in Allowed(exact, windows[i])

LEMMA ShownWindows ==
    ASSUME NEW exact \in BOOLEAN, NEW held, NEW windows, ViewOK(windows), Shows(exact, held, windows)
    PROVE  Tells(exact, held, WindowsIn(windows))
<1>1. /\ windows \in Seq(Views) /\ held \in Seq(Held) /\ DOMAIN held = DOMAIN windows
      /\ \A i \in DOMAIN windows : held[i] \in Allowed(exact, windows[i]) /\ windows[i] \in Views
  BY DEF ViewOK, Shows
<1>2. \A i \in DOMAIN windows : held[i].id = windows[i].id
  BY <1>1, AllowedWindow, CachedWindow
<1>3. ListOK(held)
  BY <1>1, <1>2, ViewWindows DEF ListOK
<1> QED BY <1>1, <1>3 DEF Tells, WindowsIn

\* Sorted, a list that tells of the windows of a snapshot shows it.
LEMMA SortedShows ==
    ASSUME NEW exact \in BOOLEAN, NEW held, NEW windows, ViewOK(windows),
           Tells(exact, held, WindowsIn(windows))
    PROVE  Shows(exact, sort_windows(held), windows)
<1> DEFINE q == [i \in 1 .. Len(windows) |-> windows[i].id]
           n == Len(windows)
<1>1. /\ windows \in Seq(Views) /\ n \in Nat /\ DOMAIN windows = 1 .. n
      /\ \A i \in 1 .. n : windows[i] \in Views
      /\ held \in Seq(Held)
  BY DEF ViewOK, Tells, ListOK
<1>2. \A w \in Views : \A d \in Allowed(exact, w) : d.id = w.id
  BY AllowedWindow, CachedWindow
<1>3. IdsIn(held) = IdsIn(windows)
  <2>1. ASSUME NEW i \in DOMAIN held PROVE held[i].id \in IdsIn(windows)
    <3>1. PICK j \in DOMAIN windows : held[i] \in Allowed(exact, windows[j])
      BY DEF Tells, WindowsIn
    <3>2. held[i].id = windows[j].id
      BY <1>1, <1>2, <3>1
    <3> QED BY <3>2 DEF IdsIn
  <2>2. ASSUME NEW j \in DOMAIN windows PROVE windows[j].id \in IdsIn(held)
    <3>1. PICK i \in DOMAIN held : held[i] \in Allowed(exact, windows[j])
      BY DEF Tells, WindowsIn
    <3>2. held[i].id = windows[j].id
      BY <1>1, <1>2, <3>1
    <3> QED BY <3>2 DEF IdsIn
  <2> QED BY <2>1, <2>2 DEF IdsIn
<1>4. IdsInOrder(held, q, n)
  <2>1. \A i \in 1 .. n : q[i] \in Nat /\ q[i] \in IdsIn(held)
    <3>1. \A i \in 1 .. n : q[i] \in IdsIn(windows)
      BY <1>1 DEF IdsIn
    <3> HIDE DEF q
    <3> QED BY <1>3, <3>1, ViewWindows
  <2>2. \A i, j \in 1 .. n : i < j => q[i] < q[j]
    BY <1>1 DEF ViewOK
  <2>3. \A id \in IdsIn(held) : \E i \in 1 .. n : q[i] = id
    BY <1>1, <1>3 DEF IdsIn
  <2>4. Len(held) \in Nat /\ DOMAIN held = 1 .. Len(held)
    BY <1>1
  <2>5. \A i, j \in DOMAIN held : held[i].id = held[j].id => i = j
    BY DEF Tells, ListOK
  <2>6. DOMAIN q = 1 .. n
    OBVIOUS
  <2> HIDE DEF q, n
  <2> QED BY <1>1, <2>1, <2>2, <2>3, <2>4, <2>5, <2>6 DEF IdsInOrder
<1> DEFINE sorted == sort_windows(held)
<1>5. /\ DOMAIN sorted = 1 .. n
      /\ \A k \in 1 .. n : \E j \in DOMAIN held : sorted[k] = held[j] /\ held[j].id = q[k]
  <2> HIDE DEF q, n
  <2> QED BY <1>4, SortedWindows
<1> HIDE DEF sorted
<1>6. ASSUME NEW k \in 1 .. n
      PROVE  sorted[k] \in Held /\ sorted[k] \in Allowed(exact, windows[k])
  <2>1. PICK j \in DOMAIN held : sorted[k] = held[j] /\ held[j].id = windows[k].id
    BY <1>5
  <2>2. PICK i \in DOMAIN windows : held[j] \in Allowed(exact, windows[i])
    BY DEF Tells, WindowsIn
  <2>3. windows[i].id = windows[k].id
    BY <1>1, <1>2, <2>1, <2>2
  <2>4. i = k
    BY <1>1, <2>3, ViewWindows
  <2> QED BY <1>1, <2>1, <2>2, <2>4
<1>7. sorted \in Seq(Held) /\ Len(sorted) = n
  <2>1. sorted = [k \in 1 .. n |-> sorted[k]]
    <3>1. sorted = [k \in DOMAIN held |->
              held[CHOOSE j \in DOMAIN held :
                      Cardinality({i \in DOMAIN held :
                          \/ held[i].id < held[j].id
                          \/ held[i].id = held[j].id /\ i < j}) + 1 = k]]
      BY Zenon DEF sorted, sort_windows
    <3>2. DOMAIN held = 1 .. n
      BY <1>5, <3>1
    <3> QED BY <3>1, <3>2
  <2> HIDE DEF n
  <2>2. sorted \in [1 .. n -> Held]
    BY <1>6, <2>1
  <2> QED BY <1>1, <2>2
<1> QED BY <1>1, <1>6, <1>7 DEF Shows, sorted

\* The difference of two snapshots (diff_snapshots) applies to whatever the daemon holds
\* of the first (UiStateStore::apply_diff) and leaves what it may hold of the second.
THEOREM DiffApplies ==
    ASSUME NEW exact \in BOOLEAN, NEW previous, NEW current, ViewOK(previous), ViewOK(current),
           exact => \A i \in DOMAIN current : ~HasAmbiguity(current[i]),
           NEW held, Shows(exact, held, previous)
    PROVE  LET done == ApplyDiffOps(held, diff_snapshots(previous, current))
           IN  done.ok /\ Shows(exact, done.content, current)
<1> DEFINE diff == diff_snapshots(previous, current)
           run == Run(held, diff)
<1>1. Tells(exact, held, WindowsIn(previous))
  BY ShownWindows
<1>2. Len(diff) \in Nat
  <2>1. PICK S : diff \in Seq(S)
    BY DiffIsSequence
  <2> HIDE DEF diff
  <2> QED BY <2>1
<1>3. run[0] = Done(held) /\ RunsFrom(run, 0, diff)
  <2> HIDE DEF diff
  <2> QED BY <1>2, RunSteps
<1>4. Good(exact, run, 0, WindowsIn(previous))
  <2> HIDE DEF run
  <2> QED BY <1>1, <1>3 DEF Good, Done
<1>5. Good(exact, run, Len(diff), WindowsIn(current))
  <2> HIDE DEF run
  <2> QED BY <1>3, <1>4, DiffIsRun
<1> DEFINE last == run[Len(diff)]
<1>6. last.ok /\ Shows(exact, sort_windows(last.content), current)
  <2> HIDE DEF run, diff
  <2> QED BY <1>5, SortedShows DEF Good
<1>7. ApplyDiffOps(held, diff) = Done(sort_windows(last.content))
  BY <1>6, Zenon DEF ApplyDiffOps
<1> HIDE DEF last, diff
<1> QED BY <1>6, <1>7 DEF Done, diff

=============================================================================
