------------------------ MODULE WindowsObserverProofs ------------------------
(***************************************************************************)
(* Proofs about WindowsObserver, for every desktop, every way windows are  *)
(* captured and their ids kept that its assumptions admit, and all bounds. *)
(***************************************************************************)
EXTENDS SnapshotDiffProofs

-----------------------------------------------------------------------------
(* Inventories.                                                            *)

\* An inventory lists captured windows, no handle twice.
InventoryOK(windows) ==
    /\ windows \in Seq(Windows)
    /\ \A i, j \in DOMAIN windows :
          window_matches_hwnd(windows[i], window_native_handle(windows[j])) => i = j

\* What keeping ids does to two windows with one handle.
LEMMA KeptWindow ==
    ASSUME NEW previous \in Windows, NEW current \in Windows,
           window_native_handle(previous) = window_native_handle(current)
    PROVE  /\ window_native_handle(current) \in Nat
           /\ KeepIds(previous, current) \in Windows
           /\ window_native_handle(KeepIds(previous, current)) = window_native_handle(current)
           /\ Shown(KeepIds(previous, current)) = Shown(current)
<1> DEFINE hwnd == window_native_handle(current)
           mine == {w \in Windows : window_matches_hwnd(w, hwnd)}
<1>1. hwnd \in {window_native_handle(w) : w \in Windows}
  OBVIOUS
<1>2. <<previous, current>> \in mine \X mine
  BY DEF window_matches_hwnd
<1>3. /\ hwnd \in Nat
      /\ {KeepIds(p[1], p[2]) : p \in mine \X mine} \subseteq mine
      /\ \A p \in mine \X mine : Shown(KeepIds(p[1], p[2])) = Shown(p[2])
  BY <1>1, KeepIdsAssumption
<1>4. KeepIds(previous, current) \in mine /\ Shown(KeepIds(previous, current)) = Shown(current)
  <2> HIDE DEF mine
  <2> QED BY <1>2, <1>3
<1> QED BY <1>3, <1>4 DEF window_matches_hwnd

\* The handle of a window is a number.
LEMMA HandleIsNat ==
    ASSUME NEW w \in Windows
    PROVE  window_native_handle(w) \in Nat
BY KeptWindow

\* A best match is a candidate with a score.
LEMMA BestMatchHasScore ==
    ASSUME NEW n \in Nat, NEW scores, DOMAIN scores = 1 .. n, NEW used,
           BestMatch(scores, used) # {}
    PROVE  \E j \in 1 .. n : BestMatch(scores, used) = {j} /\ scores[j] # {}
<1> DEFINE scored == {i \in DOMAIN scores \ used : scores[i] # {}}
           best   == {i \in scored : \A j \in scored : Max(scores[j]) <= Max(scores[i])}
<1>1. best # {} /\ BestMatch(scores, used) = {Max(best)}
  BY DEF BestMatch
<1>2. best \in SUBSET (1 .. n)
  OBVIOUS
<1>3. Max(best) \in best
  <2> HIDE DEF best
  <2> QED BY <1>1, <1>2, MaxOfPlaces
<1>4. \A j \in best : j \in 1 .. n /\ scores[j] # {}
  OBVIOUS
<1> HIDE DEF best
<1> QED BY <1>1, <1>3, <1>4

\* Windows that match have one handle.
LEMMA MatchedHandles ==
    ASSUME NEW previous \in Windows, NEW current \in Windows,
           window_match_score(previous, current) # {}
    PROVE  window_native_handle(previous) = window_native_handle(current)
<1>1. window_native_handle(previous) \in Nat /\ window_native_handle(current) \in Nat
  BY HandleIsNat
<1>2. window_native_handle(previous) # None /\ window_native_handle(current) # None
  BY <1>1, NoHandleAssumption
<1>3. previous.root.attr.handle # None /\ current.root.attr.handle # None
        => previous.root.attr.handle = current.root.attr.handle
  BY DEF window_match_score
<1> QED BY <1>2, <1>3 DEF window_native_handle

\* stabilize_windows keeps the windows of a capture, under other ids.
LEMMA StabilizedWindows ==
    ASSUME NEW previous \in Seq(Windows), NEW current \in Seq(Windows)
    PROVE  LET kept == stabilize_windows(previous, current)
           IN  /\ kept \in Seq(Windows)
               /\ DOMAIN kept = DOMAIN current
               /\ \A i \in DOMAIN current :
                    /\ window_native_handle(kept[i]) = window_native_handle(current[i])
                    /\ Shown(kept[i]) = Shown(current[i])
<1> DEFINE scores == window_scores(previous, current)
           match  == Matching(scores)
           kept   == stabilize_windows(previous, current)
<1>1. /\ kept = [i \in DOMAIN current |-> IF match[i] = {} THEN current[i]
                                          ELSE KeepIds(previous[Max(match[i])], current[i])]
      /\ DOMAIN match = DOMAIN current
  BY DEF stabilize_windows, Matching, window_scores
<1>2. ASSUME NEW i \in DOMAIN current
      PROVE  /\ kept[i] \in Windows
             /\ window_native_handle(kept[i]) = window_native_handle(current[i])
             /\ Shown(kept[i]) = Shown(current[i])
  <2>1. CASE match[i] = {}
    BY <1>1, <2>1
  <2>2. CASE match[i] # {}
    <3> DEFINE row == [j \in DOMAIN previous |-> window_match_score(previous[j], current[i])]
    <3>1. scores[i] = row /\ DOMAIN row = 1 .. Len(previous)
      BY DEF window_scores
    <3>2. match[i] = BestMatch(scores[i], Used(scores)[i - 1])
      BY DEF Matching, window_scores
    <3>3. PICK j \in 1 .. Len(previous) : match[i] = {j} /\ row[j] # {}
      <4> HIDE DEF row, match, scores
      <4> QED BY <2>2, <3>1, <3>2, BestMatchHasScore
    <3>4. Max(match[i]) = j
      <4> HIDE DEF match
      <4> QED BY <3>3 DEF Max
    <3>5. window_match_score(previous[j], current[i]) # {}
      <4>1. j \in DOMAIN previous
        BY <3>3
      <4>2. row[j] = window_match_score(previous[j], current[i])
        BY <4>1
      <4> HIDE DEF row, match, scores
      <4> QED BY <3>3, <4>2
    <3>6. previous[j] \in Windows /\ current[i] \in Windows
      OBVIOUS
    <3>7. kept[i] = KeepIds(previous[j], current[i])
      <4> HIDE DEF match, kept
      <4> QED BY <1>1, <2>2, <3>4
    <3> HIDE DEF kept
    <3> QED BY <3>5, <3>6, <3>7, MatchedHandles, KeptWindow
  <2> QED BY <2>1, <2>2
<1>3. kept \in Seq(Windows) /\ DOMAIN kept = DOMAIN current
  <2> HIDE DEF match
  <2>1. DOMAIN kept = 1 .. Len(current) /\ Len(current) \in Nat
    BY <1>1
  <2> HIDE DEF kept
  <2>2. \A i \in 1 .. Len(current) : kept[i] \in Windows
    BY <1>2
  <2>3. kept \in [1 .. Len(current) -> Windows]
    <3>1. kept = [i \in 1 .. Len(current) |-> kept[i]]
      BY <1>1, <2>1 DEF kept
    <3> QED BY <2>2, <3>1
  <2> QED BY <2>1, <2>3
<1> HIDE DEF kept
<1> QED BY <1>2, <1>3 DEF kept
-----------------------------------------------------------------------------
(* Captures and refreshes.                                                 *)

\* Each handle shows one of its surfaces, or nothing.
DesktopOK ==
    /\ DOMAIN desktop = Handles
    /\ \A h \in Handles : desktop[h] \in Surfaces(h) \cup {None}

\* Whatever is open can be captured, under the handle it was asked for.
LEMMA OpenCaptured ==
    ASSUME DesktopOK, NEW hwnd, OpenAt(hwnd) # None, NEW backend \in Backends
    PROVE  /\ Capture(hwnd, OpenAt(hwnd), backend) \in Windows
           /\ window_native_handle(Capture(hwnd, OpenAt(hwnd), backend)) = hwnd
<1>1. ASSUME NEW h \in Handles, desktop[h] # None
      PROVE  /\ desktop[h] \in Surfaces(h)
             /\ {Capture(h, desktop[h], b) : b \in Backends}
                  \subseteq {w \in Windows : window_matches_hwnd(w, h)}
             /\ \A n \in Controls(h) : {Capture(n.handle, AsWindow(desktop[h], n), b) : b \in Backends}
                  \subseteq {w \in Windows : window_matches_hwnd(w, n.handle)}
  <2>1. desktop[h] \in Surfaces(h)
    BY <1>1 DEF DesktopOK
  <2> QED BY <2>1, CaptureAssumption DEF Controls
<1>2. CASE hwnd \in Handles
  <2>1. OpenAt(hwnd) = desktop[hwnd]
    BY <1>2 DEF OpenAt
  <2>2. Capture(hwnd, desktop[hwnd], backend) \in {w \in Windows : window_matches_hwnd(w, hwnd)}
    BY <1>1, <1>2, <2>1
  <2> QED BY <2>1, <2>2 DEF window_matches_hwnd
<1>3. CASE hwnd \notin Handles
  <2> DEFINE shown == {<<h, n>> : h \in OpenHandles, n \in UNION {Controls(g) : g \in OpenHandles}}
             mine  == {s \in shown : s[2] \in Controls(s[1]) /\ s[2].handle = hwnd}
             s     == CHOOSE s \in mine : TRUE
  <2>1. OpenAt(hwnd) = IF mine = {} THEN None ELSE AsWindow(desktop[s[1]], s[2])
    BY <1>3 DEF OpenAt
  <2>2. s \in mine
    BY <2>1
  <2>3. s[1] \in OpenHandles /\ s[2] \in Controls(s[1]) /\ s[2].handle = hwnd
    <3> HIDE DEF s
    <3> QED BY <2>2
  <2>4. OpenAt(hwnd) = AsWindow(desktop[s[1]], s[2])
    BY <2>1
  <2> HIDE DEF s
  <2>5. {Capture(s[2].handle, AsWindow(desktop[s[1]], s[2]), b) : b \in Backends}
           \subseteq {w \in Windows : window_matches_hwnd(w, s[2].handle)}
    BY <1>1, <2>3 DEF OpenHandles
  <2>6. Capture(hwnd, OpenAt(hwnd), backend) \in {w \in Windows : window_matches_hwnd(w, hwnd)}
    BY <2>3, <2>4, <2>5
  <2> QED BY <2>6 DEF window_matches_hwnd
<1> QED BY <1>2, <1>3

\* An open window's own capture.
LEMMA WindowCaptured ==
    ASSUME DesktopOK, NEW h \in OpenHandles, NEW backend \in Backends
    PROVE  /\ Capture(h, desktop[h], backend) \in Windows
           /\ window_native_handle(Capture(h, desktop[h], backend)) = h
<1>1. OpenAt(h) = desktop[h] /\ OpenAt(h) # None
  BY DEF OpenAt, OpenHandles
<1> QED BY <1>1, OpenCaptured

\* Inventories that have the same windows with a handle show the same of it.
LEMMA SameShowing ==
    ASSUME NEW before, NEW after, NEW hwnd,
           \A i \in DOMAIN before : window_matches_hwnd(before[i], hwnd) =>
              \E j \in DOMAIN after : window_matches_hwnd(after[j], hwnd)
                                        /\ Shown(after[j]) = Shown(before[i]),
           \A j \in DOMAIN after : window_matches_hwnd(after[j], hwnd) =>
              \E i \in DOMAIN before : window_matches_hwnd(before[i], hwnd)
                                        /\ Shown(after[j]) = Shown(before[i])
    PROVE  Showing(after, hwnd) = Showing(before, hwnd)
<1>1. Showing(after, hwnd) \subseteq Showing(before, hwnd)
  BY DEF Showing
<1>2. Showing(before, hwnd) \subseteq Showing(after, hwnd)
  BY DEF Showing
<1> QED BY <1>1, <1>2

\* One window of the inventory, and what it shows of its handle.
LEMMA ShowingOne ==
    ASSUME NEW windows, InventoryOK(windows), NEW i \in DOMAIN windows
    PROVE  Showing(windows, window_native_handle(windows[i])) = {Shown(windows[i])}
<1> DEFINE hwnd == window_native_handle(windows[i])
<1>1. \A j \in DOMAIN windows : window_matches_hwnd(windows[j], hwnd) <=> j = i
  BY DEF InventoryOK, window_matches_hwnd
<1> HIDE DEF hwnd
<1>2. {j \in DOMAIN windows : window_matches_hwnd(windows[j], hwnd)} = {i}
  BY <1>1
<1> QED BY <1>2 DEF Showing, hwnd

\* A desktop that is captured window by window.
LEMMA DesktopCaptured ==
    ASSUME DesktopOK, NEW how \in [OpenHandles -> {"Uia", "Msaa", "Err"}],
           NEW windows \in capture_desktop(how)
    PROVE  /\ InventoryOK(windows)
           /\ \A h \in Handles : Reflects(windows, h)
<1> DEFINE hwnds == Ascending(OpenHandles)
<1>1. IsFiniteSet(OpenHandles) /\ OpenHandles \subseteq Nat
  BY HandlesAssumption, FS_Subset DEF OpenHandles
<1>2. /\ hwnds \in Seq(OpenHandles) /\ Increasing(hwnds)
      /\ \A h \in OpenHandles : \E i \in DOMAIN hwnds : hwnds[i] = h
  BY <1>1, AscendingProperties
<1>3. /\ \A h \in OpenHandles : how[h] \in Backends
      /\ windows = [i \in DOMAIN hwnds |-> Capture(hwnds[i], desktop[hwnds[i]], how[hwnds[i]])]
  <2>1. /\ \A h \in OpenHandles : how[h] # "Err"
        /\ windows \in {[i \in DOMAIN hwnds |-> Capture(hwnds[i], desktop[hwnds[i]], how[hwnds[i]])]}
    BY DEF capture_desktop
  <2>2. \A h \in OpenHandles : how[h] \in {"Uia", "Msaa", "Err"}
    OBVIOUS
  <2> QED BY <2>1, <2>2 DEF Backends
<1> HIDE DEF hwnds
<1>4. /\ DOMAIN windows = 1 .. Len(hwnds) /\ Len(hwnds) \in Nat /\ DOMAIN hwnds = 1 .. Len(hwnds)
      /\ \A i \in DOMAIN hwnds : hwnds[i] \in OpenHandles
      /\ \A i \in DOMAIN windows : windows[i] = Capture(hwnds[i], desktop[hwnds[i]], how[hwnds[i]])
  BY <1>2, <1>3
<1>5. ASSUME NEW i \in DOMAIN windows
      PROVE  /\ windows[i] \in Windows
             /\ window_native_handle(windows[i]) = hwnds[i]
  BY <1>3, <1>4, WindowCaptured
<1>6. windows \in Seq(Windows)
  BY <1>3, <1>4, <1>5
<1>7. ASSUME NEW i \in DOMAIN windows, NEW j \in DOMAIN windows,
             window_matches_hwnd(windows[i], window_native_handle(windows[j]))
      PROVE  i = j
  <2>1. hwnds[i] = hwnds[j]
    BY <1>5, <1>7 DEF window_matches_hwnd
  <2>2. hwnds[i] \in OpenHandles
    BY <1>4
  <2>3. hwnds[i] \in Nat
    BY <1>1, <2>2
  <2>4. i \in Int /\ j \in Int
    BY <1>4
  <2>5. ~(i < j) /\ ~(j < i)
    BY <1>2, <1>4, <2>1, <2>3 DEF Increasing
  <2> QED BY <2>4, <2>5
<1>8. InventoryOK(windows)
  BY <1>6, <1>7 DEF InventoryOK
<1>9. ASSUME NEW h \in Handles PROVE Reflects(windows, h)
  <2>1. CASE desktop[h] = None
    <3>1. \A i \in DOMAIN windows : ~window_matches_hwnd(windows[i], h)
      BY <1>4, <1>5, <2>1 DEF OpenHandles, window_matches_hwnd
    <3> QED BY <2>1, <3>1 DEF Reflects, Showing
  <2>2. CASE desktop[h] # None
    <3>1. h \in OpenHandles
      BY <2>2 DEF OpenHandles
    <3>2. PICK i \in DOMAIN windows : hwnds[i] = h
      BY <1>2, <1>4, <3>1
    <3>3. Showing(windows, h) = {Shown(Capture(h, desktop[h], how[h]))}
      BY <1>4, <1>5, <1>8, <3>2, ShowingOne
    <3> QED BY <1>3, <2>2, <3>1, <3>3 DEF Reflects
  <2> QED BY <2>1, <2>2
<1> QED BY <1>8, <1>9

\* A refresh of the whole desktop shows the desktop as it is.
LEMMA DesktopRefreshed ==
    ASSUME DesktopOK, NEW windows, InventoryOK(windows),
           NEW how \in [OpenHandles -> {"Uia", "Msaa", "Err"}],
           NEW result \in RefreshDesktop(windows, how)
    PROVE  /\ InventoryOK(result)
           /\ \A h \in Handles : Reflects(result, h)
<1>1. PICK refreshed \in capture_desktop(how) : result = stabilize_windows(windows, refreshed)
  BY DEF RefreshDesktop
<1>2. InventoryOK(refreshed) /\ \A h \in Handles : Reflects(refreshed, h)
  BY DesktopCaptured
<1>3. windows \in Seq(Windows) /\ refreshed \in Seq(Windows)
  BY <1>2 DEF InventoryOK
<1>4. /\ result \in Seq(Windows) /\ DOMAIN result = DOMAIN refreshed
      /\ \A i \in DOMAIN refreshed :
            /\ window_native_handle(result[i]) = window_native_handle(refreshed[i])
            /\ Shown(result[i]) = Shown(refreshed[i])
  BY <1>1, <1>3, StabilizedWindows
<1>5. InventoryOK(result)
  BY <1>2, <1>4 DEF InventoryOK, window_matches_hwnd
<1>6. ASSUME NEW h \in Handles PROVE Reflects(result, h)
  <2>1. Showing(result, h) = Showing(refreshed, h)
    <3>1. \A i \in DOMAIN refreshed :
             window_matches_hwnd(result[i], h) <=> window_matches_hwnd(refreshed[i], h)
      BY <1>4 DEF window_matches_hwnd
    <3> QED BY <1>4, <3>1, SameShowing
  <2> QED BY <1>2, <2>1 DEF Reflects
<1> QED BY <1>5, <1>6

\* retain leaves the other windows as they were.
LEMMA WindowRetained ==
    ASSUME NEW windows, InventoryOK(windows), NEW hwnd
    PROVE  LET left == WithoutWindow(windows, hwnd)
           IN  /\ InventoryOK(left)
               /\ Showing(left, hwnd) = {}
               /\ \A h : h # hwnd => Showing(left, h) = Showing(windows, h)
<1> DEFINE others == {i \in DOMAIN windows : ~window_matches_hwnd(windows[i], hwnd)}
           kept   == Ascending(others)
           left   == WithoutWindow(windows, hwnd)
<1>0. windows \in Seq(Windows) /\ DOMAIN windows = 1 .. Len(windows) /\ Len(windows) \in Nat
  BY DEF InventoryOK
<1>1. IsFiniteSet(others) /\ others \subseteq Nat
  <2>1. IsFiniteSet(1 .. Len(windows))
    BY <1>0, FS_Interval
  <2>2. others \subseteq 1 .. Len(windows) /\ 1 .. Len(windows) \subseteq Nat
    BY <1>0
  <2> HIDE DEF others
  <2> QED BY <2>1, <2>2, FS_Subset
<1>2. /\ kept \in Seq(others) /\ Increasing(kept)
      /\ \A x \in others : \E i \in DOMAIN kept : kept[i] = x
  <2> HIDE DEF others
  <2> QED BY <1>1, AscendingProperties
<1>3. left = [i \in DOMAIN kept |-> windows[kept[i]]]
  BY DEF WithoutWindow
<1> HIDE DEF kept
<1>4. /\ DOMAIN left = 1 .. Len(kept) /\ DOMAIN kept = 1 .. Len(kept) /\ Len(kept) \in Nat
      /\ \A i \in DOMAIN left : kept[i] \in others /\ left[i] = windows[kept[i]]
  <2> HIDE DEF others
  <2> QED BY <1>2, <1>3
<1>5. ASSUME NEW i \in DOMAIN left
      PROVE  /\ kept[i] \in DOMAIN windows /\ left[i] = windows[kept[i]] /\ left[i] \in Windows
             /\ ~window_matches_hwnd(left[i], hwnd)
  <2>1. kept[i] \in others /\ left[i] = windows[kept[i]]
    <3> HIDE DEF others, left
    <3> QED BY <1>4
  <2>2. kept[i] \in DOMAIN windows /\ ~window_matches_hwnd(windows[kept[i]], hwnd)
    BY <2>1
  <2>3. windows[kept[i]] \in Windows
    BY <1>0, <2>2
  <2> HIDE DEF others, left
  <2> QED BY <2>1, <2>2, <2>3
<1> HIDE DEF left
<1>6. left \in Seq(Windows)
  BY <1>3, <1>4, <1>5
<1>7. ASSUME NEW i \in DOMAIN left, NEW j \in DOMAIN left,
             window_matches_hwnd(left[i], window_native_handle(left[j]))
      PROVE  i = j
  <2>1. kept[i] = kept[j]
    BY <1>5, <1>7 DEF InventoryOK
  <2>2. kept[i] \in Nat
    BY <1>0, <1>5
  <2>3. i \in Int /\ j \in Int
    BY <1>4
  <2>4. ~(i < j) /\ ~(j < i)
    BY <1>2, <1>4, <2>1, <2>2 DEF Increasing
  <2> QED BY <2>3, <2>4
<1>8. InventoryOK(left)
  BY <1>6, <1>7 DEF InventoryOK
<1>9. Showing(left, hwnd) = {}
  BY <1>5 DEF Showing
<1>10. ASSUME NEW h, h # hwnd PROVE Showing(left, h) = Showing(windows, h)
  <2>1. ASSUME NEW i \in DOMAIN windows, window_matches_hwnd(windows[i], h)
        PROVE  \E j \in DOMAIN left : window_matches_hwnd(left[j], h) /\ Shown(left[j]) = Shown(windows[i])
    <3>1. i \in others
      BY <1>10, <2>1 DEF window_matches_hwnd
    <3>2. PICK j \in DOMAIN kept : kept[j] = i
      <4> HIDE DEF others
      <4> QED BY <1>2, <3>1
    <3> HIDE DEF others
    <3> QED BY <1>4, <2>1, <3>2
  <2>2. \A j \in DOMAIN left : window_matches_hwnd(left[j], h) =>
           \E i \in DOMAIN windows : window_matches_hwnd(windows[i], h) /\ Shown(left[j]) = Shown(windows[i])
    BY <1>5
  <2> QED BY <2>1, <2>2, SameShowing
<1> QED BY <1>8, <1>9, <1>10 DEF left

\* A window the inventory did not have comes last.
LEMMA WindowAdded ==
    ASSUME NEW windows, InventoryOK(windows), NEW window \in Windows,
           \A i \in DOMAIN windows : ~window_matches_hwnd(windows[i], window_native_handle(window))
    PROVE  LET more == Append(windows, window)
           IN  /\ InventoryOK(more)
               /\ Showing(more, window_native_handle(window)) = {Shown(window)}
               /\ \A h : h # window_native_handle(window) =>
                    Showing(more, h) = Showing(windows, h)
<1> DEFINE more == Append(windows, window)
           last == Len(windows) + 1
<1>1. windows \in Seq(Windows) /\ DOMAIN windows = 1 .. Len(windows) /\ Len(windows) \in Nat
  BY DEF InventoryOK
<1>2. /\ more \in Seq(Windows) /\ DOMAIN more = DOMAIN windows \cup {last}
      /\ more[last] = window /\ last \in DOMAIN more
      /\ \A i \in DOMAIN windows : more[i] = windows[i] /\ i \in DOMAIN more
  BY <1>1
<1> HIDE DEF more, last
<1>3. InventoryOK(more)
  BY <1>2 DEF InventoryOK, window_matches_hwnd
<1>4. Showing(more, window_native_handle(window)) = {Shown(window)}
  BY <1>2, <1>3, ShowingOne
<1>5. ASSUME NEW h, h # window_native_handle(window) PROVE Showing(more, h) = Showing(windows, h)
  <2>1. ~window_matches_hwnd(more[last], h)
    BY <1>2, <1>5 DEF window_matches_hwnd
  <2> QED BY <1>2, <2>1, SameShowing
<1> QED BY <1>3, <1>4, <1>5 DEF more

\* One window of an inventory is exchanged for another with its handle.
Replaced(windows, changed, i) ==
    /\ changed \in Seq(Windows) /\ DOMAIN changed = DOMAIN windows
    /\ window_native_handle(changed[i]) = window_native_handle(windows[i])
    /\ \A j \in DOMAIN windows : j # i => changed[j] = windows[j]

LEMMA WindowReplaced ==
    ASSUME NEW windows, InventoryOK(windows), NEW i \in DOMAIN windows,
           NEW changed, Replaced(windows, changed, i),
           NEW hwnd, window_native_handle(windows[i]) = hwnd
    PROVE  /\ InventoryOK(changed)
           /\ Showing(changed, hwnd) = {Shown(changed[i])}
           /\ \A h : h # hwnd => Showing(changed, h) = Showing(windows, h)
<1>1. /\ changed \in Seq(Windows) /\ DOMAIN changed = DOMAIN windows
      /\ \A j \in DOMAIN windows : j # i => changed[j] = windows[j]
  BY DEF Replaced
<1>2. \A j \in DOMAIN windows : window_native_handle(changed[j]) = window_native_handle(windows[j])
  BY DEF Replaced
<1>3. InventoryOK(changed)
  BY <1>1, <1>2 DEF InventoryOK, window_matches_hwnd
<1>4. Showing(changed, hwnd) = {Shown(changed[i])}
  BY <1>1, <1>2, <1>3, ShowingOne
<1>5. ASSUME NEW h, h # hwnd PROVE Showing(changed, h) = Showing(windows, h)
  <2>1. \A j \in DOMAIN windows : window_matches_hwnd(changed[j], h) <=> window_matches_hwnd(windows[j], h)
    BY <1>2 DEF window_matches_hwnd
  <2>2. ~window_matches_hwnd(windows[i], h)
    BY <1>5 DEF window_matches_hwnd
  <2> QED BY <1>1, <2>1, <2>2, SameShowing
<1> QED BY <1>3, <1>4, <1>5

\* What an inventory says of a handle when it has just been captured, or found closed.
Captures(windows, hwnd) ==
    IF OpenAt(hwnd) = None THEN Showing(windows, hwnd) = {}
    ELSE \E backend \in Backends :
            Showing(windows, hwnd) = {Shown(Capture(hwnd, OpenAt(hwnd), backend))}

\* A refresh of one window shows that window as it is and leaves the others alone.
LEMMA WindowRefreshed ==
    ASSUME DesktopOK, NEW windows, InventoryOK(windows), NEW hwnd, NEW how,
           OpenAt(hwnd) # None => how[hwnd] \in {"Uia", "Msaa", "Err"},
           NEW result \in RefreshWindow(windows, hwnd, how)
    PROVE  /\ InventoryOK(result)
           /\ Captures(result, hwnd)
           /\ \A h : h # hwnd => Showing(result, h) = Showing(windows, h)
<1> DEFINE found  == {i \in DOMAIN windows : window_matches_hwnd(windows[i], hwnd)}
           window == Capture(hwnd, OpenAt(hwnd), how[hwnd])
<1>1. result \in IF OpenAt(hwnd) = None THEN {WithoutWindow(windows, hwnd)}
                 ELSE IF how[hwnd] = "Err" THEN {}
                 ELSE IF found = {} THEN {Append(windows, window)}
                 ELSE {[windows EXCEPT ![Min(found)] = KeepIds(@, window)]}
  BY DEF RefreshWindow
<1>2. CASE OpenAt(hwnd) = None
  <2>1. result = WithoutWindow(windows, hwnd)
    BY <1>1, <1>2
  <2> QED BY <1>2, <2>1, WindowRetained DEF Captures
<1>3. CASE OpenAt(hwnd) # None
  <2>1. how[hwnd] \in Backends
    BY <1>1, <1>3 DEF Backends
  <2>2. window \in Windows /\ window_native_handle(window) = hwnd
    BY <1>3, <2>1, OpenCaptured
  <2>3. CASE found = {}
    <3>1. result = Append(windows, window)
      BY <1>1, <1>3, <2>3
    <3>2. \A i \in DOMAIN windows : ~window_matches_hwnd(windows[i], hwnd)
      BY <2>3
    <3> HIDE DEF window
    <3>3. /\ InventoryOK(result) /\ Showing(result, hwnd) = {Shown(window)}
          /\ \A h : h # hwnd => Showing(result, h) = Showing(windows, h)
      BY <2>2, <3>1, <3>2, WindowAdded
    <3> QED BY <1>3, <2>1, <3>3 DEF Captures, window
  <2>4. CASE found # {}
    <3>1. PICK i \in DOMAIN windows : window_matches_hwnd(windows[i], hwnd)
      BY <2>4
    <3>2. found = {i}
      BY <3>1 DEF InventoryOK, window_matches_hwnd
    <3>3. Min(found) = i
      <4>1. i \in Nat
        BY DEF InventoryOK
      <4> HIDE DEF found
      <4> QED BY <3>2, <4>1 DEF Min
    <3>4. result = [windows EXCEPT ![i] = KeepIds(windows[i], window)]
      <4> HIDE DEF found, window
      <4> QED BY <1>1, <1>3, <2>1, <2>4, <3>3 DEF Backends
    <3> HIDE DEF found, window
    <3>5. windows[i] \in Windows /\ window_native_handle(windows[i]) = hwnd
      BY <3>1 DEF InventoryOK, window_matches_hwnd
    <3>6. /\ KeepIds(windows[i], window) \in Windows
          /\ window_native_handle(KeepIds(windows[i], window)) = hwnd
          /\ Shown(KeepIds(windows[i], window)) = Shown(window)
      BY <2>2, <3>5, KeptWindow
    <3>7. /\ InventoryOK(result) /\ Showing(result, hwnd) = {Shown(window)}
          /\ \A h : h # hwnd => Showing(result, h) = Showing(windows, h)
      <4>1. Replaced(windows, result, i) /\ result[i] = KeepIds(windows[i], window)
        BY <3>4, <3>5, <3>6 DEF Replaced, InventoryOK
      <4>2. window_native_handle(windows[i]) = hwnd
        BY <3>5
      <4>3. /\ InventoryOK(result) /\ Showing(result, hwnd) = {Shown(result[i])}
            /\ \A h : h # hwnd => Showing(result, h) = Showing(windows, h)
        BY <4>1, <4>2, WindowReplaced
      <4> QED BY <3>6, <4>1, <4>3
    <3> QED BY <1>3, <2>1, <3>7 DEF Captures, window
  <2> QED BY <2>3, <2>4
<1> QED BY <1>2, <1>3

-----------------------------------------------------------------------------
(* Batches of requests.                                                    *)

\* A batch names no window twice and nothing beside the desktop.
BatchOK(requests) ==
    /\ requests \in Seq(Nat) /\ Increasing(requests)
    /\ \A i \in DOMAIN requests : requests[i] = Desktop => Len(requests) = 1

\* Coalescing keeps a request for every window that is asked for.
LEMMA Coalesced ==
    ASSUME NEW requests \in Seq(Nat)
    PROVE  LET batched == coalesce_refresh_requests(requests)
           IN  /\ BatchOK(batched)
               /\ \A i \in DOMAIN requests : \E j \in DOMAIN batched :
                    batched[j] \in {requests[i], Desktop}
<1> DEFINE scopes  == {requests[i] : i \in DOMAIN requests}
           batched == coalesce_refresh_requests(requests)
<1>1. CASE Desktop \in scopes
  <2>1. batched = <<Desktop>>
    BY <1>1 DEF coalesce_refresh_requests
  <2> HIDE DEF batched
  <2>2. batched \in Seq(Nat) /\ Len(batched) = 1 /\ DOMAIN batched = {1} /\ batched[1] = Desktop
    BY <2>1 DEF Desktop
  <2> QED BY <2>2 DEF BatchOK, Increasing, batched
<1>2. CASE Desktop \notin scopes
  <2>1. batched = Ascending(scopes)
    BY <1>2 DEF coalesce_refresh_requests
  <2>2. IsFiniteSet(scopes) /\ scopes \subseteq Nat
    <3>1. scopes \subseteq Nat
      OBVIOUS
    <3>2. IsFiniteSet(DOMAIN requests)
      BY FS_Interval
    <3>3. requests \in Surjection(DOMAIN requests, scopes)
      BY DEF Surjection
    <3> HIDE DEF scopes
    <3> QED BY <3>1, <3>2, <3>3, FS_Surjection
  <2> HIDE DEF batched
  <2>3. /\ batched \in Seq(scopes) /\ Increasing(batched)
        /\ \A x \in scopes : \E i \in DOMAIN batched : batched[i] = x
    <3> HIDE DEF scopes
    <3> QED BY <2>1, <2>2, AscendingProperties
  <2>4. batched \in Seq(Nat) /\ \A i \in DOMAIN batched : batched[i] # Desktop
    <3>1. \A i \in DOMAIN batched : batched[i] \in scopes
      <4> HIDE DEF scopes
      <4> QED BY <2>3
    <3>2. batched \in Seq(Nat)
      <4>1. DOMAIN batched = 1 .. Len(batched) /\ Len(batched) \in Nat /\ batched = [i \in DOMAIN batched |-> batched[i]]
        <5> HIDE DEF scopes
        <5> QED BY <2>3
      <4>2. \A i \in DOMAIN batched : batched[i] \in Nat
        BY <3>1
      <4> QED BY <4>1, <4>2
    <3> QED BY <1>2, <3>1, <3>2
  <2>5. \A i \in DOMAIN requests : \E j \in DOMAIN batched : batched[j] \in {requests[i], Desktop}
    BY <2>3
  <2> QED BY <2>3, <2>4, <2>5 DEF BatchOK, batched
<1> QED BY <1>1, <1>2

\* What remains of a batch when its first request has been applied.
LEMMA BatchTail ==
    ASSUME NEW requests, BatchOK(requests), requests # << >>
    PROVE  /\ BatchOK(Tail(requests))
           /\ Head(requests) \in Nat /\ Head(requests) = requests[1]
           /\ \A i \in DOMAIN requests : i # 1 =>
                i - 1 \in DOMAIN Tail(requests) /\ Tail(requests)[i - 1] = requests[i]
<1> DEFINE n    == Len(requests)
           rest == Tail(requests)
<1>1. /\ requests \in Seq(Nat) /\ n \in Nat /\ n # 0 /\ DOMAIN requests = 1 .. n
      /\ \A i \in 1 .. n : requests[i] \in Nat
  BY DEF BatchOK
<1>2. /\ rest \in Seq(Nat) /\ Len(rest) = n - 1 /\ DOMAIN rest = 1 .. n - 1
      /\ \A i \in 1 .. n - 1 : i + 1 \in 1 .. n /\ rest[i] = requests[i + 1]
  BY <1>1
<1>3. Head(requests) = requests[1] /\ requests[1] \in Nat
  BY <1>1
<1> HIDE DEF rest
<1>4. Increasing(rest)
  <2> SUFFICES ASSUME NEW i \in DOMAIN rest, NEW j \in DOMAIN rest, i < j PROVE rest[i] < rest[j]
    BY DEF Increasing
  <2>0. i \in 1 .. n - 1 /\ j \in 1 .. n - 1
    BY <1>2
  <2>1. i + 1 \in DOMAIN requests /\ j + 1 \in DOMAIN requests /\ i + 1 < j + 1
    <3>1. i + 1 \in DOMAIN requests /\ j + 1 \in DOMAIN requests
      BY <1>1, <1>2, <2>0
    <3>2. i \in Int /\ j \in Int
      BY <1>1, <2>0
    <3> QED BY <3>1, <3>2
  <2>2. rest[i] = requests[i + 1] /\ rest[j] = requests[j + 1]
    BY <1>2
  <2> QED BY <2>1, <2>2 DEF BatchOK, Increasing
<1>5. ASSUME NEW i \in DOMAIN rest, rest[i] = Desktop PROVE FALSE
  <2>1. i + 1 \in DOMAIN requests /\ requests[i + 1] = Desktop /\ i \in 1 .. n - 1
    BY <1>1, <1>2, <1>5
  <2>2. n = 1
    BY <2>1 DEF BatchOK
  <2> QED BY <2>1, <2>2
<1>6. BatchOK(rest)
  BY <1>2, <1>4, <1>5 DEF BatchOK
<1>7. \A i \in DOMAIN requests : i # 1 => i - 1 \in 1 .. n - 1 /\ (i - 1) + 1 = i
  BY <1>1
<1>8. \A i \in DOMAIN requests : i # 1 => i - 1 \in DOMAIN rest /\ rest[i - 1] = requests[i]
  BY <1>2, <1>7
<1> QED BY <1>3, <1>6, <1>8 DEF rest

-----------------------------------------------------------------------------
(* The inductive invariant.                                                *)

IsSequence(s) == s \in Seq({s[i] : i \in DOMAIN s})

Opened == phase \notin {"opening", "failed"}

\* A revision needs a batch, a batch a request, and a request a change.
Budget ==
    /\ snapshot.rev + Len(queue) + (IF phase = "refreshing" THEN 1 ELSE 0) <= changes + 1
    /\ Opened => Len(out) + 1 <= snapshot.rev
    /\ ~Opened => snapshot.rev = 0 /\ queue = << >> /\ out = << >>
    /\ phase = "captured" => queue = << >>

Typing ==
    /\ phase \in {"opening", "captured", "waiting", "refreshing", "failed", "unobserved", "stopped"}
    /\ changes \in 0..MaxChanges /\ faults \in 0..MaxFaults
    /\ profile \in Profiles /\ gone \in BOOLEAN
    /\ DesktopOK
    /\ queue \in Seq(Nat)
    /\ BatchOK(batch) /\ (phase \notin {"refreshing", "stopped"} => batch = << >>)
    /\ InventoryOK(inventory) /\ InventoryOK(next)
    /\ snapshot.rev \in Nat /\ cache.rev \in Nat /\ cache.rev <= snapshot.rev
    /\ DOMAIN cache = {"snapshot", "rev", "resync"}
    /\ IsSequence(out)
    /\ \A i \in DOMAIN out : out[i].new \in Nat /\ out[i].new <= snapshot.rev
    /\ blind \subseteq Handles

\* Between two batches the inventory tells of every window that is not awaited.
Current == IF phase = "refreshing" THEN next ELSE inventory

Told ==
    phase \in {"captured", "waiting", "refreshing"} =>
        \A h \in Handles : h \in blind \/ Awaited(h) \/ Reflects(Current, h)

ObserverInv == Typing /\ Budget /\ Told

-----------------------------------------------------------------------------
(* Facts the steps share.                                                  *)

LEMMA SequenceOf ==
    ASSUME NEW S, NEW s \in Seq(S)
    PROVE  IsSequence(s)
<1>1. DOMAIN s = 1 .. Len(s) /\ Len(s) \in Nat /\ s = [i \in 1 .. Len(s) |-> s[i]]
  OBVIOUS
<1>2. \A i \in 1 .. Len(s) : s[i] \in {s[j] : j \in DOMAIN s}
  BY <1>1
<1> QED BY <1>1, <1>2 DEF IsSequence

LEMMA SequenceAppended ==
    ASSUME NEW s, IsSequence(s), NEW x
    PROVE  /\ IsSequence(Append(s, x)) /\ Len(Append(s, x)) = Len(s) + 1 /\ Len(s) \in Nat
           /\ \A i \in DOMAIN Append(s, x) :
                (i \in DOMAIN s /\ Append(s, x)[i] = s[i]) \/ Append(s, x)[i] = x
<1> DEFINE S == {s[i] : i \in DOMAIN s} \cup {x}
<1>1. s \in Seq(S)
  <2>1. {s[i] : i \in DOMAIN s} \subseteq S
    OBVIOUS
  <2> HIDE DEF S
  <2> QED BY <2>1 DEF IsSequence
<1>2. x \in S
  OBVIOUS
<1> HIDE DEF S
<1>3. /\ Append(s, x) \in Seq(S) /\ Len(Append(s, x)) = Len(s) + 1 /\ Len(s) \in Nat
      /\ \A i \in DOMAIN Append(s, x) :
           (i \in DOMAIN s /\ Append(s, x)[i] = s[i]) \/ Append(s, x)[i] = x
  BY <1>1, <1>2
<1>4. IsSequence(Append(s, x))
  BY <1>3, SequenceOf
<1> QED BY <1>3, <1>4

LEMMA SequenceTail ==
    ASSUME NEW s, IsSequence(s), s # << >>
    PROVE  /\ IsSequence(Tail(s)) /\ Len(Tail(s)) = Len(s) - 1 /\ Len(s) \in Nat \ {0}
           /\ \A i \in DOMAIN Tail(s) : i + 1 \in DOMAIN s /\ Tail(s)[i] = s[i + 1]
           /\ 1 \in DOMAIN s /\ Head(s) = s[1]
<1> DEFINE S == {s[i] : i \in DOMAIN s}
<1>1. s \in Seq(S)
  BY DEF IsSequence
<1> HIDE DEF S
<1>2. /\ Tail(s) \in Seq(S) /\ Len(Tail(s)) = Len(s) - 1 /\ Len(s) \in Nat \ {0}
      /\ 1 \in DOMAIN s /\ Head(s) = s[1]
  BY <1>1
<1>3. \A i \in DOMAIN Tail(s) : i + 1 \in DOMAIN s /\ Tail(s)[i] = s[i + 1]
  BY <1>1
<1>4. IsSequence(Tail(s))
  BY <1>2, SequenceOf
<1> QED BY <1>2, <1>3, <1>4

LEMMA OpenHandlesFinite == IsFiniteSet(OpenHandles) /\ OpenHandles \subseteq Handles
BY HandlesAssumption, FS_Subset DEF OpenHandles

\* Every refresh counts what was not UIA, within the bound.
LEMMA FaultsCounted ==
    ASSUME NEW hwnds, IsFiniteSet(hwnds), faults \in 0 .. MaxFaults,
           NEW how \in Outcomes(hwnds), CountFaults(how)
    PROVE  faults' \in 0 .. MaxFaults /\ how \in [hwnds -> {"Uia", "Msaa", "Err"}]
<1> DEFINE other == {h \in hwnds : how[h] # "Uia"}
<1>1. how \in [hwnds -> {"Uia", "Msaa", "Err"}] /\ Cardinality(other) <= MaxFaults - faults
  BY DEF Outcomes
<1>2. IsFiniteSet(other)
  BY FS_Subset
<1>3. Cardinality(other) \in Nat
  BY <1>2, FS_CardinalityType
<1>4. faults' = faults + Cardinality(other)
  BY <1>1 DEF CountFaults
<1> HIDE DEF other
<1> QED BY <1>1, <1>3, <1>4, BoundsAssumption

LEMMA EmptyOK == InventoryOK(<< >>) /\ BatchOK(<< >>) /\ IsSequence(<< >>)
BY DEF InventoryOK, BatchOK, Increasing, IsSequence

\* Requests are for handles or for the desktop.
LEMMA Announced ==
    ASSUME DesktopOK, NEW h \in Handles, NEW scope \in AnnouncedAs(h)
    PROVE  scope \in Nat
<1>1. CASE scope \in {h, Desktop}
  BY <1>1, HandlesAssumption DEF Desktop
<1>2. CASE scope \notin {h, Desktop}
  <2>1. PICK n \in Controls(h) : scope = n.handle /\ desktop[h] # None
    BY <1>2 DEF AnnouncedAs
  <2>2. desktop[h] \in Surfaces(h)
    BY <2>1 DEF DesktopOK
  <2>3. n \in RawTree(desktop[h].root) /\ n.handle # None
    BY DEF Controls
  <2> QED BY <2>1, <2>2, <2>3, SurfacesAssumption
<1> QED BY <1>1, <1>2

\* A window that has not changed is told of by the same inventories.
LEMMA StillReflects ==
    ASSUME NEW h, desktop'[h] = desktop[h], Current' = Current, Reflects(Current, h)
    PROVE  Reflects(Current, h)'
BY DEF Reflects

-----------------------------------------------------------------------------
(* The steps.                                                              *)

LEMMA InitInv == Init => ObserverInv
<1> SUFFICES ASSUME Init PROVE ObserverInv
  OBVIOUS
<1> USE DEF Init
<1>1. DesktopOK
  BY SurfacesAssumption DEF DesktopOK
<1>2. cache.rev = 0 /\ snapshot.rev = 0 /\ Len(queue) = 0 /\ DOMAIN cache = {"snapshot", "rev", "resync"} /\ 0 \in 0 .. MaxChanges /\ 0 \in 0 .. MaxFaults
  BY BoundsAssumption DEF Store!EmptyStore
<1>3. Typing
  <2>1. InventoryOK(inventory) /\ InventoryOK(next) /\ BatchOK(batch) /\ IsSequence(out)
    BY EmptyOK
  <2>2. queue \in Seq(Nat) /\ batch = << >> /\ (\A i \in DOMAIN out : out[i].new \in Nat /\ out[i].new <= snapshot.rev)
    OBVIOUS
  <2>3. /\ phase = "opening" /\ blind = {} /\ profile \in Profiles /\ gone \in BOOLEAN
        /\ changes \in 0 .. MaxChanges /\ faults \in 0 .. MaxFaults
    BY <1>2
  <2>4. /\ snapshot.rev \in Nat /\ cache.rev \in Nat /\ cache.rev <= snapshot.rev
        /\ DOMAIN cache = {"snapshot", "rev", "resync"}
    BY <1>2
  <2> QED BY ONLY <1>1, <2>1, <2>2, <2>3, <2>4 DEF Typing
<1>4. Budget
  BY <1>2 DEF Budget, Opened
<1>5. Told
  BY DEF Told
<1> QED BY <1>3, <1>4, <1>5 DEF ObserverInv

LEMMA CaptureInitialInv ==
    ASSUME ObserverInv, CaptureInitial
    PROVE  ObserverInv'
<1> USE DEF ObserverInv
<1>1. PICK how \in Outcomes(OpenHandles) :
        /\ CountFaults(how)
        /\ \/ /\ capture_desktop(how) = {}
              /\ phase' = "failed"
              /\ UNCHANGED <<inventory, snapshot, owners, ambiguous>>
           \/ \E windows \in capture_desktop(how) :
                /\ inventory' = windows
                /\ snapshot' = [rev |-> 1, windows |-> snapshot_from_inventory(windows)]
                /\ owners' = OwnersIn(windows)
                /\ ambiguous' = Ambiguous(windows)
                /\ phase' = "captured"
  BY DEF CaptureInitial
<1>2. phase = "opening" /\ UNCHANGED <<desktopVars, profile, queue, batch, next, out, cache, gone, blind, inserted>>
  BY DEF CaptureInitial
<1>3. faults' \in 0 .. MaxFaults /\ how \in [OpenHandles -> {"Uia", "Msaa", "Err"}]
  BY <1>1, OpenHandlesFinite, FaultsCounted DEF Typing
<1>4. DesktopOK' /\ DesktopOK
  BY <1>2 DEF Typing, DesktopOK, desktopVars
<1>5. snapshot.rev = 0 /\ queue = << >> /\ out = << >> /\ batch = << >>
  BY <1>2 DEF Budget, Typing, Opened
<1>6. CASE phase' = "failed" /\ UNCHANGED <<inventory, snapshot, owners, ambiguous>>
  <2>1. Typing'
    BY <1>2, <1>3, <1>4, <1>6 DEF Typing, desktopVars
  <2>2. Budget'
    BY <1>2, <1>6 DEF Budget, Opened, desktopVars
  <2>3. Told'
    BY <1>6 DEF Told
  <2> QED BY <2>1, <2>2, <2>3
<1>7. ASSUME NEW windows \in capture_desktop(how),
             inventory' = windows, snapshot'.rev = 1, phase' = "captured"
      PROVE  ObserverInv'
  <2>1. InventoryOK(windows) /\ \A h \in Handles : Reflects(windows, h)
    BY <1>3, <1>4, DesktopCaptured
  <2>2. snapshot'.rev \in Nat /\ cache.rev \in Nat /\ cache.rev <= snapshot'.rev
    BY <1>5, <1>7 DEF Typing
  <2>3. \A i \in DOMAIN out' : out'[i].new \in Nat /\ out'[i].new <= snapshot'.rev
    BY <1>2, <1>5
  <2>4. Typing'
    BY <1>2, <1>3, <1>4, <1>5, <1>7, <2>1, <2>2, <2>3 DEF Typing, desktopVars
  <2>5. Budget'
    BY <1>2, <1>5, <1>7 DEF Budget, Opened, desktopVars, Typing
  <2>6. ASSUME NEW h \in Handles PROVE Reflects(Current, h)'
    <3>1. Reflects(windows, h) /\ Current' = windows /\ desktop' = desktop
      BY <1>2, <1>7, <2>1 DEF Current, desktopVars
    <3> QED BY <3>1 DEF Reflects
  <2>7. Told'
    BY <2>6 DEF Told
  <2> QED BY <2>4, <2>5, <2>7
<1> QED BY <1>1, <1>6, <1>7

LEMMA SubscribeInv ==
    ASSUME ObserverInv, Subscribe
    PROVE  ObserverInv'
<1> USE DEF ObserverInv
<1>1. /\ phase = "captured" /\ phase' \in {"waiting", "unobserved"}
      /\ UNCHANGED <<desktopVars, faults, profile, queue, batch, inventory, next, snapshot, out,
                     gone, history>>
      /\ cache'.rev = snapshot.rev /\ DOMAIN cache' = {"snapshot", "rev", "resync"}
  BY DEF Subscribe, Store!replace_snapshot
<1>2. Typing'
  BY <1>1 DEF Typing, DesktopOK, desktopVars, history
<1>3. Budget'
  BY <1>1 DEF Budget, Opened, desktopVars
<1>4. Told'
  <2> SUFFICES ASSUME NEW h \in Handles, phase' = "waiting"
               PROVE  h \in blind' \/ Awaited(h)' \/ Reflects(Current, h)'
    BY <1>1 DEF Told
  <2>1. h \in blind \/ Awaited(h) \/ Reflects(Current, h)
    BY <1>1 DEF Told
  <2>2. Current' = Current
    BY <1>1 DEF Current
  <2> QED BY <1>1, <2>1, <2>2, StillReflects DEF history, desktopVars, Awaited
<1> QED BY <1>2, <1>3, <1>4

LEMMA ChangeInv ==
    ASSUME ObserverInv, NEW h \in Handles, Change(h)
    PROVE  ObserverInv'
<1> USE DEF ObserverInv
<1>1. PICK surface \in (Surfaces(h) \cup {None}) \ {desktop[h]} :
         ChangeAnnounced(h, surface) \/ ChangeUnseen(h, surface)
  BY DEF Change
<1>2. /\ changes < MaxChanges /\ changes' = changes + 1
      /\ phase \notin {"opening", "failed"}
      /\ UNCHANGED <<faults, profile, phase, batch, inventory, next, snapshot, out, cache, gone>>
  BY DEF Change
<1>3. desktop' = [desktop EXCEPT ![h] = surface]
  BY <1>1 DEF ChangeAnnounced, ChangeUnseen
<1>4. DesktopOK' /\ \A g \in Handles \ {h} : desktop'[g] = desktop[g]
  BY <1>1, <1>3 DEF Typing, DesktopOK
<1>5. blind' \subseteq Handles /\ \A g \in Handles \ {h} : g \in blind => g \in blind'
  BY <1>1 DEF ChangeAnnounced, ChangeUnseen, Typing
<1>6. \/ queue' = queue /\ h \in blind'
      \/ Observed /\ \E scope \in AnnouncedAs(h) :
            queue' = Append(queue, scope) /\ (scope \in {h, Desktop} \/ h \in blind')
  BY <1>1 DEF ChangeAnnounced, ChangeUnseen
<1>7. /\ queue' \in Seq(Nat) /\ Len(queue') <= Len(queue) + 1
      /\ phase = "captured" => queue' = queue
      /\ \A i \in DOMAIN queue : i \in DOMAIN queue' /\ queue'[i] = queue[i]
      /\ h \in blind' \/ \E i \in DOMAIN queue' : queue'[i] \in {h, Desktop}
  <2>1. queue \in Seq(Nat)
    BY DEF Typing
  <2>2. CASE queue' = queue /\ h \in blind'
    BY <2>1, <2>2
  <2>3. CASE Observed /\ \E scope \in AnnouncedAs(h) :
               queue' = Append(queue, scope) /\ (scope \in {h, Desktop} \/ h \in blind')
    <3>0. PICK scope \in AnnouncedAs(h) :
             queue' = Append(queue, scope) /\ (scope \in {h, Desktop} \/ h \in blind')
      BY <2>3
    <3>1. scope \in Nat
      BY Announced DEF Typing
    <3>2. /\ queue' \in Seq(Nat) /\ Len(queue') = Len(queue) + 1
          /\ \A i \in DOMAIN queue : i \in DOMAIN queue' /\ queue'[i] = queue[i]
          /\ Len(queue) + 1 \in DOMAIN queue' /\ queue'[Len(queue) + 1] = scope
      BY <2>1, <3>0, <3>1
    <3> QED BY <2>1, <2>3, <3>0, <3>2 DEF Observed
  <2> QED BY <1>6, <2>2, <2>3
<1>8. Typing'
  <2>1. changes' \in 0 .. MaxChanges
    BY <1>2, BoundsAssumption DEF Typing
  <2> QED BY <1>2, <1>4, <1>5, <1>7, <2>1 DEF Typing
<1>9. Budget'
  <2>1. /\ snapshot'.rev + Len(queue') + (IF phase' = "refreshing" THEN 1 ELSE 0) <= changes' + 1
    <3>1. Len(queue) \in Nat /\ Len(queue') \in Nat /\ snapshot.rev \in Nat /\ changes \in Nat
      BY <1>7, BoundsAssumption DEF Typing
    <3> QED BY <1>2, <1>7, <3>1 DEF Budget
  <2> QED BY <1>2, <1>7, <2>1 DEF Budget, Opened
<1>10. Told'
  <2> SUFFICES ASSUME NEW g \in Handles, phase' \in {"captured", "waiting", "refreshing"}
               PROVE  g \in blind' \/ Awaited(g)' \/ Reflects(Current, g)'
    BY DEF Told
  <2>1. CASE g = h
    BY <1>7, <2>1 DEF Awaited
  <2>2. CASE g # h
    <3>1. g \in blind \/ Awaited(g) \/ Reflects(Current, g)
      BY <1>2 DEF Told
    <3>2. Awaited(g) => Awaited(g)'
      BY <1>2, <1>7 DEF Awaited
    <3>3. desktop'[g] = desktop[g] /\ Current' = Current
      BY <1>2, <1>4, <2>2 DEF Current
    <3> QED BY <1>5, <2>2, <3>1, <3>2, <3>3, StillReflects
  <2> QED BY <2>1, <2>2
<1> QED BY <1>8, <1>9, <1>10

LEMMA TakeBatchInv ==
    ASSUME ObserverInv, TakeBatch
    PROVE  ObserverInv'
<1> USE DEF ObserverInv
<1>1. PICK n \in 1 .. Len(queue) :
         /\ batch' = coalesce_refresh_requests(SubSeq(queue, 1, n))
         /\ queue' = SubSeq(queue, n + 1, Len(queue))
  BY DEF TakeBatch
<1>2. /\ phase = "waiting" /\ phase' = "refreshing" /\ next' = inventory
      /\ UNCHANGED <<desktopVars, faults, profile, inventory, snapshot, out, cache, gone, history>>
  BY DEF TakeBatch
<1> DEFINE taken == SubSeq(queue, 1, n)
<1>3. /\ queue \in Seq(Nat) /\ Len(queue) \in Nat /\ n \in Nat /\ n >= 1 /\ n <= Len(queue)
      /\ DOMAIN queue = 1 .. Len(queue)
  BY DEF Typing
<1>4. /\ taken \in Seq(Nat) /\ DOMAIN taken = 1 .. n /\ \A i \in 1 .. n : taken[i] = queue[i]
      /\ queue' \in Seq(Nat) /\ Len(queue') = Len(queue) - n /\ DOMAIN queue' = 1 .. Len(queue) - n
      /\ \A i \in 1 .. Len(queue) - n : queue'[i] = queue[i + n]
  <2>1. /\ \A i \in 1 .. n : queue[i] \in Nat
        /\ \A i \in n + 1 .. Len(queue) : queue[i] \in Nat
    BY <1>3
  <2>2. /\ taken \in Seq(Nat) /\ Len(taken) = n
        /\ \A i \in 1 .. n - 1 + 1 : taken[i] = queue[1 + i - 1]
    BY <1>3, <2>1, SubSeqProperties
  <2>3. /\ queue' \in Seq(Nat) /\ Len(queue') = Len(queue) - n
        /\ \A i \in 1 .. Len(queue) - (n + 1) + 1 : queue'[i] = queue[n + 1 + i - 1]
    <3>1. /\ queue' \in Seq(Nat)
          /\ Len(queue') = IF n + 1 <= Len(queue) THEN Len(queue) - (n + 1) + 1 ELSE 0
          /\ \A i \in 1 .. Len(queue) - (n + 1) + 1 : queue'[i] = queue[n + 1 + i - 1]
      <4>1. n + 1 \in Int /\ Len(queue) \in Int
        BY <1>3
      <4> QED BY ONLY <1>1, <2>1, <4>1, SubSeqProperties
    <3>2. CASE n = Len(queue)
      <4>1. ~(n + 1 <= Len(queue)) /\ Len(queue) - n = 0
        BY <1>3, <3>2
      <4> QED BY <3>1, <4>1
    <3>3. CASE n < Len(queue)
      <4>1. n + 1 <= Len(queue) /\ Len(queue) - (n + 1) + 1 = Len(queue) - n
        BY <1>3, <3>3
      <4> QED BY <3>1, <4>1
    <3> QED BY <1>3, <3>2, <3>3
  <2> HIDE DEF taken
  <2>4. DOMAIN taken = 1 .. n /\ \A i \in 1 .. n : taken[i] = queue[i]
    BY <1>3, <2>2
  <2>5. DOMAIN queue' = 1 .. Len(queue) - n /\ \A i \in 1 .. Len(queue) - n : queue'[i] = queue[i + n]
    <3>1. DOMAIN queue' = 1 .. Len(queue) - n
      BY <2>3
    <3>2. ASSUME NEW i \in 1 .. Len(queue) - n PROVE queue'[i] = queue[i + n]
      <4>1. i \in 1 .. Len(queue) - (n + 1) + 1 /\ n + 1 + i - 1 = i + n
        BY <1>3
      <4>2. queue'[i] = queue[n + 1 + i - 1]
        BY <2>3, <4>1
      <4> QED BY <4>1, <4>2
    <3> QED BY <3>1, <3>2
  <2> QED BY <2>2, <2>3, <2>4, <2>5
<1> HIDE DEF taken
<1>5. BatchOK(batch') /\ \A i \in DOMAIN taken : \E j \in DOMAIN batch' : batch'[j] \in {taken[i], Desktop}
  BY <1>1, <1>4, Coalesced DEF taken
<1>6. Typing'
  BY <1>2, <1>4, <1>5 DEF Typing, DesktopOK, desktopVars, history
<1>7. Budget'
  <2>1. snapshot.rev \in Nat /\ changes \in Nat
    BY BoundsAssumption DEF Typing
  <2>2. snapshot.rev + Len(queue) <= changes + 1 /\ Len(out) + 1 <= snapshot.rev
    <3>1. snapshot.rev + Len(queue) + 0 <= changes + 1 /\ Len(out) + 1 <= snapshot.rev
      BY <1>2 DEF Budget, Opened
    <3> QED BY <1>3, <2>1, <3>1
  <2>3. snapshot'.rev + Len(queue') + 1 <= changes' + 1
    <3>1. snapshot'.rev = snapshot.rev /\ changes' = changes
      BY <1>2 DEF desktopVars
    <3>2. Len(queue') = Len(queue) - n
      BY <1>4
    <3>3. n \in Nat /\ 1 <= n /\ Len(queue) \in Nat
      BY <1>3
    <3>4. Len(queue') + 1 <= Len(queue)
      BY <3>2, <3>3
    <3> QED BY <2>1, <2>2, <3>1, <3>2, <3>3, <3>4
  <2> QED BY <1>2, <2>2, <2>3 DEF Budget, Opened
<1>8. Told'
  <2> SUFFICES ASSUME NEW h \in Handles PROVE h \in blind' \/ Awaited(h)' \/ Reflects(Current, h)'
    BY DEF Told
  <2>1. h \in blind \/ Awaited(h) \/ Reflects(Current, h)
    BY <1>2 DEF Told
  <2>2. ASSUME Awaited(h) PROVE Awaited(h)'
    <3>1. PICK i \in DOMAIN queue : queue[i] \in {h, Desktop}
      BY <1>2, <2>2 DEF Awaited, Typing
    <3>2. CASE i <= n
      <4>1. i \in DOMAIN taken /\ taken[i] = queue[i]
        BY <1>3, <1>4, <3>2
      <4>2. \E j \in DOMAIN batch' : batch'[j] \in {h, Desktop}
        BY <1>5, <3>1, <4>1
      <4> QED BY <4>2 DEF Awaited
    <3>3. CASE ~(i <= n)
      <4>0. i \in Int
        BY <1>3
      <4>1. i - n \in 1 .. Len(queue) - n /\ (i - n) + n = i
        BY <1>3, <3>3, <4>0
      <4>2. i - n \in DOMAIN queue' /\ queue'[i - n] = queue[i]
        BY <1>4, <4>1
      <4> QED BY <3>1, <4>2 DEF Awaited
    <3> QED BY <3>2, <3>3
  <2>3. Current' = Current /\ desktop' = desktop /\ blind' = blind
    BY <1>2 DEF Current, desktopVars, history
  <2> QED BY <2>1, <2>2, <2>3, StillReflects
<1> QED BY <1>6, <1>7, <1>8

\* A step of the batch that did not refresh: what it was for is blind.
LEMMA RefreshFailsInv ==
    ASSUME ObserverInv, phase = "refreshing", batch # << >>, batch' = Tail(batch),
           RefreshFails(Head(batch)), faults' \in 0 .. MaxFaults,
           UNCHANGED <<desktopVars, profile, queue, inventory, snapshot, out, cache, gone, ambiguous>>
    PROVE  ObserverInv'
<1> USE DEF ObserverInv
<1>1. /\ phase' \in {"refreshing", "stopped"}
      /\ blind' = blind \cup (Touched(Head(batch)) \cap Handles) /\ next' = next
  BY DEF RefreshFails
<1>2. /\ BatchOK(batch') /\ Head(batch) = batch[1]
      /\ \A i \in DOMAIN batch : i # 1 => i - 1 \in DOMAIN batch' /\ batch'[i - 1] = batch[i]
  BY BatchTail DEF Typing
<1>3. Typing'
  BY <1>1, <1>2 DEF Typing, DesktopOK, desktopVars
<1>4. Budget'
  <2>1. snapshot.rev \in Nat /\ changes \in Nat /\ Len(queue) \in Nat
    BY BoundsAssumption DEF Typing
  <2>2. snapshot.rev + Len(queue) + 1 <= changes + 1 /\ Len(out) + 1 <= snapshot.rev
    BY DEF Budget, Opened
  <2>3. snapshot'.rev + Len(queue') + (IF phase' = "refreshing" THEN 1 ELSE 0) <= changes' + 1
    BY <2>1, <2>2 DEF desktopVars
  <2> QED BY <1>1, <2>2, <2>3 DEF Budget, Opened
<1>5. Told'
  <2> SUFFICES ASSUME NEW h \in Handles, phase' = "refreshing"
               PROVE  h \in blind' \/ Awaited(h)' \/ Reflects(Current, h)'
    BY <1>1 DEF Told
  <2>1. h \in blind \/ Awaited(h) \/ Reflects(Current, h)
    BY DEF Told
  <2>2. ASSUME Awaited(h) PROVE h \in blind' \/ Awaited(h)'
    <3>1. CASE \E i \in DOMAIN queue : queue[i] \in {h, Desktop}
      BY <3>1 DEF Awaited
    <3>2. CASE batch[1] \in {h, Desktop}
      <4>1. h \in Touched(batch[1])
        BY <3>2 DEF Touched
      <4> QED BY <1>1, <1>2, <4>1
    <3>3. ASSUME NEW i \in DOMAIN batch, i # 1, batch[i] \in {h, Desktop} PROVE Awaited(h)'
      BY <1>2, <3>3 DEF Awaited
    <3> QED BY <2>2, <3>1, <3>2, <3>3 DEF Awaited
  <2>3. Current' = Current /\ desktop' = desktop
    BY <1>1 DEF Current, desktopVars
  <2> QED BY <1>1, <2>1, <2>2, <2>3, StillReflects
<1> QED BY <1>3, <1>4, <1>5

\* A refresh tells what is there, of the windows it was for.
LEMMA RefreshedInv ==
    ASSUME ObserverInv, phase = "refreshing", batch # << >>, batch' = Tail(batch),
           NEW windows, InventoryOK(windows), Refreshed(Head(batch), windows), faults' \in 0 .. MaxFaults,
           \A h \in Handles : \/ Reflects(windows, h)
                              \/ h \notin Touched(Head(batch)) /\ Showing(windows, h) = Showing(next, h),
           UNCHANGED <<desktopVars, profile, queue, inventory, snapshot, out, cache, gone, ambiguous>>
    PROVE  ObserverInv'
<1> USE DEF ObserverInv
<1>1. phase' = "refreshing" /\ blind' = blind \ Touched(Head(batch)) /\ next' = windows
  BY DEF Refreshed
<1>2. /\ BatchOK(batch') /\ Head(batch) = batch[1]
      /\ \A i \in DOMAIN batch : i # 1 => i - 1 \in DOMAIN batch' /\ batch'[i - 1] = batch[i]
  BY BatchTail DEF Typing
<1>3. Typing'
  BY <1>1, <1>2 DEF Typing, DesktopOK, desktopVars
<1>4. Budget'
  BY <1>1 DEF Budget, Opened, desktopVars
<1>5. Told'
  <2> SUFFICES ASSUME NEW h \in Handles
               PROVE  h \in blind' \/ Awaited(h)' \/ Reflects(Current, h)'
    BY <1>1 DEF Told
  <2>0. Current' = windows /\ desktop' = desktop /\ Current = next
    BY <1>1 DEF Current, desktopVars
  <2>1. CASE Reflects(windows, h)
    BY <2>0, <2>1 DEF Reflects
  <2>2. CASE h \notin Touched(Head(batch)) /\ Showing(windows, h) = Showing(next, h)
    <3>1. h \in blind \/ Awaited(h) \/ Reflects(Current, h)
      BY DEF Told
    <3>2. batch[1] \notin {h, Desktop}
      BY <1>2, <2>2 DEF Touched
    <3>3. Awaited(h) => Awaited(h)'
      BY <1>2, <3>2 DEF Awaited
    <3>4. Reflects(Current, h) => Reflects(Current, h)'
      BY <2>0, <2>2 DEF Reflects
    <3> QED BY <1>1, <2>2, <3>1, <3>3, <3>4
  <2> QED BY <2>1, <2>2
<1> QED BY <1>3, <1>4, <1>5

LEMMA ApplyRefreshInv ==
    ASSUME ObserverInv, ApplyRefresh
    PROVE  ObserverInv'
<1> DEFINE scope == Head(batch)
           hwnds == IF scope = Desktop THEN OpenHandles
                    ELSE IF OpenAt(scope) = None THEN {} ELSE {scope}
           result(how) == IF scope = Desktop THEN RefreshDesktop(next, how)
                          ELSE RefreshWindow(next, scope, how)
<1>1. /\ phase = "refreshing" /\ batch # << >> /\ batch' = Tail(batch)
      /\ UNCHANGED <<desktopVars, profile, queue, inventory, snapshot, out, cache, gone, ambiguous>>
  BY DEF ApplyRefresh
<1>2. PICK how \in Outcomes(hwnds) :
         /\ CountFaults(how)
         /\ \/ result(how) = {} /\ RefreshFails(scope)
            \/ \E windows \in result(how) : Refreshed(scope, windows)
  BY DEF ApplyRefresh
<1>3. IsFiniteSet(hwnds)
  BY OpenHandlesFinite, FS_EmptySet, FS_Singleton
<1>4. faults' \in 0 .. MaxFaults /\ how \in [hwnds -> {"Uia", "Msaa", "Err"}]
  <2> HIDE DEF hwnds
  <2> QED BY <1>2, <1>3, FaultsCounted DEF ObserverInv, Typing
<1>5. DesktopOK /\ InventoryOK(next)
  BY DEF ObserverInv, Typing
<1>6. CASE RefreshFails(scope)
  BY <1>1, <1>4, <1>6, RefreshFailsInv
<1>7. ASSUME NEW windows \in result(how), Refreshed(scope, windows)
      PROVE  ObserverInv'
  <2>1. /\ InventoryOK(windows)
        /\ \A h \in Handles : \/ Reflects(windows, h)
                              \/ h \notin Touched(scope) /\ Showing(windows, h) = Showing(next, h)
    <3>1. CASE scope = Desktop
      <4>1. how \in [OpenHandles -> {"Uia", "Msaa", "Err"}] /\ windows \in RefreshDesktop(next, how)
        BY <1>4, <1>7, <3>1
      <4> QED BY <1>5, <4>1, DesktopRefreshed
    <3>2. CASE scope # Desktop
      <4> HIDE DEF scope
      <4>1. OpenAt(scope) # None => how[scope] \in {"Uia", "Msaa", "Err"}
        BY <1>4, <3>2
      <4>2. windows \in RefreshWindow(next, scope, how)
        BY <1>7, <3>2
      <4>3. /\ InventoryOK(windows) /\ Captures(windows, scope)
            /\ \A h : h # scope => Showing(windows, h) = Showing(next, h)
        BY <1>5, <4>1, <4>2, WindowRefreshed
      <4>4. ASSUME NEW h \in Handles, h = scope PROVE Reflects(windows, h)
        <5>1. OpenAt(scope) = desktop[h]
          BY <4>4 DEF OpenAt
        <5> QED BY <4>3, <4>4, <5>1 DEF Captures, Reflects
      <4>5. Touched(scope) = {scope}
        BY <3>2 DEF Touched
      <4> QED BY <4>3, <4>4, <4>5
    <3> QED BY <3>1, <3>2
  <2> QED BY <1>1, <1>4, <1>7, <2>1, RefreshedInv
<1> HIDE DEF result
<1> QED BY <1>2, <1>6, <1>7

LEMMA CommitBatchInv ==
    ASSUME ObserverInv, CommitBatch
    PROVE  ObserverInv'
<1> USE DEF ObserverInv
<1>1. /\ phase = "refreshing" /\ batch = << >> /\ inventory' = next
      /\ UNCHANGED <<desktopVars, faults, profile, queue, batch, next, cache, gone, blind>>
  BY DEF CommitBatch
<1>2. phase' \in {"waiting", "stopped"}
  BY DEF CommitBatch, NothingToTell, SendDiff
<1>3. \/ snapshot' = snapshot /\ out' = out
      \/ /\ snapshot'.rev = snapshot.rev + 1
         /\ out' = out \/ \E ops : out' = Append(out, [base |-> snapshot.rev, new |-> snapshot.rev + 1, ops |-> ops])
  <2>1. CASE NothingToTell
    BY <2>1 DEF NothingToTell
  <2>2. CASE SendDiff
    <3> DEFINE windows == snapshot_from_inventory(next)
               ops     == diff_snapshots(snapshot.windows, windows)
    <3>1. /\ snapshot' = [rev |-> snapshot.rev + 1, windows |-> windows]
          /\ out' = out \/ out' = Append(out, [base |-> snapshot.rev, new |-> snapshot.rev + 1, ops |-> ops])
      BY <2>2 DEF SendDiff
    <3> HIDE DEF ops, windows
    <3>2. snapshot'.rev = snapshot.rev + 1
      BY <3>1
    <3> QED BY <3>1, <3>2
  <2> QED BY <2>1, <2>2 DEF CommitBatch
<1>4. snapshot.rev \in Nat /\ changes \in Nat /\ Len(queue) \in Nat /\ cache.rev \in Nat /\ cache.rev <= snapshot.rev
  BY BoundsAssumption DEF Typing
<1>5. snapshot.rev + Len(queue) + 1 <= changes + 1 /\ Len(out) + 1 <= snapshot.rev
  BY <1>1 DEF Budget, Opened
<1>6. /\ snapshot'.rev \in Nat /\ cache'.rev \in Nat /\ cache'.rev <= snapshot'.rev
      /\ snapshot'.rev + Len(queue') <= changes' + 1
      /\ IsSequence(out') /\ Len(out') + 1 <= snapshot'.rev
      /\ \A i \in DOMAIN out' : out'[i].new \in Nat /\ out'[i].new <= snapshot'.rev
  <2>1. changes' = changes /\ queue' = queue /\ cache' = cache
    BY <1>1 DEF desktopVars
  <2>2. IsSequence(out) /\ \A i \in DOMAIN out : out[i].new \in Nat /\ out[i].new <= snapshot.rev
    BY DEF Typing
  <2>3. Len(out) \in Nat
    BY <2>2 DEF IsSequence
  <2>4. CASE snapshot' = snapshot /\ out' = out
    BY <1>4, <1>5, <2>1, <2>2, <2>4
  <2>5. CASE snapshot'.rev = snapshot.rev + 1 /\ out' = out
    <3>1. \A i \in DOMAIN out' : out'[i].new \in Nat /\ out'[i].new <= snapshot'.rev
      BY <1>4, <2>2, <2>5
    <3> QED BY <1>4, <1>5, <2>1, <2>2, <2>3, <2>5, <3>1
  <2>6. CASE /\ snapshot'.rev = snapshot.rev + 1
             /\ \E ops : out' = Append(out, [base |-> snapshot.rev, new |-> snapshot.rev + 1, ops |-> ops])
    <3>0. PICK ops : out' = Append(out, [base |-> snapshot.rev, new |-> snapshot.rev + 1, ops |-> ops])
      BY <2>6
    <3> DEFINE diff == [base |-> snapshot.rev, new |-> snapshot.rev + 1, ops |-> ops]
    <3>1. diff.new = snapshot.rev + 1
      OBVIOUS
    <3> HIDE DEF diff
    <3>2. /\ IsSequence(out') /\ Len(out') = Len(out) + 1
          /\ \A i \in DOMAIN out' : (i \in DOMAIN out /\ out'[i] = out[i]) \/ out'[i] = diff
      <4>1. out' = Append(out, diff)
        BY <3>0 DEF diff
      <4> QED BY <2>2, <4>1, SequenceAppended
    <3>3. \A i \in DOMAIN out' : out'[i].new \in Nat /\ out'[i].new <= snapshot'.rev
      <4> SUFFICES ASSUME NEW i \in DOMAIN out' PROVE out'[i].new \in Nat /\ out'[i].new <= snapshot'.rev
        OBVIOUS
      <4>1. CASE i \in DOMAIN out /\ out'[i] = out[i]
        BY <1>4, <2>2, <2>6, <4>1
      <4>2. CASE out'[i] = diff
        BY <1>4, <2>6, <3>1, <4>2
      <4> QED BY <3>2, <4>1, <4>2
    <3>4. snapshot'.rev \in Nat /\ cache'.rev \in Nat /\ cache'.rev <= snapshot'.rev
      BY <1>4, <2>1, <2>6
    <3>5. snapshot'.rev + Len(queue') <= changes' + 1
      BY <1>4, <1>5, <2>1, <2>6
    <3>6. Len(out') + 1 <= snapshot'.rev
      BY <1>4, <1>5, <2>3, <2>6, <3>2
    <3> QED BY <3>2, <3>3, <3>4, <3>5, <3>6
  <2> QED BY <1>3, <2>4, <2>5, <2>6
<1>7. Typing'
  BY <1>1, <1>2, <1>6 DEF Typing, DesktopOK, desktopVars
<1>8. Budget'
  <2>1. snapshot'.rev + Len(queue') + 0 <= changes' + 1
    BY <1>1, <1>4, <1>6 DEF desktopVars
  <2> QED BY <1>2, <1>6, <2>1 DEF Budget, Opened
<1>9. Told'
  <2> SUFFICES ASSUME NEW h \in Handles, phase' = "waiting"
               PROVE  h \in blind' \/ Awaited(h)' \/ Reflects(Current, h)'
    BY <1>2 DEF Told
  <2>1. h \in blind \/ Awaited(h) \/ Reflects(Current, h)
    BY <1>1 DEF Told
  <2>2. Current' = Current /\ desktop' = desktop
    BY <1>1 DEF Current, desktopVars
  <2>3. Awaited(h) => Awaited(h)'
    BY <1>1 DEF Awaited
  <2> QED BY <1>1, <2>1, <2>2, <2>3, StillReflects
<1> QED BY <1>7, <1>8, <1>9

LEMMA DaemonAppliesInv ==
    ASSUME ObserverInv, DaemonApplies
    PROVE  ObserverInv'
<1> USE DEF ObserverInv
<1>1. /\ out # << >> /\ out' = Tail(out) /\ cache' = Store!apply_diff(cache, Head(out)).store
      /\ UNCHANGED <<desktopVars, faults, profile, phase, queue, batch, inventory, next, snapshot,
                     gone, history>>
  BY DEF DaemonApplies
<1>2. /\ IsSequence(out') /\ Len(out') = Len(out) - 1 /\ Len(out) \in Nat \ {0}
      /\ \A i \in DOMAIN out' : i + 1 \in DOMAIN out /\ out'[i] = out[i + 1]
      /\ 1 \in DOMAIN out /\ Head(out) = out[1]
  BY <1>1, SequenceTail DEF Typing
<1>3. cache'.rev \in {cache.rev, Head(out).new} /\ DOMAIN cache' = {"snapshot", "rev", "resync"}
  <2> DEFINE diff == Head(out)
  <2>1. cache' = Store!apply_diff(cache, diff).store
    BY <1>1
  <2>2. DOMAIN cache = {"snapshot", "rev", "resync"}
    BY DEF Typing
  <2> HIDE DEF diff
  <2>3. cache'.rev \in {cache.rev, diff.new} /\ DOMAIN cache' = {"snapshot", "rev", "resync"}
    <3> DEFINE run    == ApplyDiffOps(cache.snapshot, diff.ops)
               marked == cache.resync \/ HasSnapshotResync(diff.ops)
               result == Store!apply_diff(cache, diff)
               rev    == IF run.ok THEN diff.new ELSE cache.rev
    <3>1. \/ result = [ok |-> FALSE, store |-> cache]
          \/ result = [ok |-> FALSE, store |-> [cache EXCEPT !.resync = TRUE]]
          \/ result = [ok |-> run.ok, store |-> [snapshot |-> run.content, rev |-> rev, resync |-> marked]]
      BY Zenon DEF Store!apply_diff, Store!mark_resync_required
    <3>2. rev \in {cache.rev, diff.new}
      OBVIOUS
    <3>3. cache' = result.store
      BY <2>1
    <3> HIDE DEF run, marked, result, rev
    <3>4. CASE result = [ok |-> FALSE, store |-> cache]
      <4>1. cache' = cache
        BY <3>3, <3>4
      <4> QED BY <2>2, <4>1
    <3>5. CASE result = [ok |-> FALSE, store |-> [cache EXCEPT !.resync = TRUE]]
      <4>1. cache' = [cache EXCEPT !.resync = TRUE]
        BY <3>3, <3>5
      <4> QED BY <2>2, <4>1
    <3>6. CASE result = [ok |-> run.ok, store |-> [snapshot |-> run.content, rev |-> rev, resync |-> marked]]
      <4>1. cache' = [snapshot |-> run.content, rev |-> rev, resync |-> marked]
        BY <3>3, <3>6
      <4> QED BY <3>2, <4>1
    <3> QED BY <3>1, <3>4, <3>5, <3>6
  <2> QED BY <2>3 DEF diff
<1>4. cache'.rev \in Nat /\ cache'.rev <= snapshot'.rev
  BY <1>1, <1>2, <1>3 DEF Typing
<1>5. \A i \in DOMAIN out' : out'[i].new \in Nat /\ out'[i].new <= snapshot'.rev
  BY <1>1, <1>2 DEF Typing
<1>6. Typing'
  BY <1>1, <1>2, <1>3, <1>4, <1>5 DEF Typing, DesktopOK, desktopVars, history
<1>7. Budget'
  <2>1. Opened
    BY <1>1 DEF Budget
  <2>2. Len(out') + 1 <= snapshot'.rev
    BY <1>1, <1>2, <2>1 DEF Budget, Typing
  <2> QED BY <1>1, <2>1, <2>2 DEF Budget, Opened, desktopVars
<1>8. Told'
  <2>1. UNCHANGED <<desktop, phase, blind, queue, batch, next, inventory>> /\ Current' = Current
    BY <1>1 DEF desktopVars, history, Current
  <2> QED BY <2>1, StillReflects DEF Told, Awaited
<1> QED BY <1>6, <1>7, <1>8

\* What no step of this invariant depends on may change.
LEMMA OthersInv ==
    ASSUME ObserverInv, gone' \in BOOLEAN,
           UNCHANGED <<desktopVars, faults, profile, phase, queue, batch, inventory, next, snapshot,
                       out, cache, history>>
    PROVE  ObserverInv'
<1> USE DEF ObserverInv
<1>1. Typing'
  BY DEF Typing, DesktopOK, desktopVars, history
<1>2. Budget'
  BY DEF Budget, Opened, desktopVars
<1>3. Told'
  <2>1. UNCHANGED <<desktop, phase, blind, queue, batch, next, inventory>> /\ Current' = Current
    BY DEF desktopVars, history, Current
  <2> QED BY <2>1, StillReflects DEF Told, Awaited
<1> QED BY <1>1, <1>2, <1>3

LEMMA NextInv ==
    ASSUME ObserverInv, [Next]_vars
    PROVE  ObserverInv'
<1>1. CASE DaemonLeaves
  BY <1>1, OthersInv DEF DaemonLeaves
<1>2. CASE UNCHANGED vars
  <2>1. /\ gone' = gone
        /\ UNCHANGED <<desktopVars, faults, profile, phase, queue, batch, inventory, next, snapshot,
                       out, cache, history>>
    BY <1>2 DEF vars, desktopVars, history
  <2>2. gone' \in BOOLEAN
    BY <2>1 DEF ObserverInv, Typing
  <2> QED BY <2>1, <2>2, OthersInv
<1> QED BY <1>1, <1>2, CaptureInitialInv, SubscribeInv, ChangeInv, TakeBatchInv, ApplyRefreshInv,
           CommitBatchInv, DaemonAppliesInv DEF Next, ObserverNext

THEOREM ObserverInvariant == Spec => []ObserverInv
BY InitInv, NextInv, PTL DEF Spec

\* What a session is shown of an inventory.
LEMMA SnapshotIsView ==
    ASSUME NEW windows, InventoryOK(windows), profile \in Profiles
    PROVE  ViewOK(snapshot_from_inventory(windows))
<1> DEFINE V == {i \in DOMAIN windows : Visible(profile, windows[i])}
           shown == Ascending(V)
           P == project_windows(windows)
<1>1. windows \in Seq(Windows) /\ Len(windows) \in Nat /\ DOMAIN windows = 1 .. Len(windows)
  BY DEF InventoryOK
<1>2. IsFiniteSet(V) /\ V \subseteq Nat
  <2>1. IsFiniteSet(DOMAIN windows)
    BY <1>1, FS_Interval
  <2>2. V \in SUBSET (DOMAIN windows)
    OBVIOUS
  <2>3. V \subseteq Nat
    BY <1>1
  <2> HIDE DEF V
  <2> QED BY <2>1, <2>2, <2>3, FS_Subset
<1>3. /\ shown \in Seq(V) /\ Increasing(shown) /\ Len(shown) \in Nat /\ DOMAIN shown = 1 .. Len(shown)
      /\ \A i \in DOMAIN shown : shown[i] \in DOMAIN windows /\ i \in Int /\ shown[i] \in Nat
  <2>1. shown \in Seq(V) /\ Increasing(shown)
    <3> HIDE DEF V
    <3> QED BY <1>2, AscendingProperties
  <2>2. V \subseteq DOMAIN windows /\ V \subseteq Nat
    BY <1>2
  <2> HIDE DEF shown, V
  <2>3. Len(shown) \in Nat /\ DOMAIN shown = 1 .. Len(shown) /\ \A i \in DOMAIN shown : shown[i] \in V
    BY <2>1
  <2> QED BY <2>1, <2>2, <2>3
<1>4. P = [i \in DOMAIN shown |-> Annotated(profile, windows[shown[i]])]
  BY Zenon DEF project_windows
<1> HIDE DEF V, shown, P
<1>5. /\ DOMAIN P = 1 .. Len(shown)
      /\ \A i \in DOMAIN P : P[i] \in Views /\ P[i].id \in Nat /\ P[i].id = windows[shown[i]].id
  <2>1. DOMAIN P = DOMAIN shown
    BY <1>4
  <2>2. ASSUME NEW i \in DOMAIN shown
        PROVE  P[i] \in Views /\ P[i].id \in Nat /\ P[i].id = windows[shown[i]].id
    <3>1. windows[shown[i]] \in Windows
      BY <1>1, <1>3
    <3>2. P[i] = Annotated(profile, windows[shown[i]])
      BY <1>4
    <3>3. P[i] \in Views
      BY <3>1, <3>2 DEF Views
    <3> QED BY <3>1, <3>2, <3>3, WindowsAssumption
  <2> QED BY <1>3, <2>1, <2>2
<1>6. ASSUME NEW i \in DOMAIN P, NEW j \in DOMAIN P, P[i].id = P[j].id
      PROVE  i = j
  <2>1. /\ i \in DOMAIN shown /\ j \in DOMAIN shown
        /\ windows[shown[i]] \in Windows /\ windows[shown[j]] \in Windows
        /\ windows[shown[i]].id = windows[shown[j]].id
    BY <1>1, <1>3, <1>5, <1>6
  <2>2. window_native_handle(windows[shown[i]]) = window_native_handle(windows[shown[j]])
    BY <2>1, WindowsAssumption
  <2>3. shown[i] = shown[j]
    BY <1>3, <2>1, <2>2 DEF InventoryOK, window_matches_hwnd
  <2>4. ~(i < j) /\ ~(j < i)
    BY <1>3, <2>1, <2>3 DEF Increasing
  <2> QED BY <1>3, <2>1, <2>4
<1> DEFINE S == IdsIn(P)
           q == Ascending(S)
           n == Len(q)
<1>7. IsFiniteSet(S) /\ S \subseteq Nat
  <2> DEFINE f == [i \in 1 .. Len(shown) |-> P[i].id]
  <2>1. f \in Surjection(1 .. Len(shown), S)
    BY <1>5 DEF Surjection, IdsIn
  <2>2. IsFiniteSet(1 .. Len(shown))
    BY <1>3, FS_Interval
  <2>3. S \subseteq Nat
    BY <1>5 DEF IdsIn
  <2> HIDE DEF f, S
  <2> QED BY <2>1, <2>2, <2>3, FS_Surjection
<1>8. IdsInOrder(P, q, n)
  <2>1. /\ q \in Seq(S) /\ Increasing(q)
        /\ \A x \in S : \E i \in DOMAIN q : q[i] = x
    <3> HIDE DEF S
    <3> QED BY <1>7, AscendingProperties
  <2>2. P = [i \in 1 .. Len(shown) |-> P[i]] /\ Len(P) = Len(shown)
    <3>1. P = [i \in 1 .. Len(shown) |-> Annotated(profile, windows[shown[i]])]
      BY <1>3, <1>4
    <3>2. Len(P) = Len(shown)
      BY <1>3, <3>1
    <3> QED BY <3>1, <3>2
  <2> HIDE DEF q, n
  <2>3. n \in Nat /\ DOMAIN q = 1 .. n /\ \A i \in 1 .. n : q[i] \in S
    BY <2>1 DEF n
  <2> HIDE DEF S
  <2>4. \A i \in 1 .. n : q[i] \in Nat
    BY <1>7, <2>3
  <2>5. \A i, j \in 1 .. n : i < j => q[i] < q[j]
    BY <2>1, <2>3 DEF Increasing
  <2> QED BY <1>3, <1>5, <1>6, <2>1, <2>2, <2>3, <2>4, <2>5 DEF IdsInOrder, S
<1> DEFINE sorted == sort_windows(P)
<1> HIDE DEF q, n, S
<1>9. /\ DOMAIN sorted = 1 .. n /\ Len(P) = n
      /\ \A k \in 1 .. n : \E j \in DOMAIN P : sorted[k] = P[j] /\ P[j].id = q[k]
  BY <1>8, SortedWindows
<1>10. n \in Nat /\ DOMAIN P = 1 .. n /\ \A i, j \in 1 .. n : i < j => q[i] < q[j]
  BY <1>8, <1>9 DEF IdsInOrder
<1>11. \A k \in 1 .. n : sorted[k] \in Views /\ sorted[k].id = q[k]
  <2> HIDE DEF sorted
  <2> QED BY <1>5, <1>9
<1>12. sorted \in Seq(Views)
  <2>1. sorted = [k \in 1 .. n |-> sorted[k]]
    <3>1. sorted = [k \in DOMAIN P |->
              P[CHOOSE j \in DOMAIN P :
                      Cardinality({i \in DOMAIN P :
                          \/ P[i].id < P[j].id
                          \/ P[i].id = P[j].id /\ i < j}) + 1 = k]]
      BY Zenon DEF sort_windows
    <3> QED BY <1>10, <3>1
  <2> HIDE DEF sorted
  <2>2. sorted \in [1 .. n -> Views]
    BY <1>11, <2>1
  <2> QED BY <1>10, <2>2
<1>13. \A i, j \in DOMAIN sorted : i < j => sorted[i].id < sorted[j].id
  <2> HIDE DEF sorted, P
  <2>1. SUFFICES ASSUME NEW i \in 1 .. n, NEW j \in 1 .. n, i < j
                 PROVE  sorted[i].id < sorted[j].id
    BY <1>9
  <2>2. q[i] < q[j]
    BY <1>10, <2>1
  <2>3. sorted[i].id = q[i] /\ sorted[j].id = q[j]
    BY <1>11
  <2> QED BY <2>2, <2>3
<1>14. snapshot_from_inventory(windows) = sorted
  BY DEF snapshot_from_inventory, P
<1> HIDE DEF sorted
<1> QED BY <1>12, <1>13, <1>14 DEF ViewOK

-----------------------------------------------------------------------------
(* The daemon follows.                                                     *)

\* What the daemon has been told and not yet applied: after what its cache shows,
\* one snapshot for each diff under way, the last of them the observer's own.
Behind(told) ==
    /\ \A i \in 1 .. Len(out) + 1 : ViewOK(told[i])
    /\ told[Len(out) + 1] = snapshot.windows
    /\ snapshot.rev = cache.rev + Len(out)
    /\ \A i \in 1 .. Len(out) :
          /\ out[i].base = cache.rev + i - 1 /\ out[i].new = cache.rev + i
          /\ out[i].ops = diff_snapshots(told[i], told[i + 1])
          /\ ~ambiguous => ~Ambiguous(told[i + 1])
    /\ Shows(~ambiguous, cache.snapshot, told[1])

Following ==
    /\ phase \in {"opening", "captured", "failed"} => out = << >>
    /\ phase = "captured" => ViewOK(snapshot.windows)
    /\ phase \in {"waiting", "refreshing", "unobserved", "stopped"} /\ ~gone =>
          \E told : Behind(told)

\* The next diff applies to the cache and leaves it showing the next snapshot.
LEMMA NextDiffApplies ==
    ASSUME ObserverInv, NEW told, Behind(told), out # << >>
    PROVE  LET done == Store!apply_diff(cache, Head(out))
           IN  /\ done.ok /\ done.store.rev = cache.rev + 1
               /\ Shows(~ambiguous, done.store.snapshot, told[2])
<1> DEFINE diff == Head(out)
           run == ApplyDiffOps(cache.snapshot, diff.ops)
           marked == cache.resync \/ HasSnapshotResync(diff.ops)
           done == Store!apply_diff(cache, diff)
<1>1. Len(out) \in Nat /\ Len(out) >= 1 /\ diff = out[1] /\ cache.rev \in Nat
  <2>1. Len(out) \in Nat \ {0} /\ Head(out) = out[1]
    BY SequenceTail DEF ObserverInv, Typing
  <2> QED BY <2>1 DEF ObserverInv, Typing
<1>2. 1 \in 1 .. Len(out) /\ 1 \in 1 .. Len(out) + 1 /\ 2 \in 1 .. Len(out) + 1
  BY <1>1
<1>3. /\ ViewOK(told[1]) /\ ViewOK(told[2])
      /\ out[1].base = cache.rev + 1 - 1 /\ out[1].new = cache.rev + 1
      /\ out[1].ops = diff_snapshots(told[1], told[1 + 1])
      /\ ~ambiguous => ~Ambiguous(told[1 + 1])
      /\ Shows(~ambiguous, cache.snapshot, told[1])
  BY <1>2 DEF Behind
<1>4. diff.base = cache.rev /\ diff.new = cache.rev + 1 /\ diff.ops = diff_snapshots(told[1], told[2])
  BY <1>1, <1>3
<1> HIDE DEF diff
<1>5. cache.snapshot # NoSnapshot
  BY <1>3, NoSnapshotAssumption DEF Shows, Held
<1>6. ~ambiguous => \A i \in DOMAIN told[2] : ~HasAmbiguity(told[2][i])
  BY <1>3 DEF Ambiguous
<1>7. run.ok /\ Shows(~ambiguous, run.content, told[2])
  <2>1. ApplyDiffOps(cache.snapshot, diff.ops) = ApplyDiffOps(cache.snapshot, diff_snapshots(told[1], told[2]))
    BY <1>4
  <2> QED BY <1>3, <1>6, <2>1, DiffApplies
<1> HIDE DEF run, marked
<1>8. done = [ok |-> run.ok, store |-> [snapshot |-> run.content,
                                        rev |-> IF run.ok THEN diff.new ELSE cache.rev,
                                        resync |-> marked]]
  <2>1. ~(diff.base # cache.rev \/ diff.new <= diff.base)
    BY <1>1, <1>4
  <2> QED BY <1>5, <2>1, Zenon DEF Store!apply_diff, run, marked
<1> HIDE DEF done
<1>9. done.ok = run.ok /\ done.store.rev = diff.new /\ done.store.snapshot = run.content
  BY <1>7, <1>8
<1>10. done.ok /\ done.store.rev = cache.rev + 1 /\ Shows(~ambiguous, done.store.snapshot, told[2])
  BY <1>4, <1>7, <1>9
<1> QED BY <1>10 DEF done, diff

\* Steps that neither send nor apply a diff.
LEMMA QuietFollowing ==
    ASSUME Following, UNCHANGED <<snapshot, out, cache, ambiguous>>, gone' = gone \/ gone',
           \/ phase' = phase
           \/ /\ phase \in {"waiting", "refreshing", "unobserved", "stopped"}
              /\ phase' \in {"waiting", "refreshing", "unobserved", "stopped"}
    PROVE  Following'
<1>1. ASSUME NEW told, Behind(told) PROVE Behind(told)'
  BY <1>1 DEF Behind, Ambiguous
<1>2. (\E told : Behind(told)) => (\E told : Behind(told))'
  BY <1>1
<1> HIDE DEF Behind
<1> QED BY <1>2 DEF Following

LEMMA InitFollowing == Init => Following
BY DEF Init, Following

LEMMA CaptureFollowing ==
    ASSUME ObserverInv, Following, CaptureInitial
    PROVE  Following'
<1>1. out' = out /\ out = << >> /\ phase = "opening" /\ profile' = profile /\ profile \in Profiles
  BY DEF CaptureInitial, Following, ObserverInv, Typing
<1>2. CASE phase' = "failed"
  BY <1>1, <1>2 DEF Following
<1>3. CASE phase' # "failed"
  <2>1. PICK how \in Outcomes(OpenHandles) :
          /\ CountFaults(how)
          /\ \E windows \in capture_desktop(how) :
                /\ snapshot' = [rev |-> 1, windows |-> snapshot_from_inventory(windows)]
                /\ phase' = "captured"
    BY <1>3 DEF CaptureInitial
  <2>2. PICK windows \in capture_desktop(how) :
          /\ snapshot' = [rev |-> 1, windows |-> snapshot_from_inventory(windows)]
          /\ phase' = "captured"
    BY <2>1
  <2>3. InventoryOK(windows)
    <3>1. how \in [OpenHandles -> {"Uia", "Msaa", "Err"}]
      BY DEF Outcomes
    <3> QED BY <3>1, DesktopCaptured DEF ObserverInv, Typing
  <2>4. ViewOK(snapshot_from_inventory(windows))
    BY <1>1, <2>3, SnapshotIsView
  <2>5. snapshot'.windows = snapshot_from_inventory(windows)
    BY <2>2
  <2>6. ViewOK(snapshot'.windows)
    BY <2>4, <2>5
  <2> QED BY <1>1, <2>2, <2>6 DEF Following, ViewOK
<1> QED BY <1>2, <1>3

LEMMA SubscribeFollowing ==
    ASSUME ObserverInv, Following, Subscribe
    PROVE  Following'
<1>1. /\ out = << >> /\ out' = << >> /\ ViewOK(snapshot.windows) /\ snapshot' = snapshot
      /\ phase' \in {"waiting", "unobserved"} /\ snapshot.rev \in Nat
      /\ cache'.rev = snapshot.rev /\ cache'.snapshot = snapshot.windows
  BY DEF Subscribe, Following, ObserverInv, Typing, Store!replace_snapshot
<1>2. PICK told : told = [i \in 1 .. 1 |-> snapshot.windows]
  OBVIOUS
<1>3. told[1] = snapshot.windows /\ Len(out') = 0
  BY <1>1, <1>2
<1>4. Shows(~ambiguous', cache'.snapshot, told[1])
  <2> DEFINE windows == snapshot.windows
  <2>1. windows \in Seq(Views)
    BY <1>1 DEF ViewOK
  <2>2. Views \subseteq Held
    BY DEF Held, Cached
  <2>3. windows \in Seq(Held)
    BY <2>1, <2>2
  <2>4. \A i \in DOMAIN windows : windows[i] \in Allowed(~ambiguous', windows[i])
    <3>1. \A i \in DOMAIN windows : windows[i] \in Views
      BY <2>1
    <3>2. (~ambiguous') \in BOOLEAN
      OBVIOUS
    <3> HIDE DEF windows
    <3> QED BY <3>1, <3>2, AllowedWindow
  <2> QED BY <1>1, <1>3, <2>3, <2>4 DEF Shows
<1>5. Behind(told)'
  <2>1. /\ \A i \in 1 .. Len(out') + 1 : ViewOK(told[i])
        /\ told[Len(out') + 1] = snapshot'.windows
    <3>1. \A i \in 1 .. Len(out') + 1 : i = 1
      BY <1>3
    <3>2. Len(out') + 1 = 1
      BY <1>3
    <3> QED BY <1>1, <1>3, <3>1, <3>2
  <2>2. snapshot'.rev = cache'.rev + Len(out')
    BY <1>1, <1>3
  <2>3. \A i \in 1 .. Len(out') : FALSE
    BY <1>3
  <2> QED BY <1>4, <2>1, <2>2, <2>3 DEF Behind
<1> QED BY <1>1, <1>5 DEF Following

LEMMA ApplyFollowing ==
    ASSUME ObserverInv, Following, DaemonApplies
    PROVE  Following'
<1>1. /\ out # << >> /\ ~gone /\ out' = Tail(out) /\ cache' = Store!apply_diff(cache, Head(out)).store
      /\ UNCHANGED <<phase, snapshot, gone, ambiguous>>
  BY DEF DaemonApplies, history
<1>2. phase \in {"waiting", "refreshing", "unobserved", "stopped"}
  BY <1>1 DEF Following, ObserverInv, Typing
<1>3. PICK told : Behind(told)
  BY <1>1, <1>2 DEF Following
<1>4. cache'.rev = cache.rev + 1 /\ Shows(~ambiguous, cache'.snapshot, told[2])
  BY <1>1, <1>3, NextDiffApplies
<1>5. /\ Len(out') = Len(out) - 1 /\ Len(out) \in Nat \ {0} /\ cache.rev \in Nat
      /\ \A i \in 1 .. Len(out') : i \in DOMAIN out' /\ out'[i] = out[i + 1]
  <2>1. /\ IsSequence(out') /\ Len(out') = Len(out) - 1 /\ Len(out) \in Nat \ {0}
        /\ \A i \in DOMAIN out' : i + 1 \in DOMAIN out /\ out'[i] = out[i + 1]
    BY <1>1, SequenceTail DEF ObserverInv, Typing
  <2>2. DOMAIN out' = 1 .. Len(out')
    BY <2>1 DEF IsSequence
  <2> QED BY <2>1, <2>2 DEF ObserverInv, Typing
<1>6. PICK rest : \A i \in 1 .. Len(out) : rest[i] = told[i + 1]
  <2>1. \A i \in 1 .. Len(out) : [j \in 1 .. Len(out) |-> told[j + 1]][i] = told[i + 1]
    OBVIOUS
  <2> QED BY <2>1
<1>7. \A i \in 1 .. Len(out') + 1 : ViewOK(rest[i])
  <2> SUFFICES ASSUME NEW i \in 1 .. Len(out') + 1 PROVE ViewOK(rest[i])
    OBVIOUS
  <2>1. i \in 1 .. Len(out) /\ i + 1 \in 1 .. Len(out) + 1
    BY <1>5
  <2> QED BY <1>3, <1>6, <2>1 DEF Behind
<1>8. rest[Len(out') + 1] = snapshot.windows
  <2>1. Len(out') + 1 = Len(out) /\ Len(out) \in 1 .. Len(out)
    BY <1>5
  <2> QED BY <1>3, <1>6, <2>1 DEF Behind
<1>9. snapshot.rev = cache'.rev + Len(out')
  BY <1>3, <1>4, <1>5 DEF Behind
<1>10. ASSUME NEW i \in 1 .. Len(out')
       PROVE  /\ out'[i].base = cache'.rev + i - 1 /\ out'[i].new = cache'.rev + i
              /\ out'[i].ops = diff_snapshots(rest[i], rest[i + 1])
              /\ ~ambiguous => ~Ambiguous(rest[i + 1])
  <2>1. i + 1 \in 1 .. Len(out) /\ i \in 1 .. Len(out) /\ i \in Nat
    BY <1>5
  <2>2. /\ out[i + 1].base = cache.rev + (i + 1) - 1 /\ out[i + 1].new = cache.rev + (i + 1)
        /\ out[i + 1].ops = diff_snapshots(told[i + 1], told[(i + 1) + 1])
        /\ ~ambiguous => ~Ambiguous(told[(i + 1) + 1])
    BY <1>3, <2>1 DEF Behind
  <2>3. rest[i] = told[i + 1] /\ rest[i + 1] = told[(i + 1) + 1] /\ out'[i] = out[i + 1]
    BY <1>5, <1>6, <2>1
  <2>4. /\ cache.rev + (i + 1) - 1 = cache'.rev + i - 1
        /\ cache.rev + (i + 1) = cache'.rev + i
    <3> DEFINE r == cache.rev
    <3>1. r \in Nat /\ i \in Nat /\ cache'.rev = r + 1
      BY <1>4, <1>5, <2>1
    <3> HIDE DEF r
    <3>2. r + (i + 1) - 1 = (r + 1) + i - 1 /\ r + (i + 1) = (r + 1) + i
      BY <3>1
    <3> QED BY <3>1, <3>2 DEF r
  <2> QED BY <2>2, <2>3, <2>4
<1>11. Shows(~ambiguous, cache'.snapshot, rest[1])
  <2>1. 1 \in 1 .. Len(out) /\ 1 + 1 = 2
    BY <1>5
  <2>2. rest[1] = told[2]
    BY <1>6, <2>1
  <2> QED BY <1>4, <2>2
<1>12. Behind(rest)'
  <2>1. snapshot' = snapshot /\ ambiguous' = ambiguous
    BY <1>1
  <2> QED BY <1>7, <1>8, <1>9, <1>10, <1>11, <2>1 DEF Behind, Ambiguous
<1> QED BY <1>1, <1>2, <1>12 DEF Following

LEMMA SendFollowing ==
    ASSUME ObserverInv, Following, CommitBatch, SendDiff
    PROVE  Following'
<1> DEFINE windows == snapshot_from_inventory(next)
           ops == diff_snapshots(snapshot.windows, windows)
           diff == [base |-> snapshot.rev, new |-> snapshot.rev + 1, ops |-> ops]
           n == Len(out)
<1>1. /\ phase = "refreshing" /\ phase' \in {"waiting", "stopped"} /\ UNCHANGED <<cache, gone>>
      /\ snapshot' = [rev |-> snapshot.rev + 1, windows |-> windows]
      /\ ambiguous' = (ambiguous \/ Ambiguous(windows))
      /\ ~gone => out' = Append(out, diff)
  BY DEF CommitBatch, SendDiff
<1>2. ViewOK(windows)
  BY SnapshotIsView DEF ObserverInv, Typing
<1>3. diff.base = snapshot.rev /\ diff.new = snapshot.rev + 1 /\ diff.ops = ops
  OBVIOUS
<1> HIDE DEF windows
<1>4. snapshot'.rev = snapshot.rev + 1 /\ snapshot'.windows = windows
  BY <1>1
<1>5. CASE gone
  BY <1>1, <1>5 DEF Following
<1>6. CASE ~gone
  <2>1. PICK told : Behind(told)
    BY <1>1, <1>6 DEF Following
  <2> HIDE DEF diff
  <2>2. /\ Len(out') = n + 1 /\ n \in Nat
        /\ out'[n + 1] = diff /\ \A i \in 1 .. n : out'[i] = out[i]
    <3> DEFINE S == {out[i] : i \in DOMAIN out} \cup {diff}
    <3>1. out \in Seq(S)
      <4>1. {out[i] : i \in DOMAIN out} \subseteq S
        OBVIOUS
      <4> HIDE DEF S
      <4> QED BY <4>1 DEF ObserverInv, Typing, IsSequence
    <3>2. diff \in S
      OBVIOUS
    <3> HIDE DEF S
    <3> QED BY <1>1, <1>6, <3>1, <3>2
  <2>3. PICK more : /\ \A i \in 1 .. n + 1 : more[i] = told[i]
                    /\ more[n + 2] = windows
    <3> DEFINE f == [i \in 1 .. n + 2 |-> IF i = n + 2 THEN windows ELSE told[i]]
    <3>1. /\ \A i \in 1 .. n + 1 : f[i] = told[i]
          /\ f[n + 2] = windows
      BY <2>2
    <3> QED BY <3>1
  <2>4. /\ \A i \in 1 .. n + 1 : ViewOK(told[i])
        /\ told[n + 1] = snapshot.windows
        /\ snapshot.rev = cache.rev + n
        /\ \A i \in 1 .. n :
              /\ out[i].base = cache.rev + i - 1 /\ out[i].new = cache.rev + i
              /\ out[i].ops = diff_snapshots(told[i], told[i + 1])
              /\ ~ambiguous => ~Ambiguous(told[i + 1])
        /\ Shows(~ambiguous, cache.snapshot, told[1])
    BY <2>1 DEF Behind
  <2>5. \A i \in 1 .. Len(out') + 1 : ViewOK(more[i])
    <3> SUFFICES ASSUME NEW i \in 1 .. Len(out') + 1 PROVE ViewOK(more[i])
      OBVIOUS
    <3>1. CASE i = n + 2
      BY <1>2, <2>3, <3>1
    <3>2. CASE i # n + 2
      <4>1. i \in 1 .. n + 1
        BY <2>2, <3>2
      <4> QED BY <2>3, <2>4, <4>1
    <3> QED BY <3>1, <3>2
  <2>6. more[Len(out') + 1] = snapshot'.windows
    <3>1. Len(out') + 1 = n + 2
      BY <2>2
    <3> QED BY <1>4, <2>3, <3>1
  <2>7. snapshot'.rev = cache'.rev + Len(out')
    <3> DEFINE r == cache.rev
               s == snapshot.rev
    <3>1. r \in Nat /\ cache'.rev = r
      BY <1>1 DEF ObserverInv, Typing
    <3>2. s = r + n /\ snapshot'.rev = s + 1
      BY <1>4, <2>4
    <3> HIDE DEF n, r, s
    <3> QED BY <2>2, <3>1, <3>2
  <2>8. ASSUME NEW i \in 1 .. Len(out')
        PROVE  /\ out'[i].base = cache'.rev + i - 1 /\ out'[i].new = cache'.rev + i
               /\ out'[i].ops = diff_snapshots(more[i], more[i + 1])
               /\ ~ambiguous' => ~Ambiguous(more[i + 1])
    <3>1. CASE i = n + 1
      <4>1. i \in 1 .. n + 1 /\ i + 1 = n + 2
        BY <2>2, <3>1
      <4>2. more[i] = snapshot.windows /\ more[i + 1] = windows /\ out'[i] = diff
        BY <2>2, <2>3, <2>4, <3>1, <4>1
      <4>3. out'[i].ops = diff_snapshots(more[i], more[i + 1])
        BY <1>3, <4>2
      <4>4. cache'.rev + i - 1 = snapshot.rev /\ cache'.rev + i = snapshot.rev + 1
        <5> DEFINE r == cache.rev
                   s == snapshot.rev
        <5>1. r \in Nat /\ cache'.rev = r
          BY <1>1 DEF ObserverInv, Typing
        <5>2. s = r + n
          BY <2>4
        <5> HIDE DEF n, r, s
        <5>3. r + i - 1 = s /\ r + i = s + 1
          BY <2>2, <3>1, <5>1, <5>2
        <5> QED BY <5>1, <5>3 DEF s
      <4>5. ~ambiguous' => ~Ambiguous(more[i + 1])
        BY <1>1, <4>2
      <4> QED BY <1>3, <4>2, <4>3, <4>4, <4>5
    <3>2. CASE i # n + 1
      <4>1. i \in 1 .. n /\ i \in 1 .. n + 1 /\ i + 1 \in 1 .. n + 1
        BY <2>2, <3>2
      <4>2. more[i] = told[i] /\ more[i + 1] = told[i + 1] /\ out'[i] = out[i]
        BY <2>2, <2>3, <4>1
      <4>3. cache'.rev = cache.rev
        BY <1>1
      <4>4. ~ambiguous' => ~ambiguous
        BY <1>1
      <4> QED BY <2>4, <4>1, <4>2, <4>3, <4>4
    <3> QED BY <3>1, <3>2
  <2>9. Shows(~ambiguous', cache'.snapshot, more[1])
    <3>1. 1 \in 1 .. n + 1
      BY <2>2
    <3>2. more[1] = told[1] /\ ViewOK(told[1]) /\ Shows(~ambiguous, cache.snapshot, told[1])
      BY <2>3, <2>4, <3>1
    <3>3. cache'.snapshot = cache.snapshot /\ (~ambiguous' => ~ambiguous)
      BY <1>1
    <3>4. \A w : Allowed(~ambiguous, w) \subseteq Allowed(~ambiguous', w)
      BY <3>3 DEF Allowed, Cached
    <3> QED BY <3>2, <3>3, <3>4 DEF Shows
  <2>10. Behind(more)'
    BY <2>5, <2>6, <2>7, <2>8, <2>9 DEF Behind
  <2> QED BY <1>1, <2>10 DEF Following
<1> QED BY <1>5, <1>6

LEMMA NextFollowing ==
    ASSUME ObserverInv, Following, [Next]_vars
    PROVE  Following'
<1>1. CASE DaemonLeaves
  <2>1. UNCHANGED <<snapshot, out, cache, ambiguous, phase>> /\ gone'
    BY <1>1 DEF DaemonLeaves, history
  <2> QED BY <2>1, QuietFollowing
<1>2. CASE UNCHANGED vars
  <2>1. UNCHANGED <<snapshot, out, cache, ambiguous, phase, gone>>
    BY <1>2 DEF vars, history
  <2> QED BY <2>1, QuietFollowing
<1>3. ASSUME NEW h \in Handles, Change(h) PROVE Following'
  <2>1. UNCHANGED <<snapshot, out, cache, ambiguous, phase, gone>>
    BY <1>3 DEF Change
  <2> QED BY <2>1, QuietFollowing
<1>4. CASE TakeBatch
  <2>1. /\ UNCHANGED <<snapshot, out, cache, ambiguous, gone>>
        /\ phase = "waiting" /\ phase' = "refreshing"
    BY <1>4 DEF TakeBatch, history
  <2> QED BY <2>1, QuietFollowing
<1>5. CASE ApplyRefresh
  <2>1. UNCHANGED <<snapshot, out, cache, ambiguous, gone>> /\ phase = "refreshing"
    BY <1>5 DEF ApplyRefresh
  <2>2. phase' \in {"refreshing", "stopped"}
    <3>1. /\ phase' = (IF gone THEN "stopped" ELSE phase) \/ phase' = phase
      BY <1>5, Zenon DEF ApplyRefresh, RefreshFails, Refreshed
    <3> QED BY <2>1, <3>1
  <2> QED BY <2>1, <2>2, QuietFollowing
<1>6. CASE CommitBatch
  <2>1. CASE NothingToTell
    <3>1. /\ UNCHANGED <<snapshot, out, cache, ambiguous, gone>>
          /\ phase = "refreshing" /\ phase' = "waiting"
      BY <1>6, <2>1 DEF CommitBatch, NothingToTell
    <3> QED BY <3>1, QuietFollowing
  <2>2. CASE SendDiff
    BY <1>6, <2>2, SendFollowing
  <2> QED BY <1>6, <2>1, <2>2 DEF CommitBatch
<1> QED BY <1>1, <1>2, <1>3, <1>4, <1>5, <1>6, CaptureFollowing, SubscribeFollowing, ApplyFollowing
        DEF Next, ObserverNext

\* What a cache shows of a snapshot without ambiguous windows is the snapshot.
LEMMA ExactlyShown ==
    ASSUME NEW held, NEW windows, windows \in Seq(Views), Shows(TRUE, held, windows)
    PROVE  held = windows
<1>1. held \in Seq(Held) /\ Len(held) = Len(windows) /\ DOMAIN windows = 1 .. Len(windows)
  BY DEF Shows
<1>2. \A i \in 1 .. Len(windows) : held[i] = windows[i]
  BY <1>1 DEF Allowed, Shows
<1>3. /\ held = [i \in 1 .. Len(held) |-> held[i]]
      /\ windows = [i \in 1 .. Len(windows) |-> windows[i]]
  BY <1>1
<1> QED BY <1>1, <1>2, <1>3

LEMMA FollowingSuffices ==
    ASSUME ObserverInv, Following
    PROVE  DaemonFollows
<1>1. ASSUME out # << >>, ~gone PROVE Store!apply_diff(cache, Head(out)).ok
  <2>1. phase \in {"waiting", "refreshing", "unobserved", "stopped"}
    BY <1>1 DEF Following, ObserverInv, Typing
  <2>2. PICK told : Behind(told)
    BY <1>1, <2>1 DEF Following
  <2> QED BY <1>1, <2>2, NextDiffApplies
<1>2. ASSUME Observed, ~gone, out = << >>
      PROVE  cache.rev = snapshot.rev /\ (~ambiguous => cache.snapshot = snapshot.windows)
  <2>1. PICK told : Behind(told)
    BY <1>2 DEF Following, Observed
  <2>2. Len(out) = 0
    BY <1>2
  <2>3. /\ ViewOK(told[1]) /\ told[1] = snapshot.windows /\ snapshot.rev = cache.rev + 0
        /\ Shows(~ambiguous, cache.snapshot, told[1])
    BY <2>1, <2>2 DEF Behind
  <2>4. cache.rev = snapshot.rev
    BY <2>3 DEF ObserverInv, Typing
  <2>5. ASSUME ~ambiguous PROVE cache.snapshot = snapshot.windows
    <3>1. Shows(TRUE, cache.snapshot, told[1])
      BY <2>3, <2>5
    <3>2. told[1] \in Seq(Views)
      BY <2>3 DEF ViewOK
    <3>3. cache.snapshot = told[1]
      BY <3>1, <3>2, ExactlyShown
    <3> QED BY <2>3, <3>3
  <2> QED BY <2>4, <2>5
<1> QED BY <1>1, <1>2 DEF DaemonFollows

-----------------------------------------------------------------------------
(* The theorems.                                                           *)

\* Whatever the desktop does: a batch names no window twice and nothing beside the
\* desktop, and no more diffs, requests or revisions come about than changes.
THEOREM TypeCorrect == Spec => []TypeOK
<1>1. ObserverInv => TypeOK
  <2> SUFFICES ASSUME ObserverInv PROVE TypeOK
    OBVIOUS
  <2> USE DEF ObserverInv
  <2>1. /\ snapshot.rev \in Nat /\ changes \in Nat /\ changes <= MaxChanges /\ MaxChanges \in Nat
        /\ Len(queue) \in Nat /\ Len(out) \in Nat
    BY BoundsAssumption DEF Typing, IsSequence
  <2>2. snapshot.rev + Len(queue) <= changes + 1
    BY <2>1 DEF Budget
  <2>3. snapshot.rev \in 0 .. MaxChanges + 1 /\ Len(out) <= MaxChanges /\ Len(queue) <= MaxChanges
    BY <2>1, <2>2 DEF Budget, Opened
  <2> QED BY <2>3 DEF TypeOK, Typing, BatchOK, Increasing
<1> QED BY <1>1, ObserverInvariant, PTL

\* Coalescing, batches that are applied while the desktop goes on changing, and
\* captures of some windows and not of others lose no change that was announced
\* under its window's handle or without one.
THEOREM NothingIsForgotten == Spec => []NothingForgotten
<1>1. ObserverInv => NothingForgotten
  BY DEF ObserverInv, Told, NothingForgotten, Observed, Current
<1> QED BY <1>1, ObserverInvariant, PTL

\* Whatever the desktop does and however its changes are batched: the daemon's cache
\* takes every diff it is sent, and when it has taken them all it is the observer's
\* snapshot, unless a snapshot had equal ids or two focused nodes in a window.
THEOREM DaemonKeepsUp == Spec => []DaemonFollows
<1>1. Init => Following
  BY InitFollowing
<1>2. ObserverInv /\ Following /\ [Next]_vars => Following'
  BY NextFollowing
<1>3. ObserverInv /\ Following => DaemonFollows
  BY FollowingSuffices
<1> QED BY <1>1, <1>2, <1>3, ObserverInvariant, PTL DEF Spec

=============================================================================
