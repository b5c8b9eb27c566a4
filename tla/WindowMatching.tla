---------------------------- MODULE WindowMatching ----------------------------
(***************************************************************************)
(* Which window of an inventory is which window of an earlier one, and the *)
(* matching that windows and the elements below them share: in order, each *)
(* takes the best of those not yet taken (vmui-platform-windows,           *)
(* stabilize_windows and stabilize_element).                               *)
(***************************************************************************)
EXTENDS Naturals, Sequences, FiniteSetsExt

CONSTANT None    \* an Option without a value

Times(cond, n) == IF cond THEN n ELSE 0

\* Equal and present.
Same(a, b) == a = b /\ a # None

window_native_handle(window) == window.root.attr.handle

window_matches_hwnd(window, hwnd) == window_native_handle(window) = hwnd

\* An Option: no score when the two cannot be the same window or element.
window_match_score(previous, current) ==
    LET p == previous.root.attr
        c == current.root.attr
        possible == /\ p.handle # None /\ c.handle # None => p.handle = c.handle
                    /\ previous.pid # 0 /\ current.pid # 0 => previous.pid = current.pid
                    /\ p.ctype = c.ctype
        score == Times(Same(p.handle, c.handle), 1000)
               + Times(previous.pid # 0 /\ previous.pid = current.pid, 200)
               + Times(Same(p.class, c.class), 80) + Times(previous.title = current.title, 60)
               + Times(Same(p.name, c.name), 60) + Times(Same(p.auto, c.auto), 120)
    IN  IF possible /\ score >= 200 THEN {score} ELSE {}

window_scores(previous, current) ==
    [i \in DOMAIN current |->
        [j \in DOMAIN previous |-> window_match_score(previous[j], current[i])]]

\* filter, filter_map and max_by_key over the scores of one: the last of the highest.
BestMatch(scores, used) ==
    LET scored == {i \in DOMAIN scores \ used : scores[i] # {}}
        best   == {i \in scored : \A j \in scored : Max(scores[j]) <= Max(scores[i])}
    IN  IF best = {} THEN {} ELSE {Max(best)}

\* used_previous, after the first n have taken theirs.
Used(scores) ==
    LET used[n \in 0 .. Len(scores)] ==
            IF n = 0 THEN {}
            ELSE LET before == used[n - 1]
                 IN  before \cup BestMatch(scores[n], before)
    IN  used

\* In order, each takes its best match among those not yet taken.
Matching(scores) ==
    LET used == Used(scores)
    IN  [i \in DOMAIN scores |-> BestMatch(scores[i], used[i - 1])]

=============================================================================
