--------------------------- MODULE WindowsObserver ---------------------------
(***************************************************************************)
(* The observer of vmui-platform-windows: open_session captures the        *)
(* desktop and subscribes to WinEvents, the hook thread turns events into  *)
(* refresh requests, observe_refreshes recaptures what they name and sends *)
(* the difference, and the daemon applies it to the session's cache.       *)
(*                                                                         *)
(* The desktop changes at any time.  A change is announced under the       *)
(* window's handle, under the handle of one of its controls, without a     *)
(* handle, or not at all (windows are destroyed, moved and reordered       *)
(* without an event the hooks listen to).  A capture may fall back to MSAA *)
(* or fail.  One refresh reads the desktop in one step.                    *)
(***************************************************************************)
EXTENDS WindowMatching, SnapshotDiff, FiniteSets

CONSTANTS
    Handles,           \* the top-level windows, naturals other than 0
    Surfaces(_),       \* the open windows a handle can show
    Desktops,          \* what a session may find when it is opened
    Profiles,          \* [attached, filter, domain]
    NoSnapshot,
    MaxChanges,        \* bound: changes of the desktop
    MaxFaults          \* bound: captures that fail or fall back to MSAA

\* What the observer does with trees: modules WindowIdentity and UiTree.
CONSTANTS
    Windows,           \* the windows that captures and stabilize_window give
    RawTree(_),        \* the nodes of a control and of all controls below it
    Capture(_, _, _),  \* handle, open window, backend: capture_window_from_metadata
    KeepIds(_, _),     \* previous, current: stabilize_window
    TreeNodes(_),      \* the nodes of a captured window
    Shown(_),          \* a captured window, its ids aside
    HasAmbiguity(_),   \* equal ids or two focused nodes in a window
    Visible(_, _),     \* profile, window: does project_windows show it?
    Annotated(_, _)    \* profile, window: as project_windows shows it

Desktop == 0    \* the scope of an event without a valid handle

Backends == {"Uia", "Msaa"}

ResyncSignal == << ResyncOp >>

\* A control with a handle is a window to Win32, its name the window's text.
AsWindow(open, control) ==
    [pid |-> open.pid, process_name |-> open.process_name, title |-> control.name,
     root |-> control]

ASSUME BoundsAssumption == MaxChanges \in Nat /\ MaxFaults \in Nat

ASSUME NoHandleAssumption == None \notin Nat

ASSUME HandlesAssumption == IsFiniteSet(Handles) /\ Handles \subseteq Nat \ {Desktop}

ASSUME SurfacesAssumption ==
    /\ \A h \in Handles : None \notin Surfaces(h)
    /\ \A d \in Desktops : DOMAIN d = Handles /\ \A h \in Handles : d[h] \in Surfaces(h) \cup {None}
    /\ \A h \in Handles : \A open \in Surfaces(h) : \A n \in RawTree(open.root) :
          n.handle \in Nat \cup {None}

\* A capture is of the window it was asked for: it carries that handle.
ASSUME CaptureAssumption ==
    \A h \in Handles : \A open \in Surfaces(h) :
        LET below == {n \in RawTree(open.root) : n.handle \notin {None, h}}
        IN  /\ {Capture(h, open, b) : b \in Backends}
                 \subseteq {w \in Windows : window_matches_hwnd(w, h)}
            /\ \A n \in below : {Capture(n.handle, AsWindow(open, n), b) : b \in Backends}
                 \subseteq {w \in Windows : window_matches_hwnd(w, n.handle)}

\* Keeping the ids of an earlier capture of the window changes nothing but ids.
ASSUME KeepIdsAssumption ==
    \A hwnd \in {window_native_handle(w) : w \in Windows} :
        LET mine == {w \in Windows : window_matches_hwnd(w, hwnd)}
        IN  /\ hwnd \in Nat
            /\ {KeepIds(p[1], p[2]) : p \in mine \X mine} \subseteq mine
            /\ \A p \in mine \X mine : Shown(KeepIds(p[1], p[2])) = Shown(p[2])

Views == {Annotated(p, w) : p \in Profiles, w \in Windows}

\* What FocusChanged makes of a window: one focused node at most.
Refocused(v) ==
    LET cleared == WithoutFocus(v.root)
        e       == FocusOf(v.root)
    IN  [v EXCEPT !.root = IF e = NoFocus THEN cleared ELSE WithFocus(cleared, e)]

\* What the daemon may hold of a window it has been told of.
Cached(v) == {v, Refocused(v)}

\* A window's id comes from its fingerprint, which names the handle; annotating
\* a window changes its nodes' properties.
ASSUME WindowsAssumption ==
    /\ \A v, w \in Windows : v.id = w.id => window_native_handle(v) = window_native_handle(w)
    /\ \A p \in Profiles, w \in Windows : Annotated(p, w).id = w.id
    /\ \A v \in Views :
          /\ v.id \in Nat
          /\ v = [id |-> v.id, pid |-> v.pid, process_name |-> v.process_name,
                  title |-> v.title, backend |-> v.backend, root |-> v.root]

\* The id of a window's root is found in that window alone, a root is replaced as
\* a whole, and the element that has the focus is found again.
ASSUME RootsAssumption ==
    /\ \A w \in Views : \A c \in Cached(w) : InTree(c.root, w.root.id)
    /\ \A v, w \in Views : \A c \in Cached(w) :
          IF v.id = w.id THEN WithNode(c.root, w.root.id, v.root) = v.root
          ELSE ~InTree(c.root, v.root.id)
    /\ \A v \in Views :
          /\ FocusOf(v.root) # NoFocus => InTree(WithoutFocus(v.root), FocusOf(v.root))
          /\ ~HasAmbiguity(v) => Refocused(v) = v

ASSUME NoSnapshotAssumption == NoSnapshot \notin Seq(UNION {Cached(v) : v \in Views})

VARIABLES
    desktop,      \* handle -> what is there now, None when it is closed
    changes,      \* how often the desktop has changed
    faults,
    profile,      \* the session's profile
    phase,        \* "opening", "captured", "waiting", "refreshing", or how it ended
    queue,        \* the refresh requests of the hook thread: handles or Desktop
    batch,        \* the requests of the current batch that are still to be applied
    inventory,    \* current_inventory
    next,         \* next_inventory while a batch is applied
    snapshot,     \* current_snapshot: [rev, windows]
    out,          \* the diffs sent and not yet applied by the daemon
    cache,        \* the UiStateStore of the session
    gone,         \* the daemon has dropped the session's stream
    blind,        \* history: the windows whose last change no request announced
    owners,       \* history: which control had which id
    inserted,     \* history: a control appeared inside a known window
    degraded,     \* history: a capture fell back to MSAA
    ambiguous     \* history: a snapshot with equal ids or two focused nodes in a window

desktopVars == <<desktop, changes>>
history == <<blind, owners, inserted, degraded, ambiguous>>
vars == <<desktop, changes, faults, profile, phase, queue, batch, inventory, next,
          snapshot, out, cache, gone, history>>

Store == INSTANCE UiStateStore
    WITH Content <- {}, OpLists <- {ResyncSignal},
         ApplyOps <- ApplyDiffOps, HasResync <- HasSnapshotResync

-----------------------------------------------------------------------------
(* What a capture reads.                                                   *)

OpenHandles == {h \in Handles : desktop[h] # None}

Controls(h) == {n \in RawTree(desktop[h].root) : n.handle \notin {None, h}}

OpenAt(hwnd) ==
    IF hwnd \in Handles THEN desktop[hwnd]
    ELSE LET shown == {<<h, n>> : h \in OpenHandles, n \in UNION {Controls(g) : g \in OpenHandles}}
             mine  == {s \in shown : s[2] \in Controls(s[1]) /\ s[2].handle = hwnd}
         IN  IF mine = {} THEN None
             ELSE LET s == CHOOSE s \in mine : TRUE
                  IN  AsWindow(desktop[s[1]], s[2])

\* For each window the outcome of its capture; what is not UIA is bounded.
Outcomes(hwnds) ==
    {how \in [hwnds -> {"Uia", "Msaa", "Err"}] :
        Cardinality({h \in hwnds : how[h] # "Uia"}) <= MaxFaults - faults}

\* One window that cannot be captured fails the whole desktop.
capture_desktop(how) ==
    LET hwnds == Ascending(OpenHandles)
    IN  IF \E h \in OpenHandles : how[h] = "Err" THEN {}
        ELSE {[i \in DOMAIN hwnds |-> Capture(hwnds[i], desktop[hwnds[i]], how[hwnds[i]])]}

stabilize_windows(previous, current) ==
    LET match == Matching(window_scores(previous, current))
    IN  [i \in DOMAIN current |->
            IF match[i] = {} THEN current[i]
            ELSE KeepIds(previous[Max(match[i])], current[i])]

\* retain: the windows that are not hwnd's.
WithoutWindow(windows, hwnd) ==
    LET kept == Ascending({i \in DOMAIN windows : ~window_matches_hwnd(windows[i], hwnd)})
    IN  [i \in DOMAIN kept |-> windows[kept[i]]]

\* apply_refresh_request: the new inventory, or nothing when the capture fails.
RefreshDesktop(windows, how) ==
    {stabilize_windows(windows, refreshed) : refreshed \in capture_desktop(how)}

RefreshWindow(windows, hwnd, how) ==
    LET found  == {i \in DOMAIN windows : window_matches_hwnd(windows[i], hwnd)}
        window == Capture(hwnd, OpenAt(hwnd), how[hwnd])
    IN  IF OpenAt(hwnd) = None THEN {WithoutWindow(windows, hwnd)}
        ELSE IF how[hwnd] = "Err" THEN {}
        ELSE IF found = {} THEN {Append(windows, window)}
        ELSE {[windows EXCEPT ![Min(found)] = KeepIds(@, window)]}

\* Mutant: window requests are applied and the desktop request is forgotten.
MutCoalesceForgetsDesktop(requests) ==
    LET windows == {requests[i] : i \in DOMAIN requests} \ {Desktop}
    IN  IF windows = {} THEN <<Desktop>> ELSE Ascending(windows)

\* Mutant: the requests are applied as they came.
MutCoalesceKeepsAll(requests) == requests

\* A BTreeMap by handle, unless the whole desktop is asked for.
coalesce_refresh_requests(requests) ==
    LET scopes == {requests[i] : i \in DOMAIN requests}
    IN  IF Desktop \in scopes THEN <<Desktop>> ELSE Ascending(scopes)

-----------------------------------------------------------------------------
(* What the session is shown.                                              *)

project_windows(windows) ==
    LET shown == Ascending({i \in DOMAIN windows : Visible(profile, windows[i])})
    IN  [i \in DOMAIN shown |-> Annotated(profile, windows[shown[i]])]

snapshot_from_inventory(windows) == sort_windows(project_windows(windows))

-----------------------------------------------------------------------------
(* History.                                                                *)

AutomationIds(window) == {n.attr.auto : n \in TreeNodes(window.root)} \ {None}

Ambiguous(windows) == \E i \in DOMAIN windows : HasAmbiguity(windows[i])

OwnersIn(windows) ==
    UNION {{[window |-> window_native_handle(windows[i]), id |-> n.id, auto |-> n.attr.auto] :
              n \in {n \in TreeNodes(windows[i].root) : n.attr.auto # None}} : i \in DOMAIN windows}

ShowsNewControl(before, after) ==
    \E i \in DOMAIN before, j \in DOMAIN after :
        /\ window_native_handle(before[i]) = window_native_handle(after[j])
        /\ ~(AutomationIds(after[j]) \subseteq AutomationIds(before[i]))

-----------------------------------------------------------------------------
(* Opening a session.                                                      *)

Init ==
    /\ desktop \in Desktops
    /\ profile \in Profiles
    /\ changes = 0 /\ faults = 0
    /\ phase = "opening"
    /\ queue = << >> /\ batch = << >> /\ inventory = << >> /\ next = << >> /\ out = << >>
    /\ snapshot = [rev |-> 0, windows |-> << >>]
    /\ cache = Store!EmptyStore
    /\ gone = FALSE
    /\ blind = {} /\ owners = {}
    /\ inserted = FALSE /\ degraded = FALSE /\ ambiguous = FALSE

CountFaults(how) ==
    /\ faults' = faults + Cardinality({h \in DOMAIN how : how[h] # "Uia"})
    /\ degraded' = (degraded \/ \E h \in DOMAIN how : how[h] = "Msaa")

\* open_session captures first and subscribes afterwards.
CaptureInitial ==
    /\ phase = "opening"
    /\ \E how \in Outcomes(OpenHandles) :
        /\ CountFaults(how)
        /\ \/ /\ capture_desktop(how) = {}
              /\ phase' = "failed"
              /\ UNCHANGED <<inventory, snapshot, owners, ambiguous>>
           \/ \E windows \in capture_desktop(how) :
                /\ inventory' = windows
                /\ snapshot' = [rev |-> 1, windows |-> snapshot_from_inventory(windows)]
                /\ owners' = OwnersIn(windows)
                /\ ambiguous' = Ambiguous(windows)
                /\ phase' = "captured"
    /\ UNCHANGED <<desktopVars, profile, queue, batch, next, out, cache, gone, blind, inserted>>

\* Without hooks the session has its first snapshot and no stream.
Subscribe ==
    /\ phase = "captured"
    /\ phase' \in {"waiting", "unobserved"}
    /\ cache' = Store!replace_snapshot(snapshot.rev, snapshot.windows)
    /\ UNCHANGED <<desktopVars, faults, profile, queue, batch, inventory, next, snapshot, out,
                   gone, history>>

-----------------------------------------------------------------------------
(* The desktop and the hook thread.                                        *)

\* The handles winevent_callback may be given for a change of h.
AnnouncedAs(h) ==
    {h, Desktop} \cup (IF desktop[h] = None THEN {} ELSE {n.handle : n \in Controls(h)})

Observed == phase \in {"waiting", "refreshing"}

\* winevent_callback queues a request for the handle it is given.
ChangeAnnounced(h, surface) ==
    \E scope \in AnnouncedAs(h) :
        /\ Observed
        /\ desktop' = [desktop EXCEPT ![h] = surface]
        /\ queue' = Append(queue, scope)
        /\ blind' = IF scope \in {h, Desktop} THEN blind \ {h} ELSE blind \cup {h}

ChangeUnseen(h, surface) ==
    /\ desktop' = [desktop EXCEPT ![h] = surface]
    /\ blind' = blind \cup {h}
    /\ UNCHANGED queue

\* A handle may be used again for another window, which owns its ids anew.
Change(h) ==
    /\ changes < MaxChanges
    /\ changes' = changes + 1
    /\ phase \notin {"opening", "failed"}
    /\ \E surface \in (Surfaces(h) \cup {None}) \ {desktop[h]} :
        ChangeAnnounced(h, surface) \/ ChangeUnseen(h, surface)
    /\ owners' = IF desktop[h] = None THEN {o \in owners : o.window # h} ELSE owners
    /\ UNCHANGED <<faults, profile, phase, batch, inventory, next, snapshot, out, cache, gone,
                   inserted, degraded, ambiguous>>

-----------------------------------------------------------------------------
(* observe_refreshes.                                                      *)

\* next_refresh_batch: what arrives within 75 ms of the first request.
TakeBatch ==
    /\ phase = "waiting"
    /\ \E n \in 1..Len(queue) :
        /\ batch' = coalesce_refresh_requests(SubSeq(queue, 1, n))
        /\ queue' = SubSeq(queue, n + 1, Len(queue))
    /\ next' = inventory
    /\ phase' = "refreshing"
    /\ UNCHANGED <<desktopVars, faults, profile, inventory, snapshot, out, cache, gone, history>>

Touched(scope) == IF scope = Desktop THEN Handles ELSE {scope}

\* A failed refresh is a warning, and the end when nobody receives it.
RefreshFails(scope) ==
    /\ phase' = IF gone THEN "stopped" ELSE phase
    /\ blind' = blind \cup (Touched(scope) \cap Handles)
    /\ UNCHANGED <<next, owners, inserted>>

Refreshed(scope, windows) ==
    /\ next' = windows
    /\ blind' = blind \ Touched(scope)
    /\ owners' = owners \cup OwnersIn(windows)
    /\ inserted' = (inserted \/ ShowsNewControl(next, windows))
    /\ UNCHANGED phase

ApplyRefresh ==
    /\ phase = "refreshing" /\ batch # << >>
    /\ batch' = Tail(batch)
    /\ LET scope == Head(batch)
       IN  \E how \in Outcomes(IF scope = Desktop THEN OpenHandles
                               ELSE IF OpenAt(scope) = None THEN {} ELSE {scope}) :
            LET result == IF scope = Desktop THEN RefreshDesktop(next, how)
                          ELSE RefreshWindow(next, scope, how)
            IN  /\ CountFaults(how)
                /\ \/ result = {} /\ RefreshFails(scope)
                   \/ \E windows \in result : Refreshed(scope, windows)
    /\ UNCHANGED <<desktopVars, profile, queue, inventory, snapshot, out, cache, gone, ambiguous>>

\* Mutant: an empty difference ends the task.
MutCommitReturns ==
    /\ phase = "refreshing" /\ batch = << >>
    /\ LET windows == snapshot_from_inventory(next)
           ops     == diff_snapshots(snapshot.windows, windows)
       IN  /\ inventory' = next
           /\ out' = IF ops = << >> THEN out
                     ELSE Append(out, [base |-> snapshot.rev, new |-> snapshot.rev + 1, ops |-> ops])
           /\ snapshot' = IF ops = << >> THEN snapshot
                          ELSE [rev |-> snapshot.rev + 1, windows |-> windows]
           /\ phase' = IF ops = << >> THEN "stopped" ELSE "waiting"
           /\ ambiguous' = (ambiguous \/ Ambiguous(windows))
    /\ UNCHANGED <<desktopVars, faults, profile, queue, batch, next, cache, gone,
                   blind, owners, inserted, degraded>>

NothingToTell ==
    /\ diff_snapshots(snapshot.windows, snapshot_from_inventory(next)) = << >>
    /\ phase' = "waiting"
    /\ UNCHANGED <<snapshot, out, ambiguous>>

SendDiff ==
    LET windows == snapshot_from_inventory(next)
        ops     == diff_snapshots(snapshot.windows, windows)
        rev     == snapshot.rev + 1
    IN  /\ ops # << >>
        /\ snapshot' = [rev |-> rev, windows |-> windows]
        /\ ambiguous' = (ambiguous \/ Ambiguous(windows))
        /\ IF gone THEN phase' = "stopped" /\ UNCHANGED out
           ELSE /\ phase' = "waiting"
                /\ out' = Append(out, [base |-> snapshot.rev, new |-> rev, ops |-> ops])

CommitBatch ==
    /\ phase = "refreshing" /\ batch = << >>
    /\ NothingToTell \/ SendDiff
    /\ inventory' = next
    /\ UNCHANGED <<desktopVars, faults, profile, queue, batch, next, cache, gone,
                   blind, owners, inserted, degraded>>

-----------------------------------------------------------------------------
(* The daemon.                                                             *)

\* forward_backend_events, module DaemonSession.
DaemonApplies ==
    /\ out # << >> /\ ~gone
    /\ cache' = Store!apply_diff(cache, Head(out)).store
    /\ out' = Tail(out)
    /\ UNCHANGED <<desktopVars, faults, profile, phase, queue, batch, inventory, next, snapshot,
                   gone, history>>

DaemonLeaves ==
    /\ phase \notin {"opening", "captured", "failed"} /\ ~gone
    /\ gone' = TRUE
    /\ UNCHANGED <<desktopVars, faults, profile, phase, queue, batch, inventory, next, snapshot,
                   out, cache, history>>

ObserverNext == TakeBatch \/ ApplyRefresh \/ CommitBatch

Next ==
    \/ CaptureInitial \/ Subscribe
    \/ \E h \in Handles : Change(h)
    \/ ObserverNext
    \/ DaemonApplies \/ DaemonLeaves

Spec == Init /\ [][Next]_vars

\* The observer and the forwarder are tasks that the runtime schedules: weak
\* fairness of ObserverNext and DaemonApplies, with ENABLED written out.
ObserverCanStep == phase = "refreshing" \/ (phase = "waiting" /\ queue # << >>)
DaemonCanStep == out # << >> /\ ~gone

FairSpec ==
    /\ Spec
    /\ []<>~ObserverCanStep \/ []<><<ObserverNext>>_vars
    /\ []<>~DaemonCanStep \/ []<><<DaemonApplies>>_vars

-----------------------------------------------------------------------------
(* Properties.                                                             *)

\* Each variable has its type; a batch names no window twice and nothing
\* beside the desktop, and revisions are those the changes can have caused.
TypeOK ==
    /\ phase \in {"opening", "captured", "waiting", "refreshing", "failed", "unobserved", "stopped"}
    /\ changes \in 0..MaxChanges /\ faults \in 0..MaxFaults
    /\ profile \in Profiles /\ gone \in BOOLEAN
    /\ \A i \in DOMAIN batch : batch[i] = Desktop => Len(batch) = 1
    /\ \A i, j \in DOMAIN batch : i < j => batch[i] < batch[j]
    /\ snapshot.rev \in 0..(MaxChanges + 1) /\ cache.rev <= snapshot.rev
    /\ Len(out) <= MaxChanges /\ Len(queue) <= MaxChanges
    /\ blind \subseteq Handles

\* The daemon follows: the next diff always applies to its cache, no operation naming
\* a window or an element the cache does not hold, and when it has applied them all its
\* cache is exactly the observer's snapshot, unless a snapshot held equal ids or two
\* focused nodes in a window.
DaemonFollows ==
    /\ out # << >> /\ ~gone => Store!apply_diff(cache, Head(out)).ok
    /\ Observed /\ ~gone /\ out = << >> =>
        /\ cache.rev = snapshot.rev
        /\ ~ambiguous => cache.snapshot = snapshot.windows

\* What an inventory says of the window with this handle.
Showing(windows, hwnd) ==
    {Shown(windows[i]) : i \in {i \in DOMAIN windows : window_matches_hwnd(windows[i], hwnd)}}

Reflects(windows, h) ==
    IF desktop[h] = None THEN Showing(windows, h) = {}
    ELSE \E backend \in Backends :
            Showing(windows, h) = {Shown(Capture(h, desktop[h], backend))}

Awaited(h) ==
    \E requests \in {queue, batch} : \E i \in DOMAIN requests : requests[i] \in {h, Desktop}

\* A change that was announced under its window's handle, or without one, is in the
\* inventory or its request is still waiting: coalescing requests, applying several
\* of them one after the other and changes in between lose nothing.
NothingForgotten ==
    Observed => \A h \in Handles :
        h \in blind \/ Awaited(h) \/ Reflects(IF phase = "refreshing" THEN next ELSE inventory, h)

OneToOne ==
    \A a, b \in owners :
        /\ a.id = b.id => a.window = b.window /\ a.auto = b.auto
        /\ a.window = b.window /\ a.auto = b.auto => a.id = b.id

\* A control keeps its id and shares it with no other control while its window is
\* open, although siblings are reordered, renamed or removed, the window's title and
\* the focus change, and whole windows are captured again: as long as no control
\* appears in a known window and no capture falls back to MSAA.
IdsKeptUnlessInserted == ~inserted /\ ~degraded => OneToOne

\* The same, as the specification promises it: whatever appears beside the control.
IdsFollowControls == ~degraded => OneToOne

\* When the desktop rests, every announced change comes to rest in the cache.
EventuallyShown ==
    <>[](\/ gone
         \/ phase \in {"opening", "captured", "failed", "unobserved"}
         \/ /\ phase = "waiting" /\ queue = << >> /\ out = << >>
            /\ cache.rev = snapshot.rev
            /\ \A h \in Handles \ blind : Reflects(inventory, h))

=============================================================================
