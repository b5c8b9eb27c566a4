--------------------------- MODULE ActionExecution ---------------------------
(***************************************************************************)
(* What becomes of an action request: the daemon's executors (vmui-agent,  *)
(* execute_action and the execute_* functions) and the Windows backend     *)
(* that acts on the desktop (vmui-platform-windows, perform_action).       *)
(*                                                                         *)
(* A session executes one request after the other; sessions run side by    *)
(* side on one desktop.  A backend action runs on a thread of its own      *)
(* (spawn_blocking) which nothing stops: when the daemon's timeout elapses *)
(* the thread goes on.  An error, unlike a failed result, ends the session *)
(* without an answer.  Where the daemon needs a snapshot and the cache is  *)
(* marked, it waits for a capture of the backend, without a timeout.       *)
(*                                                                         *)
(* The desktop is a row of controls with the same type, class, automation  *)
(* id and name, so that an element is known by its sibling ordinal: the    *)
(* case in which identity is hardest.  A control's place in the row is     *)
(* where it is on the screen.                                              *)
(***************************************************************************)
EXTENDS Integers, Sequences

CONSTANTS
    None,
    Sessions,
    Rows,          \* the sequences of controls the window can show
    Requests,      \* what may be asked for, among AllRequests
    MaxActions,    \* bound: requests
    MaxShifts      \* bound: changes of the desktop by others

PointerKinds == {"invoke", "click", "right_click"}
InputKinds == PointerKinds \cup {"set_value", "send_keys"}
DirectKinds == InputKinds \cup {"focus_window", "capture_region"}    \* execute_backend_action
TimedKinds == DirectKinds \cup {"panel_probe"}
StateKinds == {"read", "bundle"}    \* list_windows, get_tree, write_artifact; bundles
AllKinds == TimedKinds \cup StateKinds \cup {"ocr"}

\* count: how many clicks, or how many key strokes.
AllRequests ==
    [kind : AllKinds, policy : {"Never", "OnFailure", "Always"}, path : Nat, count : Nat]

ASSUME RequestsAssumption == Requests \subseteq AllRequests

ASSUME RowsAssumption == \A r \in Rows : Len(r) \in Nat /\ DOMAIN r = 1 .. Len(r)

ASSUME BoundsAssumption == MaxActions \in Nat /\ MaxShifts \in Nat

Ids == 1..MaxActions

Controls == UNION {{r[i] : i \in DOMAIN r} : r \in Rows}

ArtifactKinds == {"layers", "metadata", "image", "snapshot", "bundle", "panel-probe", "ocr"}

\* A backend action, on its thread; left: the clicks or key strokes to come.
Jobs ==
    [kind : TimedKinds, path : Nat, count : Nat, left : Nat,
     pc : {"capture", "find", "invoke", "default_action", "set_value", "focus", "aim", "click",
           "select", "delete", "type", "raise", "shoot", "done"},
     place : SUBSET Nat, element : Controls \cup {None}, intended : SUBSET Controls,
     status : {"none", "Completed", "Failed", "Err"}, artifacts : SUBSET ArtifactKinds]

Statuses == {"Completed", "Failed", "TimedOut", "Unsupported"}

\* A request that a session executes; it waits for a capture of the daemon's own in
\* "enrich", "state_capture" and "attach_capture".
Calls ==
    [id : Ids, kind : AllKinds, policy : {"Never", "OnFailure", "Always"}, path : Nat, count : Nat,
     pc : {"enrich", "state", "state_capture", "backend", "attach", "attach_capture", "answer"},
     status : Statuses \cup {"none"}, artifacts : SUBSET ArtifactKinds]

\* What an action did: the things it touched, certainly or perhaps, and how many of its
\* pattern calls, clicks and key strokes were reported to have succeeded.
Things == Controls \cup {"window", "elsewhere"}
Effects == [on : SUBSET Things, pattern : Nat, clicks : Nat, keys : Nat]
NoEffect == [on |-> {}, pattern |-> 0, clicks |-> 0, keys |-> 0]

ASSUME NoneAssumption == None \notin Jobs

ASSUME ThingsAssumption == Controls \cap {"window", "elsewhere"} = {}

VARIABLES
    row, focused,  \* the desktop: the controls in order, who has the keyboard,
    mouse,         \* and the place under the mouse, 0 outside the window
    shifts,
    made,          \* how many requests there have been
    calls,         \* session -> the request it executes, None between requests
    jobs,          \* action id -> the backend's thread, None when there is none
    effects,       \* action id -> what it did
    written,       \* action id -> the kinds of artifacts stored for it
    replies,       \* action id -> the ActionResult sent, None when there is none
    closed,        \* the sessions that ended with an error
    disturbed      \* history: the actions that a change of the desktop by others concerned

desktop == <<row, focused, mouse, shifts>>
vars == <<desktop, made, calls, jobs, effects, written, replies, closed, disturbed>>

-----------------------------------------------------------------------------
(* Elements.                                                               *)

\* A path names an ordinal only among twins; 0 stands for none.
InCapture(path) ==
    IF path = 0 THEN {1} \cap {Len(row)}
    ELSE IF Len(row) > 1 THEN {path} \cap DOMAIN row ELSE {}

\* resolve_element_for_locator: the live children that match, the first without an ordinal.
Live(path) == {row[i] : i \in {IF path = 0 THEN 1 ELSE path} \cap DOMAIN row}

OnScreen == {row[i] : i \in DOMAIN row}

\* Another window in front may cover this one.
UnderMouse ==
    (IF mouse = 0 THEN {} ELSE IF mouse \in DOMAIN row THEN {row[mouse]} ELSE {"window"})
    \cup (IF mouse = 0 \/ focused = "elsewhere" THEN {"elsewhere"} ELSE {})

Running == {id \in Ids : jobs[id] # None /\ jobs[id].pc # "done"}

Disturb(ids) == disturbed' = disturbed \cup ids

\* The actions between taking the focus, or aiming, and the input that relies on it.
\* A click relies on the focus only in that no other window is in front.
RelyOnFocus(thing) ==
    {id \in Running : \/ jobs[id].pc \in {"select", "delete", "type"}
                      \/ jobs[id].pc \in {"aim", "click"} /\ thing = "elsewhere"}
RelyOnMouse == {id \in Running : jobs[id].pc = "click"}

\* The focus goes to a thing; ids: whose doing it is.
FocusMoves(thing, ids) ==
    /\ focused' = thing
    /\ Disturb(IF thing = focused THEN {} ELSE RelyOnFocus(thing) \ ids)

Init ==
    /\ row \in Rows /\ focused = "window" /\ mouse = 0 /\ shifts = 0
    /\ made = 0 /\ calls = [s \in Sessions |-> None] /\ jobs = [id \in Ids |-> None]
    /\ effects = [id \in Ids |-> NoEffect] /\ written = [id \in Ids |-> {}]
    /\ replies = [id \in Ids |-> None] /\ closed = {} /\ disturbed = {}

\* The application and the user move, add and remove controls, take the focus and the mouse.
DesktopShifts ==
    /\ shifts < MaxShifts /\ shifts' = shifts + 1
    /\ \/ row' \in Rows \ {row} /\ Disturb(Running) /\ UNCHANGED <<focused, mouse>>
       \/ /\ \E thing \in {"window", "elsewhere"} \ {focused} : FocusMoves(thing, {})
          /\ UNCHANGED <<row, mouse>>
       \/ mouse # 0 /\ mouse' = 0 /\ Disturb(RelyOnMouse) /\ UNCHANGED <<row, focused>>
    /\ UNCHANGED <<made, calls, jobs, effects, written, replies, closed>>

-----------------------------------------------------------------------------
(* The backend.                                                            *)

Job(kind, path, count) ==
    [kind |-> kind, path |-> path, count |-> count, left |-> 0, pc |-> "capture", place |-> {},
     element |-> None, intended |-> {row[i] : i \in InCapture(path)}, status |-> "none",
     artifacts |-> {}]

Becomes(id, job) == jobs' = [jobs EXCEPT ![id] = job]

GoTo(id, pc) == Becomes(id, [jobs[id] EXCEPT !.pc = pc])

End(id, status) == Becomes(id, [jobs[id] EXCEPT !.pc = "done", !.status = status])

EndWith(id, artifacts) ==
    Becomes(id, [jobs[id] EXCEPT !.pc = "done", !.status = "Completed", !.artifacts = artifacts])

\* A call that reports success has acted, one that reports an error perhaps; both count
\* as touching what they act on.
Acts(id, thing, pattern, clicks, keys) ==
    LET e == effects[id] IN
    effects' = [effects EXCEPT ![id] =
        [on |-> e.on \cup {thing}, pattern |-> e.pattern + pattern, clicks |-> e.clicks + clicks,
         keys |-> e.keys + keys]]
ActsPerhaps(id, things) == effects' = [effects EXCEPT ![id].on = @ \cup things]

daemonVars == <<made, calls, written, replies, closed>>

\* clicks.max(1); invoke always clicks once.
Rounds(job) == IF job.kind = "invoke" \/ job.count = 0 THEN 1 ELSE job.count

\* A click uses a pattern only when it is a single left click.
HasPattern(job) == job.kind \in {"invoke", "set_value"} \/ (job.kind = "click" /\ job.count = 1)

\* What an action does with the target it has found.
AfterCapture(job) ==
    IF HasPattern(job) THEN "find"
    ELSE IF job.kind \in InputKinds THEN "focus"
    ELSE IF job.kind = "focus_window" THEN "raise"
    ELSE "shoot"

\* capture_action_windows and the search for the target; send_keys searches later.
CaptureWindows(id) ==
    LET job == jobs[id] IN
    /\ job.pc = "capture"
    /\ \/ End(id, "Err")
       \/ /\ InCapture(job.path) = {} /\ job.kind # "send_keys"
          /\ End(id, "Failed")
       \/ /\ InCapture(job.path) # {} \/ job.kind = "send_keys"
          /\ Becomes(id, [job EXCEPT !.pc = AfterCapture(job), !.place = InCapture(job.path)])
    /\ UNCHANGED <<desktop, effects, daemonVars, disturbed>>

FindElement(id) ==
    /\ jobs[id].pc = "find"
    /\ \/ End(id, "Err")
       \/ Live(jobs[id].path) = {} /\ GoTo(id, "focus")
       \/ \E c \in Live(jobs[id].path) :
            Becomes(id, [jobs[id] EXCEPT !.element = c,
                            !.pc = IF jobs[id].kind = "set_value" THEN "set_value" ELSE "invoke"])
    /\ UNCHANGED <<desktop, effects, daemonVars, disturbed>>

\* A pattern call on the element reports that it is done.
PatternActs(id) == jobs[id].element \in OnScreen /\ Acts(id, jobs[id].element, 1, 0, 0)

\* It fails; what it has done is not known.
PatternFails(id) == ActsPerhaps(id, {jobs[id].element} \cap OnScreen)

\* Mutant: the click follows although Invoke has succeeded.
MutInvokeGoesOn(id) ==
    /\ jobs[id].pc = "invoke" /\ PatternActs(id) /\ GoTo(id, "focus")
    /\ UNCHANGED <<desktop, daemonVars, disturbed>>

\* try_invoke_semantically: Invoke; when it is not there or fails, DoDefaultAction.
Invoke(id) ==
    /\ jobs[id].pc = "invoke"
    /\ \/ PatternActs(id) /\ End(id, "Completed")
       \/ PatternFails(id) /\ GoTo(id, "default_action")
    /\ UNCHANGED <<desktop, daemonVars, disturbed>>

\* When that is not there or fails too, the focus and a click.
DoDefaultAction(id) ==
    /\ jobs[id].pc = "default_action"
    /\ \/ PatternActs(id) /\ End(id, "Completed")
       \/ PatternFails(id) /\ GoTo(id, "focus")
    /\ UNCHANGED <<desktop, daemonVars, disturbed>>

\* try_set_value_pattern: SetValue, unless it is not there or read only; its error is final.
SetValue(id) ==
    /\ jobs[id].pc = "set_value"
    /\ \/ PatternActs(id) /\ End(id, "Completed")
       \/ PatternFails(id) /\ End(id, "Err")
       \/ GoTo(id, "focus") /\ UNCHANGED effects
    /\ UNCHANGED <<desktop, daemonVars, disturbed>>

AfterFocus(kind) ==
    IF kind \in PointerKinds THEN {"aim"}
    ELSE IF kind = "set_value" THEN {"select", "type"}    \* clear_first or not
    ELSE {"type"}

\* focus_action_target: the element if it is there, else its window; an error may come late.
FocusTarget(id) ==
    LET job == jobs[id] IN
    /\ job.pc = "focus"
    /\ \/ End(id, "Err") /\ UNCHANGED <<focused, disturbed>>
       \/ /\ job.place # {}
          /\ \E thing \in IF Live(job.path) = {} THEN {"window"} ELSE Live(job.path) :
                FocusMoves(thing, {id})
          /\ \/ End(id, "Err")
             \/ \E pc \in AfterFocus(job.kind) :
                  Becomes(id, [job EXCEPT !.pc = pc, !.left = job.count])
    /\ UNCHANGED <<row, mouse, shifts, effects, daemonVars>>

\* click_bounds_center: the mouse goes where the target was when it was captured.
Aim(id) ==
    LET job == jobs[id] IN
    /\ job.pc = "aim"
    /\ \/ End(id, "Err") /\ UNCHANGED <<mouse, disturbed>>
       \/ \E i \in job.place :
            /\ mouse' = i /\ Disturb(IF i = mouse THEN {} ELSE RelyOnMouse)
            /\ Becomes(id, [job EXCEPT !.pc = "click", !.left = Rounds(job)])
    /\ UNCHANGED <<row, focused, shifts, effects, daemonVars>>

\* A round of its loop: press and release hit what is under the mouse by now.
Click(id) ==
    LET job == jobs[id] IN
    /\ job.pc = "click" /\ job.left > 0
    /\ \E thing \in UnderMouse :
        \/ /\ Acts(id, thing, 0, 1, 0) /\ FocusMoves(thing, {id})
           /\ Becomes(id, [job EXCEPT !.left = @ - 1])
        \/ /\ ActsPerhaps(id, {thing}) /\ End(id, "Err")
           /\ FocusMoves(thing, {id}) \/ UNCHANGED <<focused, disturbed>>
    /\ UNCHANGED <<row, mouse, shifts, daemonVars>>

\* Keys go to whatever has the focus: Ctrl+A, Delete, then one stroke after the other.
SendKeys(id) ==
    LET job == jobs[id] IN
    /\ \/ /\ job.pc \in {"select", "delete"} /\ Acts(id, focused, 0, 0, 0)
          /\ GoTo(id, IF job.pc = "select" THEN "delete" ELSE "type")
       \/ /\ job.pc = "type" /\ job.left > 0 /\ Acts(id, focused, 0, 0, 1)
          /\ Becomes(id, [job EXCEPT !.left = @ - 1])
       \/ /\ job.pc \in {"select", "delete", "type"} /\ ActsPerhaps(id, {focused})
          /\ End(id, "Err")
    /\ UNCHANGED <<desktop, daemonVars, disturbed>>

\* All clicks or key strokes are made.
InputSent(id) ==
    /\ jobs[id].pc \in {"click", "type"} /\ jobs[id].left = 0
    /\ End(id, "Completed")
    /\ UNCHANGED <<desktop, effects, daemonVars, disturbed>>

\* focus_action_window
RaiseWindow(id) ==
    /\ jobs[id].pc = "raise"
    /\ \/ End(id, "Failed") /\ UNCHANGED <<focused, disturbed>>
       \/ End(id, "Completed") /\ FocusMoves("window", {id})
    /\ UNCHANGED <<row, mouse, shifts, effects, daemonVars>>

\* capture_screen_region, and the layers of a panel probe with their metadata.
Shoot(id) ==
    /\ jobs[id].pc = "shoot"
    /\ \/ End(id, "Err")
       \/ EndWith(id, IF jobs[id].kind = "panel_probe" THEN {"layers", "metadata"} ELSE {"image"})
    /\ UNCHANGED <<desktop, effects, daemonVars, disturbed>>

BackendStep(id) ==
    /\ jobs[id] # None
    /\ \/ CaptureWindows(id) \/ FindElement(id) \/ Invoke(id) \/ DoDefaultAction(id)
       \/ SetValue(id) \/ FocusTarget(id) \/ Aim(id) \/ Click(id) \/ SendKeys(id)
       \/ InputSent(id) \/ RaiseWindow(id) \/ Shoot(id)

-----------------------------------------------------------------------------
(* The daemon.                                                             *)

backendVars == <<effects, disturbed>>

Call(id, request) ==
    [id |-> id, kind |-> request.kind, policy |-> request.policy, path |-> request.path,
     count |-> request.count, pc |-> "enrich", status |-> "none", artifacts |-> {}]

StartJob(call, kind) == jobs' = [jobs EXCEPT ![call.id] = Job(kind, call.path, call.count)]

\* The executor of the request's kind; the target is a path, whatever is there now.
Dispatch(s, call) ==
    IF call.kind \in StateKinds
      THEN calls' = [calls EXCEPT ![s] = [call EXCEPT !.pc = "state"]] /\ UNCHANGED jobs
      ELSE /\ calls' = [calls EXCEPT ![s] = [call EXCEPT !.pc = "backend"]]
           /\ StartJob(call, IF call.kind = "ocr" THEN "capture_region" ELSE call.kind)

\* execute_action, up to its first wait: the snapshot that enrich_action_target looks at
\* comes from the cache, or has to be captured first.
Request(s) ==
    /\ calls[s] = None /\ s \notin closed /\ made < MaxActions
    /\ made' = made + 1
    /\ \E request \in Requests :
         LET call == Call(made', request) IN
         \/ Dispatch(s, call)
         \/ calls' = [calls EXCEPT ![s] = call] /\ UNCHANGED jobs
    /\ UNCHANGED <<desktop, backendVars, written, replies, closed>>

\* The capture returns; when it has failed the target stays as it is.
EnrichCaptured(s) ==
    /\ calls[s].pc = "enrich"
    /\ Dispatch(s, calls[s])
    /\ UNCHANGED <<desktop, backendVars, made, written, replies, closed>>

Proceeds(s, pc, status, artifacts) ==
    /\ calls' = [calls EXCEPT ![s].pc = pc, ![s].status = status, ![s].artifacts = artifacts]
    /\ UNCHANGED closed

\* `?` in process_session: no answer, and no further request.
EndSession(s) ==
    /\ calls' = [calls EXCEPT ![s] = None]
    /\ closed' = closed \cup {s}

Write(id, kinds) == written' = [written EXCEPT ![id] = @ \cup kinds]

\* write_bytes one after the other; a failure ends the session and keeps the rest.
Store(s, kinds, pc, status) ==
    \/ /\ Write(calls[s].id, kinds)
       /\ Proceeds(s, pc, status, calls[s].artifacts \cup kinds)
    \/ /\ \E some \in SUBSET kinds : some # kinds /\ Write(calls[s].id, some)
       /\ EndSession(s)

\* best_effort_snapshot has no usable snapshot in the cache, and asks the backend.
NeedsCapture(s, pc) ==
    /\ calls' = [calls EXCEPT ![s].pc = pc]
    /\ UNCHANGED <<jobs, written, closed>>

\* The part of the snapshot that was asked for; a target that is not there is an error.
\* A bundle then captures its target, if it has bounds.
Serve(s) ==
    \/ EndSession(s) /\ UNCHANGED <<written, jobs>>
    \/ calls[s].kind = "read" /\ Store(s, {"snapshot"}, "answer", "Completed") /\ UNCHANGED jobs
    \/ /\ calls[s].kind = "bundle"
       /\ \/ Store(s, {"bundle"}, "answer", "Completed") /\ UNCHANGED jobs
          \/ Store(s, {"bundle"}, "backend", "none")
             /\ IF closed' = closed THEN StartJob(calls[s], "capture_region") ELSE UNCHANGED jobs

\* Mutant: a bundle waits for a capture nobody has asked the backend for.
MutExecuteOnStateNoCapture(s) ==
    /\ calls[s].pc = "state"
    /\ Store(s, {"bundle"}, IF calls[s].kind = "read" THEN "answer" ELSE "backend", "Completed")
    /\ UNCHANGED <<desktop, backendVars, made, jobs, replies>>

ExecuteOnState(s) ==
    /\ calls[s].pc = "state"
    /\ Serve(s) \/ NeedsCapture(s, "state_capture")
    /\ UNCHANGED <<desktop, backendVars, made, replies>>

\* A capture that fails ends the session, which Serve includes.
StateCaptured(s) ==
    /\ calls[s].pc = "state_capture"
    /\ Serve(s)
    /\ UNCHANGED <<desktop, backendVars, made, replies>>

Result(s) == jobs[calls[s].id]

\* The backend's result is there; `?` ends the session when it is an error.
HasResult(s, kinds) == calls[s].pc = "backend" /\ calls[s].kind \in kinds /\ Result(s).pc = "done"

\* Mutant: a failed action is answered before its thread is through.
MutActionAnswersEarly(s) ==
    /\ calls[s].pc = "backend"
    /\ Proceeds(s, "answer", "Failed", {}) /\ UNCHANGED written
    /\ UNCHANGED <<desktop, backendVars, made, jobs, replies>>

\* execute_backend_action
ActionAnswers(s) ==
    /\ HasResult(s, DirectKinds)
    /\ IF Result(s).status = "Err" THEN EndSession(s) /\ UNCHANGED written
       ELSE Store(s, Result(s).artifacts, "attach", Result(s).status)
    /\ UNCHANGED <<desktop, backendVars, made, jobs, replies>>

\* execute_panel_probe; a result without metadata is an error too.
ProbeAnswers(s) ==
    /\ HasResult(s, {"panel_probe"})
    /\ IF Result(s).status = "Err" \/ "metadata" \notin Result(s).artifacts
         THEN EndSession(s) /\ UNCHANGED written
         ELSE Store(s, Result(s).artifacts \cup {"panel-probe"}, "answer", Result(s).status)
    /\ UNCHANGED <<desktop, backendVars, made, jobs, replies>>

\* capture_diagnostic_target_artifacts; without a picture the bundle is complete as well.
BundleAnswers(s) ==
    /\ HasResult(s, {"bundle"})
    /\ IF Result(s).status = "Err" THEN EndSession(s) /\ UNCHANGED written
       ELSE Store(s, Result(s).artifacts, "answer", "Completed")
    /\ UNCHANGED <<desktop, backendVars, made, jobs, replies>>

\* execute_unsupported_ocr; the screenshot may be missing.
OcrAnswers(s) ==
    /\ HasResult(s, {"ocr"})
    /\ Store(s, Result(s).artifacts \cup {"ocr"}, "answer", "Unsupported")
    /\ UNCHANGED <<desktop, backendVars, made, jobs, replies>>

\* The thread is left alone, and its result dropped.
TimesOut(s, kinds, pc) ==
    /\ calls[s].pc = "backend" /\ calls[s].kind \in kinds /\ Result(s).pc # "done"
    /\ Proceeds(s, pc, "TimedOut", {})
    /\ UNCHANGED <<desktop, backendVars, made, jobs, written, replies>>

\* Mutant: only input is waited for with a timeout, captures and the like without.
MutActionTimesOutInputOnly(s) == TimesOut(s, InputKinds, "attach")

\* execute_backend_action
ActionTimesOut(s) == TimesOut(s, DirectKinds, "attach")

\* execute_panel_probe
ProbeTimesOut(s) == TimesOut(s, {"panel_probe"}, "answer")

ShouldAttach(call) ==
    /\ call.kind # "capture_region"
    /\ \/ call.policy = "Always"
       \/ call.policy = "OnFailure" /\ call.status # "Completed"

WithoutSnapshot(s) ==
    Proceeds(s, "answer", calls[s].status, calls[s].artifacts) /\ UNCHANGED <<written, jobs>>

\* A failed write is an error.
WithSnapshot(s) == Store(s, {"snapshot"}, "answer", calls[s].status) /\ UNCHANGED jobs

\* maybe_attach_snapshot_artifact: nothing to attach, or a snapshot from the cache, or
\* one that has to be captured first.
AttachSnapshot(s) ==
    /\ calls[s].pc = "attach"
    /\ IF ShouldAttach(calls[s]) THEN WithSnapshot(s) \/ NeedsCapture(s, "attach_capture")
       ELSE WithoutSnapshot(s)
    /\ UNCHANGED <<desktop, backendVars, made, replies>>

\* The capture returns; when it has failed there is no snapshot, which is no error.
AttachCaptured(s) ==
    /\ calls[s].pc = "attach_capture"
    /\ WithSnapshot(s) \/ WithoutSnapshot(s)
    /\ UNCHANGED <<desktop, backendVars, made, replies>>

\* record_action_result and send_server_message.
Answer(s) ==
    /\ calls[s].pc = "answer"
    /\ replies' = [replies EXCEPT ![calls[s].id] =
            [status |-> calls[s].status, artifacts |-> calls[s].artifacts]]
    /\ calls' = [calls EXCEPT ![s] = None]
    /\ UNCHANGED <<desktop, backendVars, made, jobs, written, closed>>

DaemonStep(s) ==
    /\ calls[s] # None
    /\ \/ ExecuteOnState(s) \/ ActionAnswers(s) \/ ProbeAnswers(s) \/ BundleAnswers(s)
       \/ OcrAnswers(s) \/ ActionTimesOut(s) \/ ProbeTimesOut(s) \/ AttachSnapshot(s) \/ Answer(s)

CaptureReturns(s) ==
    /\ calls[s] # None
    /\ EnrichCaptured(s) \/ StateCaptured(s) \/ AttachCaptured(s)

Next ==
    \/ DesktopShifts
    \/ \E id \in Ids : BackendStep(id)
    \/ \E s \in Sessions : Request(s) \/ DaemonStep(s) \/ CaptureReturns(s)

Spec == Init /\ [][Next]_vars

\* The runtime polls each session and its timer; of the backend, which may hang in a
\* call of the operating system, nothing is assumed: neither of its threads nor of the
\* captures the daemon takes for itself.
FairSpec == Spec /\ \A s \in Sessions : WF_vars(DaemonStep(s))

-----------------------------------------------------------------------------
(* Properties.                                                             *)

\* Each variable has its type; a session executes one request at a time, and only
\* actions whose result the backend owes are waited for.
TypeOK ==
    /\ row \in Rows /\ focused \in Things /\ mouse \in Nat
    /\ shifts \in 0..MaxShifts /\ made \in 0..MaxActions
    /\ calls \in [Sessions -> Calls \cup {None}]
    /\ jobs \in [Ids -> Jobs \cup {None}]
    /\ effects \in [Ids -> Effects]
    /\ written \in [Ids -> SUBSET ArtifactKinds]
    /\ replies \in [Ids -> [status : Statuses, artifacts : SUBSET ArtifactKinds] \cup {None}]
    /\ closed \subseteq Sessions /\ disturbed \subseteq Ids
    /\ \A s \in Sessions : calls[s] # None =>
        /\ [kind |-> calls[s].kind, policy |-> calls[s].policy, path |-> calls[s].path,
            count |-> calls[s].count] \in Requests
        /\ calls[s].id <= made /\ replies[calls[s].id] = None
        /\ calls[s].pc = "backend" => jobs[calls[s].id] # None
        /\ calls[s].pc \in {"attach", "attach_capture", "answer"} => calls[s].status \in Statuses
        /\ \A t \in Sessions \ {s} : calls[t] # None => calls[t].id # calls[s].id

\* What an action does that goes through: one pattern call, or else all the clicks or
\* key strokes it was asked for, and nothing else.
AsAsked(job, effect) ==
    LET pattern == HasPattern(job) /\ effect.pattern = 1 /\ effect.clicks = 0 /\ effect.keys = 0
        input(clicks, keys) == effect.pattern = 0 /\ effect.clicks = clicks /\ effect.keys = keys
    IN  /\ job.kind \in PointerKinds => pattern \/ input(Rounds(job), 0)
        /\ job.kind = "set_value" => pattern \/ input(0, job.count)
        /\ job.kind = "send_keys" => input(0, job.count)
        /\ job.kind \notin InputKinds => effect = NoEffect

\* The calls that an action makes with success are never more than that, and a pattern
\* call is never followed by input.
NoMoreThanAsked(job, effect) ==
    /\ effect.pattern <= 1 /\ effect.clicks <= Rounds(job) /\ effect.keys <= job.count
    /\ effect.pattern = 1 => effect.clicks = 0 /\ effect.keys = 0
    /\ job.kind \notin PointerKinds => effect.clicks = 0
    /\ job.kind \notin {"set_value", "send_keys"} => effect.keys = 0

(***************************************************************************)
(* No action, whatever becomes of it and its call, has more effect by the  *)
(* calls it knows to have succeeded than it was asked for, and one that    *)
(* reports success has had that effect exactly.  If in addition nobody     *)
(* moved the controls while it ran, took the focus while it typed, the     *)
(* mouse while it clicked or another window to the front, everything it    *)
(* has touched, with calls that failed on the way too, is its target.      *)
(***************************************************************************)
ActsOnTarget ==
    \A id \in Ids : jobs[id] # None =>
        /\ NoMoreThanAsked(jobs[id], effects[id])
        /\ replies[id] # None => (replies[id].status = "Completed" =>
             /\ AsAsked(jobs[id], effects[id])
             /\ id \notin disturbed => effects[id].on \subseteq jobs[id].intended)

\* An answer other than "timed out" is final: the action's thread is through, a failed
\* action has had no effect, and the answer lists exactly the artifacts the action has
\* stored; what an abandoned thread produces is never stored.
AnswersAreFinal ==
    \A id \in Ids : replies[id] # None =>
        /\ replies[id].status # "TimedOut" /\ jobs[id] # None => jobs[id].pc = "done"
        /\ replies[id].status = "Failed" => effects[id] = NoEffect
        /\ written[id] = replies[id].artifacts

UnderTimeout(s) ==
    calls[s] # None /\ calls[s].kind \in TimedKinds /\ calls[s].pc \notin {"enrich", "attach_capture"}

(***************************************************************************)
(* A request that is under a timeout ends, with an answer or with its      *)
(* session, although its thread may hang and other sessions act - unless   *)
(* the daemon waits for a capture of its own, to complete the target or to *)
(* attach a snapshot: these have no timeout.  (A session is without a      *)
(* request between two.)                                                   *)
(***************************************************************************)
TimedActionsEnd == \A s \in Sessions : []<>~UnderTimeout(s)

=============================================================================
