------------------------ MODULE ActionExecutionProofs ------------------------
(***************************************************************************)
(* Proofs about ActionExecution, for any number of sessions and requests   *)
(* on any window.                                                          *)
(***************************************************************************)
EXTENDS ActionExecution, TLAPS

-----------------------------------------------------------------------------
(* The inductive invariant.                                                *)

PatternPcs == {"invoke", "default_action", "set_value"}
TypingPcs == {"select", "delete", "type"}

\* Which actions come to which step.
AllowedAt(job) ==
    /\ job.pc \in {"find"} \cup PatternPcs => HasPattern(job) /\ job.kind \in InputKinds
    /\ job.pc = "focus" => job.kind \in InputKinds
    /\ job.pc \in {"aim", "click"} => job.kind \in PointerKinds
    /\ job.pc \in {"select", "delete"} => job.kind = "set_value"
    /\ job.pc = "type" => job.kind \in {"set_value", "send_keys"}
    /\ job.pc = "raise" => job.kind = "focus_window"
    /\ job.pc = "shoot" => job.kind \in {"capture_region", "panel_probe"}
    /\ job.pc = "done" <=> job.status # "none"

Counts(effect, pattern, clicks, keys) ==
    effect.pattern = pattern /\ effect.clicks = clicks /\ effect.keys = keys

\* What an action has done with success, and what is left, is what it was asked for.
SoFar(job, effect) ==
    /\ AllowedAt(job)
    /\ job.pc \in {"capture", "find", "raise", "shoot"} => effect = NoEffect
    /\ job.pc \in PatternPcs \cup {"focus", "aim"} => Counts(effect, 0, 0, 0)
    /\ job.pc = "click" => Counts(effect, 0, Rounds(job) - job.left, 0)
    /\ job.pc \in TypingPcs => Counts(effect, 0, 0, job.count - job.left)
    /\ job.status = "Completed" => AsAsked(job, effect)
    /\ job.status = "Failed" \/ job.kind \notin InputKinds => effect = NoEffect
    /\ NoMoreThanAsked(job, effect)

\* What it found, in the places where its path is, is still there, and it has touched
\* nothing else.
Aimed(job, on, where, target, focus, at) ==
    /\ on \subseteq job.intended
    /\ job.pc # "done" => job.intended = target
    /\ job.pc \notin {"capture", "done"} => job.place = where
    /\ job.pc \notin {"capture", "focus", "raise", "shoot", "done"} => where # {}
    /\ job.pc \in PatternPcs => job.element \in target
    /\ job.pc \in {"aim", "click"} => focus # "elsewhere"
    /\ job.pc = "click" => at \in where
    /\ job.pc \in TypingPcs => focus \in target

Target(path) == {row[i] : i \in InCapture(path)}

OnTarget(id) ==
    id \notin disturbed =>
        Aimed(jobs[id], effects[id].on, InCapture(jobs[id].path), Target(jobs[id].path), focused, mouse)

\* An answer agrees with what the thread has done.
Settled(id, status) ==
    /\ status # "TimedOut" /\ jobs[id] # None => jobs[id].pc = "done"
    /\ status = "Failed" => effects[id] = NoEffect
    /\ status = "Completed" /\ jobs[id] # None =>
         jobs[id].status = "Completed" \/ jobs[id].kind \notin InputKinds

\* What a session knows of the request it executes.
CallOK(s) ==
    /\ written[calls[s].id] = calls[s].artifacts
    /\ calls[s].pc \in {"enrich", "state", "state_capture"} => jobs[calls[s].id] = None
    /\ calls[s].pc = "enrich" => calls[s].artifacts = {}
    /\ calls[s].pc \in {"state", "state_capture"} => calls[s].kind \in StateKinds
    /\ calls[s].pc = "backend" =>
         /\ calls[s].kind \in TimedKinds => calls[s].artifacts = {}
         /\ calls[s].kind \in DirectKinds => jobs[calls[s].id].kind = calls[s].kind
         /\ calls[s].kind \notin DirectKinds => jobs[calls[s].id].kind \notin InputKinds
    /\ calls[s].pc \in {"attach", "attach_capture", "answer"} => Settled(calls[s].id, calls[s].status)

ReplyOK(id) == Settled(id, replies[id].status) /\ written[id] = replies[id].artifacts

\* Nothing is there before its request.
Unasked(id) ==
    jobs[id] = None /\ replies[id] = None /\ written[id] = {} /\ effects[id] = NoEffect

JobsInv ==
    \A id \in Ids :
        /\ jobs[id] # None => SoFar(jobs[id], effects[id]) /\ OnTarget(id)
        /\ jobs[id] = None => effects[id] = NoEffect

AnswersInv ==
    /\ \A s \in Sessions : calls[s] # None => CallOK(s)
    /\ \A id \in Ids : replies[id] # None => ReplyOK(id)
    /\ \A id \in Ids : id > made => Unasked(id)

ActionInv == TypeOK /\ JobsInv /\ AnswersInv

-----------------------------------------------------------------------------
(* What is on the screen.                                                  *)

\* The controls that a path denotes are controls.
LEMMA OnWindow ==
    ASSUME row \in Rows, NEW path \in Nat
    PROVE  /\ OnScreen \subseteq Controls
           /\ InCapture(path) \subseteq DOMAIN row /\ InCapture(path) \subseteq Nat
           /\ InCapture(path) \subseteq Nat \ {0}
           /\ Live(path) \subseteq OnScreen
           /\ Target(path) \subseteq Controls
  <1>1. Len(row) \in Nat /\ DOMAIN row = 1 .. Len(row)
    BY RowsAssumption
  <1>2. OnScreen \subseteq Controls
    BY DEF OnScreen, Controls
  <1>3. InCapture(path) \subseteq DOMAIN row /\ InCapture(path) \subseteq Nat \ {0}
    BY <1>1 DEF InCapture
  <1>4. Live(path) \subseteq OnScreen
    BY DEF Live, OnScreen
  <1>5. Target(path) \subseteq Controls
    BY <1>3 DEF Target, Controls
  <1> QED BY <1>2, <1>3, <1>4, <1>5

\* Where the target was in the capture there is one control, the one a later search finds.
LEMMA LiveIsInCapture ==
    ASSUME row \in Rows, NEW path \in Nat, InCapture(path) # {}
    PROVE  Live(path) = Target(path) /\ Target(path) # {}
  <1>1. Len(row) \in Nat /\ DOMAIN row = 1 .. Len(row)
    BY RowsAssumption
  <1>2. CASE path = 0
    <2>1. InCapture(path) = {1} /\ 1 \in DOMAIN row
      BY <1>1, <1>2 DEF InCapture
    <2>2. Live(path) = {row[1]}
      BY <1>2, <2>1 DEF Live
    <2> QED BY <2>1, <2>2 DEF Target
  <1>3. CASE path # 0
    <2>1. InCapture(path) = {path} /\ path \in DOMAIN row
      BY <1>1, <1>3 DEF InCapture
    <2>2. Live(path) = {row[path]}
      BY <1>3, <2>1 DEF Live
    <2> QED BY <2>1, <2>2 DEF Target
  <1> QED BY <1>2, <1>3

\* While no other window is in front, the mouse over a place of a target hits the target.
LEMMA MouseHits ==
    ASSUME row \in Rows, NEW path \in Nat, mouse \in InCapture(path), focused # "elsewhere"
    PROVE  UnderMouse \subseteq Target(path)
  <1>1. mouse \in DOMAIN row /\ mouse # 0
    BY OnWindow
  <1>2. UnderMouse = {row[mouse]}
    BY <1>1 DEF UnderMouse
  <1> QED BY <1>2 DEF Target

LEMMA MouseHitsThings ==
    ASSUME row \in Rows
    PROVE  UnderMouse \subseteq Things
  BY DEF UnderMouse, Things, Controls

-----------------------------------------------------------------------------
(* What the steps of a thread change.                                      *)

Like(new, job) ==
    /\ new \in Jobs
    /\ new.kind = job.kind /\ new.path = job.path /\ new.count = job.count
    /\ new.intended = job.intended

Moved(id) ==
    /\ jobs' \in [Ids -> Jobs \cup {None}] /\ jobs'[id] # None
    /\ Like(jobs'[id], jobs[id])
    /\ \A k \in Ids \ {id} : jobs'[k] = jobs[k]

Affected(id) ==
    /\ effects' \in [Ids -> Effects]
    /\ \A k \in Ids \ {id} : effects'[k] = effects[k]

\* Others are disturbed by what they rely on.
Frame(id) ==
    /\ UNCHANGED <<row, shifts, made, calls, written, replies, closed>>
    /\ disturbed \subseteq disturbed' /\ disturbed' \subseteq disturbed \cup (Running \ {id})
    /\ focused' \in Things /\ mouse' \in Nat
    /\ focused' # focused => RelyOnFocus(focused') \ {id} \subseteq disturbed'
    /\ mouse' # mouse => RelyOnMouse \ {id} \subseteq disturbed'

\* What is known of an action before a step of its thread, and after it.
Ready(id) ==
    /\ TypeOK /\ jobs[id] \in Jobs /\ jobs[id].pc # "done"
    /\ SoFar(jobs[id], effects[id]) /\ OnTarget(id)

Kept(id) ==
    /\ Moved(id) /\ Affected(id) /\ Frame(id)
    /\ SoFar(jobs'[id], effects'[id])
    /\ id \notin disturbed =>
        Aimed(jobs'[id], effects'[id].on, InCapture(jobs[id].path), Target(jobs[id].path),
              focused', mouse')

LEMMA BecomesMoves ==
    ASSUME TypeOK, NEW id \in Ids, NEW new, Like(new, jobs[id]), Becomes(id, new)
    PROVE  Moved(id) /\ jobs'[id] = new
  <1>1. new \in Jobs /\ new # None
    BY NoneAssumption DEF Like
  <1> QED BY <1>1 DEF TypeOK, Becomes, Moved

LEMMA GoToMoves ==
    ASSUME TypeOK, NEW id \in Ids, jobs[id] \in Jobs, NEW pc, GoTo(id, pc),
           pc \in {"focus", "default_action", "delete", "type"}
    PROVE  /\ Moved(id) /\ jobs'[id].pc = pc /\ jobs'[id].status = jobs[id].status
           /\ jobs'[id].place = jobs[id].place /\ jobs'[id].element = jobs[id].element
           /\ jobs'[id].left = jobs[id].left
  <1> DEFINE new == [jobs[id] EXCEPT !.pc = pc]
  <1>1. Like(new, jobs[id])
    BY DEF Like, Jobs
  <1>2. Becomes(id, new)
    BY DEF GoTo
  <1>3. /\ new.pc = pc /\ new.status = jobs[id].status /\ new.left = jobs[id].left
        /\ new.place = jobs[id].place /\ new.element = jobs[id].element
    BY DEF Jobs
  <1> HIDE DEF new
  <1> QED BY <1>1, <1>2, <1>3, BecomesMoves

LEMMA EndMoves ==
    ASSUME TypeOK, NEW id \in Ids, jobs[id] \in Jobs, NEW status \in {"Completed", "Failed", "Err"},
           End(id, status)
    PROVE  Moved(id) /\ jobs'[id].pc = "done" /\ jobs'[id].status = status
  <1> DEFINE new == [jobs[id] EXCEPT !.pc = "done", !.status = status]
  <1>1. Like(new, jobs[id])
    BY DEF Like, Jobs
  <1>2. Becomes(id, new)
    BY DEF End
  <1>3. new.pc = "done" /\ new.status = status
    BY DEF Jobs
  <1> HIDE DEF new
  <1> QED BY <1>1, <1>2, <1>3, BecomesMoves

LEMMA EndWithMoves ==
    ASSUME TypeOK, NEW id \in Ids, jobs[id] \in Jobs, NEW artifacts \in SUBSET ArtifactKinds,
           EndWith(id, artifacts)
    PROVE  Moved(id) /\ jobs'[id].pc = "done" /\ jobs'[id].status = "Completed"
  <1> DEFINE new == [jobs[id] EXCEPT !.pc = "done", !.status = "Completed", !.artifacts = artifacts]
  <1>1. Like(new, jobs[id])
    BY DEF Like, Jobs
  <1>2. Becomes(id, new)
    BY DEF EndWith
  <1>3. new.pc = "done" /\ new.status = "Completed"
    BY DEF Jobs
  <1> HIDE DEF new
  <1> QED BY <1>1, <1>2, <1>3, BecomesMoves

LEMMA ActsAffect ==
    ASSUME TypeOK, NEW id \in Ids, NEW thing \in Things,
           NEW pattern \in Nat, NEW clicks \in Nat, NEW keys \in Nat,
           Acts(id, thing, pattern, clicks, keys)
    PROVE  /\ Affected(id)
           /\ effects'[id].on = effects[id].on \cup {thing}
           /\ Counts(effects'[id], effects[id].pattern + pattern, effects[id].clicks + clicks,
                     effects[id].keys + keys)
  <1> DEFINE e == effects[id]
             new == [on |-> e.on \cup {thing}, pattern |-> e.pattern + pattern,
                     clicks |-> e.clicks + clicks, keys |-> e.keys + keys]
  <1>1. e \in Effects /\ effects \in [Ids -> Effects]
    BY DEF TypeOK
  <1>2. new \in Effects
    BY <1>1 DEF Effects
  <1>3. effects' = [effects EXCEPT ![id] = new]
    BY DEF Acts
  <1>4. /\ new.on = e.on \cup {thing} /\ new.pattern = e.pattern + pattern
        /\ new.clicks = e.clicks + clicks /\ new.keys = e.keys + keys
    OBVIOUS
  <1> HIDE DEF new
  <1>5. effects'[id] = new /\ Affected(id)
    BY <1>1, <1>2, <1>3 DEF Affected
  <1> QED BY <1>4, <1>5 DEF Counts

LEMMA PerhapsAffects ==
    ASSUME TypeOK, NEW id \in Ids, NEW things \in SUBSET Things, ActsPerhaps(id, things)
    PROVE  /\ Affected(id)
           /\ effects'[id].on = effects[id].on \cup things
           /\ Counts(effects'[id], effects[id].pattern, effects[id].clicks, effects[id].keys)
  <1> DEFINE e   == effects[id]
             new == [e EXCEPT !.on = @ \cup things]
  <1>1. e \in Effects /\ effects \in [Ids -> Effects]
    BY DEF TypeOK
  <1>2. new \in Effects
    BY <1>1 DEF Effects
  <1>3. effects' = [effects EXCEPT ![id] = new]
    BY DEF ActsPerhaps
  <1>4. /\ new.on = e.on \cup things /\ new.pattern = e.pattern /\ new.clicks = e.clicks
        /\ new.keys = e.keys
    BY <1>1 DEF Effects
  <1> HIDE DEF new
  <1>5. effects'[id] = new /\ Affected(id)
    BY <1>1, <1>2, <1>3 DEF Affected
  <1> QED BY <1>4, <1>5 DEF Counts

LEMMA EffectsStay ==
    ASSUME TypeOK, NEW id \in Ids, UNCHANGED effects
    PROVE  Affected(id) /\ effects'[id] = effects[id]
  BY DEF TypeOK, Affected

\* Nobody is concerned by a step that leaves the desktop alone.
LEMMA DesktopStays ==
    ASSUME TypeOK, NEW id \in Ids, UNCHANGED <<desktop, daemonVars, disturbed>>
    PROVE  Frame(id) /\ focused' = focused /\ mouse' = mouse
  BY DEF TypeOK, Frame, desktop, daemonVars

LEMMA FocusFrame ==
    ASSUME TypeOK, NEW id \in Ids, NEW thing \in Things, FocusMoves(thing, {id}),
           UNCHANGED <<row, mouse, shifts, daemonVars>>
    PROVE  Frame(id) /\ focused' = thing /\ mouse' = mouse
  <1>1. focused' = thing /\ mouse' = mouse /\ mouse \in Nat
    BY DEF FocusMoves, TypeOK
  <1>2. disturbed' = disturbed \cup (IF thing = focused THEN {} ELSE RelyOnFocus(thing) \ {id})
    BY DEF FocusMoves, Disturb
  <1>3. RelyOnFocus(thing) \subseteq Running
    BY DEF RelyOnFocus
  <1> QED BY <1>1, <1>2, <1>3 DEF Frame, daemonVars

\* The counts of an effect, as numbers.
LEMMA EffectTypes ==
    ASSUME TypeOK, NEW id \in Ids
    PROVE  /\ effects[id] \in Effects /\ effects[id].on \subseteq Things
           /\ effects[id].pattern \in Nat /\ effects[id].clicks \in Nat /\ effects[id].keys \in Nat
  BY DEF TypeOK, Effects

LEMMA RoundsPositive ==
    ASSUME NEW job, job.count \in Nat
    PROVE  Rounds(job) \in Nat /\ Rounds(job) > 0
  BY DEF Rounds

\* A job that is like another one is asked for the same.
LEMMA LikeAsked ==
    ASSUME NEW new, NEW job, Like(new, job)
    PROVE  /\ Rounds(new) = Rounds(job) /\ (HasPattern(new) <=> HasPattern(job))
           /\ \A e : NoMoreThanAsked(new, e) <=> NoMoreThanAsked(job, e)
           /\ \A e : AsAsked(new, e) <=> AsAsked(job, e)
  <1>1. Rounds(new) = Rounds(job) /\ (HasPattern(new) <=> HasPattern(job))
    BY DEF Like, Rounds, HasPattern
  <1>2. \A e : NoMoreThanAsked(new, e) <=> NoMoreThanAsked(job, e)
    BY <1>1 DEF Like, NoMoreThanAsked
  <1>3. \A e : AsAsked(new, e) <=> AsAsked(job, e)
    BY <1>1 DEF Like, AsAsked
  <1> QED BY <1>1, <1>2, <1>3

\* An error ends the action with what it has done so far, and perhaps a little more.
LEMMA ErrKept ==
    ASSUME NEW id \in Ids, Ready(id), Frame(id), End(id, "Err"), Affected(id),
           Counts(effects'[id], effects[id].pattern, effects[id].clicks, effects[id].keys),
           jobs[id].kind \notin InputKinds => effects'[id] = effects[id],
           id \notin disturbed => effects'[id].on \subseteq jobs[id].intended
    PROVE  Kept(id)
  <1> DEFINE job == jobs[id]
             new == jobs'[id]
  <1>1. Moved(id) /\ new.pc = "done" /\ new.status = "Err"
    BY EndMoves DEF Ready
  <1>2. Like(new, job)
    BY <1>1 DEF Moved
  <1>3. SoFar(new, effects'[id])
    <2>1. SoFar(job, effects[id])
      BY DEF Ready
    <2>2. NoMoreThanAsked(new, effects'[id])
      <3>1. NoMoreThanAsked(job, effects[id])
        BY <2>1 DEF SoFar
      <3>2. NoMoreThanAsked(job, effects'[id])
        BY <3>1 DEF NoMoreThanAsked, Counts
      <3> QED BY <1>2, <3>2, LikeAsked
    <2>3. new.kind \notin InputKinds => effects'[id] = NoEffect
      BY <1>2, <2>1 DEF SoFar, Like
    <2> QED BY <1>1, <2>2, <2>3 DEF SoFar, AllowedAt, PatternPcs, TypingPcs
  <1>4. id \notin disturbed =>
          Aimed(new, effects'[id].on, InCapture(job.path), Target(job.path), focused', mouse')
    BY <1>1, <1>2 DEF Aimed, Like, PatternPcs, TypingPcs
  <1> QED BY <1>1, <1>3, <1>4 DEF Kept

\* So far the action has only touched its target.
LEMMA OnlyTarget ==
    ASSUME NEW id \in Ids, Ready(id), id \notin disturbed
    PROVE  /\ effects[id].on \subseteq jobs[id].intended
           /\ jobs[id].intended = Target(jobs[id].path)
           /\ Aimed(jobs[id], effects[id].on, InCapture(jobs[id].path), Target(jobs[id].path),
                    focused, mouse)
  BY DEF Ready, OnTarget, Aimed

-----------------------------------------------------------------------------
(* The backend's steps, one by one.                                        *)

LEMMA CaptureWindowsKept ==
    ASSUME NEW id \in Ids, Ready(id), CaptureWindows(id)
    PROVE  Kept(id)
  <1> DEFINE job == jobs[id]
             new == jobs'[id]
             where == InCapture(job.path)
  <1>1. /\ TypeOK /\ job \in Jobs /\ job.pc = "capture" /\ job.path \in Nat /\ row \in Rows
        /\ UNCHANGED <<desktop, effects, daemonVars, disturbed>>
    BY DEF Ready, CaptureWindows, Jobs, TypeOK
  <1>2. Frame(id) /\ Affected(id) /\ effects'[id] = effects[id]
    BY <1>1, DesktopStays, EffectsStay
  <1>3. effects[id] = NoEffect /\ SoFar(job, effects[id]) /\ job.status = "none"
    BY <1>1 DEF Ready, SoFar, AllowedAt
  <1>4. CASE End(id, "Err")
    BY <1>2, <1>4, OnlyTarget, ErrKept DEF Counts
  <1>5. CASE End(id, "Failed")
    <2>1. Moved(id) /\ Like(new, job) /\ new.pc = "done" /\ new.status = "Failed"
      BY <1>1, <1>5, EndMoves DEF Moved
    <2>2. NoMoreThanAsked(new, effects[id])
      BY <1>3, <2>1, LikeAsked DEF SoFar
    <2>3. SoFar(new, effects'[id])
      BY <1>2, <1>3, <2>1, <2>2 DEF SoFar, AllowedAt, PatternPcs, TypingPcs
    <2>4. effects'[id].on = {}
      BY <1>2, <1>3 DEF NoEffect
    <2> QED BY <1>2, <2>1, <2>3, <2>4 DEF Kept, Aimed, PatternPcs, TypingPcs
  <1>6. CASE /\ where # {} \/ job.kind = "send_keys"
             /\ Becomes(id, [job EXCEPT !.pc = AfterCapture(job), !.place = where])
    <2> DEFINE next == [job EXCEPT !.pc = AfterCapture(job), !.place = where]
    <2>1. AfterCapture(job) \in {"find", "focus", "raise", "shoot"}
      BY DEF AfterCapture
    <2>2. where \subseteq Nat
      BY <1>1, OnWindow
    <2>3. /\ Like(next, job) /\ next.pc = AfterCapture(job) /\ next.status = "none"
          /\ next.place = where
      BY <1>1, <1>3, <2>1, <2>2 DEF Like, Jobs
    <2> HIDE DEF next
    <2>4. Moved(id) /\ new = next
      BY <1>1, <1>6, <2>3, BecomesMoves DEF next
    <2>5. AllowedAt(new)
      <3>1. job.kind \in TimedKinds /\ new.kind = job.kind /\ (HasPattern(new) <=> HasPattern(job))
        BY <1>1, <2>3, <2>4, LikeAsked DEF Jobs, Like
      <3> QED BY <2>1, <2>3, <2>4, <3>1
              DEF AllowedAt, AfterCapture, HasPattern, TimedKinds, DirectKinds, InputKinds,
                  PointerKinds, PatternPcs
    <2>6. NoMoreThanAsked(new, effects[id])
      BY <1>3, <2>3, <2>4, LikeAsked DEF SoFar
    <2>7. SoFar(new, effects'[id])
      BY <1>2, <1>3, <2>1, <2>3, <2>4, <2>5, <2>6
         DEF SoFar, Counts, NoEffect, PatternPcs, TypingPcs
    <2>8. effects'[id].on = {}
      BY <1>2, <1>3 DEF NoEffect
    <2>9. new.pc = "find" => where # {}
      BY <1>6, <2>3, <2>4 DEF AfterCapture, HasPattern
    <2>10. id \notin disturbed => new.intended = Target(job.path)
      BY <2>3, <2>4, OnlyTarget DEF Like
    <2>11. id \notin disturbed =>
             Aimed(new, effects'[id].on, where, Target(job.path), focused', mouse')
      BY <2>1, <2>3, <2>4, <2>8, <2>9, <2>10 DEF Aimed, PatternPcs, TypingPcs
    <2> QED BY <1>2, <2>4, <2>7, <2>11 DEF Kept
  <1> QED BY <1>4, <1>5, <1>6 DEF CaptureWindows

LEMMA FindElementKept ==
    ASSUME NEW id \in Ids, Ready(id), FindElement(id)
    PROVE  Kept(id)
  <1> DEFINE job == jobs[id]
             new == jobs'[id]
             where == InCapture(job.path)
  <1>1. /\ TypeOK /\ job \in Jobs /\ job.pc = "find" /\ job.path \in Nat /\ row \in Rows
        /\ UNCHANGED <<desktop, effects, daemonVars, disturbed>>
    BY DEF Ready, FindElement, Jobs, TypeOK
  <1>2. /\ Frame(id) /\ Affected(id) /\ effects'[id] = effects[id]
        /\ focused' = focused /\ mouse' = mouse
    BY <1>1, DesktopStays, EffectsStay
  <1>3. /\ effects[id] = NoEffect /\ SoFar(job, effects[id]) /\ job.status = "none"
        /\ HasPattern(job) /\ job.kind \in InputKinds
    BY <1>1 DEF Ready, SoFar, AllowedAt
  <1>4. id \notin disturbed =>
          /\ effects[id].on \subseteq job.intended /\ job.intended = Target(job.path)
          /\ job.place = where /\ where # {}
    BY <1>1, OnlyTarget DEF Aimed
  <1>5. CASE End(id, "Err")
    BY <1>2, <1>4, <1>5, ErrKept DEF Counts
  <1>6. ASSUME Moved(id), new.pc \in PatternPcs \cup {"focus"}, new.status = job.status,
               new.place = job.place,
               new.pc \in PatternPcs => new.element \in Live(job.path)
        PROVE  Kept(id)
    <2>1. Like(new, job)
      BY <1>6 DEF Moved
    <2>2. AllowedAt(new)
      <3>1. new.kind \in InputKinds /\ HasPattern(new)
        BY <1>3, <2>1, LikeAsked DEF Like
      <3> QED BY <1>3, <1>6, <3>1 DEF AllowedAt, PatternPcs
    <2>3. NoMoreThanAsked(new, effects[id])
      BY <1>3, <2>1, LikeAsked DEF SoFar
    <2>4. SoFar(new, effects'[id])
      <3>1. new.kind \in InputKinds
        BY <1>3, <2>1 DEF Like
      <3> QED BY <1>2, <1>3, <1>6, <2>2, <2>3, <3>1
              DEF SoFar, Counts, NoEffect, PatternPcs, TypingPcs
    <2>5. id \notin disturbed /\ new.pc \in PatternPcs => new.element \in Target(job.path)
      BY <1>1, <1>4, <1>6, LiveIsInCapture
    <2>6. id \notin disturbed => Aimed(new, effects'[id].on, where, Target(job.path), focused', mouse')
      BY <1>2, <1>4, <1>6, <2>1, <2>5 DEF Aimed, Like, PatternPcs, TypingPcs
    <2> QED BY <1>2, <1>6, <2>4, <2>6 DEF Kept
  <1>7. CASE GoTo(id, "focus")
    <2>1. /\ Moved(id) /\ new.pc = "focus" /\ new.status = job.status /\ new.place = job.place
      BY <1>1, <1>7, GoToMoves
    <2>2. "focus" \notin PatternPcs
      BY DEF PatternPcs
    <2> QED BY <1>6, <2>1, <2>2
  <1>8. ASSUME NEW c \in Live(job.path), NEW pc \in {"set_value", "invoke"},
               Becomes(id, [job EXCEPT !.element = c, !.pc = pc])
        PROVE  Kept(id)
    <2> DEFINE next == [job EXCEPT !.element = c, !.pc = pc]
    <2>1. c \in Controls
      BY <1>1, OnWindow
    <2>2. /\ Like(next, job) /\ next.pc = pc /\ next.status = job.status
          /\ next.place = job.place /\ next.element = c
      BY <1>1, <2>1 DEF Like, Jobs
    <2> HIDE DEF next
    <2>3. Moved(id) /\ new = next
      BY <1>1, <1>8, <2>2, BecomesMoves DEF next
    <2> QED BY <1>6, <2>2, <2>3 DEF PatternPcs
  <1> QED BY <1>5, <1>7, <1>8 DEF FindElement

\* A pattern call on the element.
LEMMA PatternKept ==
    ASSUME NEW id \in Ids, Ready(id), jobs[id].pc \in PatternPcs,
           UNCHANGED <<desktop, daemonVars, disturbed>>,
           \/ PatternActs(id) /\ End(id, "Completed")
           \/ PatternFails(id) /\ End(id, "Err")
           \/ /\ PatternFails(id) \/ UNCHANGED effects
              /\ GoTo(id, "focus") \/ (GoTo(id, "default_action") /\ jobs[id].pc = "invoke")
    PROVE  Kept(id)
  <1> DEFINE job == jobs[id]
             new == jobs'[id]
             where == InCapture(job.path)
  <1>1. TypeOK /\ job \in Jobs /\ job.path \in Nat /\ row \in Rows
    BY DEF Ready, Jobs, TypeOK
  <1>2. Frame(id) /\ focused' = focused /\ mouse' = mouse
    BY <1>1, DesktopStays
  <1>3. /\ Counts(effects[id], 0, 0, 0) /\ SoFar(job, effects[id]) /\ job.status = "none"
        /\ HasPattern(job) /\ job.kind \in InputKinds
    BY DEF Ready, SoFar, AllowedAt, PatternPcs
  <1>4. id \notin disturbed =>
          /\ effects[id].on \subseteq job.intended /\ job.intended = Target(job.path)
          /\ job.place = where /\ where # {} /\ job.element \in job.intended
    BY OnlyTarget DEF Aimed, PatternPcs
  <1>5. OnScreen \subseteq Things
    BY <1>1, OnWindow DEF Things
  <1>6. CASE PatternActs(id) /\ End(id, "Completed")
    <2>1. job.element \in Things /\ Acts(id, job.element, 1, 0, 0)
      BY <1>5, <1>6 DEF PatternActs
    <2>2. /\ Affected(id) /\ effects'[id].on = effects[id].on \cup {job.element}
          /\ Counts(effects'[id], effects[id].pattern + 1, effects[id].clicks + 0,
                    effects[id].keys + 0)
      BY <1>1, <2>1, ActsAffect
    <2>3. Counts(effects'[id], 1, 0, 0)
      BY <1>3, <2>2 DEF Counts
    <2>4. Moved(id) /\ Like(new, job) /\ new.pc = "done" /\ new.status = "Completed"
      BY <1>1, <1>6, EndMoves DEF Moved
    <2>5. NoMoreThanAsked(job, effects'[id])
      <3>1. Rounds(job) \in Nat /\ job.count \in Nat
        BY <1>1, RoundsPositive DEF Jobs
      <3> QED BY <2>3, <3>1 DEF NoMoreThanAsked, Counts
    <2>6. AsAsked(job, effects'[id])
      <3>1. job.kind \in PointerKinds \cup {"set_value"}
        BY <1>3 DEF HasPattern, PointerKinds
      <3> QED BY <1>3, <2>3, <3>1 DEF AsAsked, Counts, PointerKinds
    <2>7. SoFar(new, effects'[id])
      <3>1. new.kind \in InputKinds /\ NoMoreThanAsked(new, effects'[id]) /\ AsAsked(new, effects'[id])
        BY <1>3, <2>4, <2>5, <2>6, LikeAsked DEF Like
      <3> QED BY <2>4, <3>1 DEF SoFar, AllowedAt, PatternPcs, TypingPcs
    <2>8. id \notin disturbed => Aimed(new, effects'[id].on, where, Target(job.path), focused', mouse')
      BY <1>4, <2>2, <2>4 DEF Aimed, Like, PatternPcs, TypingPcs
    <2> QED BY <1>2, <2>2, <2>4, <2>7, <2>8 DEF Kept
  <1>7. ASSUME PatternFails(id) \/ UNCHANGED effects
        PROVE  /\ Affected(id)
               /\ Counts(effects'[id], effects[id].pattern, effects[id].clicks, effects[id].keys)
               /\ id \notin disturbed => effects'[id].on \subseteq job.intended
    <2>1. CASE UNCHANGED effects
      BY <1>1, <1>4, <2>1, EffectsStay DEF Counts
    <2>2. CASE PatternFails(id)
      <3>1. /\ {job.element} \cap OnScreen \in SUBSET Things
            /\ ActsPerhaps(id, {job.element} \cap OnScreen)
        BY <1>5, <2>2 DEF PatternFails
      <3>2. /\ Affected(id) /\ effects'[id].on \subseteq effects[id].on \cup {job.element}
            /\ Counts(effects'[id], effects[id].pattern, effects[id].clicks, effects[id].keys)
        BY <1>1, <3>1, PerhapsAffects
      <3> QED BY <1>4, <3>2
    <2> QED BY <1>7, <2>1, <2>2
  <1>8. CASE PatternFails(id) /\ End(id, "Err")
    BY <1>2, <1>3, <1>7, <1>8, ErrKept
  <1>9. ASSUME PatternFails(id) \/ UNCHANGED effects, NEW pc \in {"focus", "default_action"},
               GoTo(id, pc), pc = "default_action" => job.pc = "invoke"
        PROVE  Kept(id)
    <2>1. /\ Moved(id) /\ Like(new, job) /\ new.pc = pc /\ new.status = "none"
          /\ new.place = job.place /\ new.element = job.element
      BY <1>1, <1>3, <1>9, GoToMoves DEF Moved
    <2>2. /\ Affected(id) /\ Counts(effects'[id], 0, 0, 0)
          /\ id \notin disturbed => effects'[id].on \subseteq job.intended
      BY <1>3, <1>7, <1>9 DEF Counts
    <2>3. new.kind \in InputKinds /\ HasPattern(new)
      BY <1>3, <2>1, LikeAsked DEF Like
    <2>4. AllowedAt(new)
      BY <1>9, <2>1, <2>3 DEF AllowedAt, PatternPcs
    <2>5. NoMoreThanAsked(new, effects'[id])
      <3>1. Rounds(job) \in Nat /\ job.count \in Nat
        BY <1>1, RoundsPositive DEF Jobs
      <3>2. NoMoreThanAsked(job, effects'[id])
        BY <2>2, <3>1 DEF NoMoreThanAsked, Counts
      <3> QED BY <2>1, <3>2, LikeAsked
    <2>6. SoFar(new, effects'[id])
      BY <1>9, <2>1, <2>2, <2>3, <2>4, <2>5 DEF SoFar, PatternPcs, TypingPcs
    <2>7. id \notin disturbed => Aimed(new, effects'[id].on, where, Target(job.path), focused', mouse')
      BY <1>4, <1>9, <2>1, <2>2 DEF Aimed, Like, PatternPcs, TypingPcs
    <2> QED BY <1>2, <2>1, <2>2, <2>6, <2>7 DEF Kept
  <1> QED BY <1>6, <1>8, <1>9

LEMMA FocusTargetKept ==
    ASSUME NEW id \in Ids, Ready(id), FocusTarget(id)
    PROVE  Kept(id)
  <1> DEFINE job == jobs[id]
             new == jobs'[id]
             where == InCapture(job.path)
  <1>1. /\ TypeOK /\ job \in Jobs /\ job.pc = "focus" /\ job.path \in Nat /\ row \in Rows
        /\ UNCHANGED <<row, mouse, shifts, effects, daemonVars>>
    BY DEF Ready, FocusTarget, Jobs, TypeOK
  <1>2. Affected(id) /\ effects'[id] = effects[id]
    BY <1>1, EffectsStay
  <1>3. /\ Counts(effects[id], 0, 0, 0) /\ SoFar(job, effects[id]) /\ job.status = "none"
        /\ job.kind \in InputKinds
    BY <1>1 DEF Ready, SoFar, AllowedAt
  <1>4. id \notin disturbed =>
          /\ effects[id].on \subseteq job.intended /\ job.intended = Target(job.path)
          /\ job.place = where
    BY <1>1, OnlyTarget DEF Aimed
  <1>5. ASSUME Frame(id), End(id, "Err")
        PROVE  Kept(id)
    BY <1>2, <1>4, <1>5, ErrKept DEF Counts
  <1>6. CASE End(id, "Err") /\ UNCHANGED <<focused, disturbed>>
    <2>1. Frame(id)
      BY <1>1, <1>6, DesktopStays DEF desktop
    <2> QED BY <1>5, <1>6, <2>1
  <1>7. ASSUME job.place # {},
               NEW thing \in IF Live(job.path) = {} THEN {"window"} ELSE Live(job.path),
               FocusMoves(thing, {id}),
               \/ End(id, "Err")
               \/ \E pc \in AfterFocus(job.kind) :
                    Becomes(id, [job EXCEPT !.pc = pc, !.left = job.count])
        PROVE  Kept(id)
    <2>1. thing \in Things
      BY <1>1, <1>7, OnWindow DEF Things
    <2>2. Frame(id) /\ focused' = thing /\ mouse' = mouse
      BY <1>1, <1>7, <2>1, FocusFrame
    <2>3. CASE End(id, "Err")
      BY <1>5, <2>2, <2>3
    <2>4. ASSUME NEW pc \in AfterFocus(job.kind),
                 Becomes(id, [job EXCEPT !.pc = pc, !.left = job.count])
          PROVE  Kept(id)
      <3> DEFINE next == [job EXCEPT !.pc = pc, !.left = job.count]
      <3>1. pc \in {"aim", "select", "type"}
        BY <2>4 DEF AfterFocus
      <3>2. /\ Like(next, job) /\ next.pc = pc /\ next.status = "none" /\ next.left = job.count
            /\ next.place = job.place
        BY <1>1, <1>3, <3>1 DEF Like, Jobs
      <3> HIDE DEF next
      <3>3. Moved(id) /\ new = next
        BY <1>1, <2>4, <3>2, BecomesMoves DEF next
      <3>4. new.kind = job.kind /\ new.count = job.count /\ job.count \in Nat
        BY <1>1, <3>2, <3>3 DEF Like, Jobs
      <3>5. AllowedAt(new)
        BY <1>3, <2>4, <3>1, <3>2, <3>3, <3>4
           DEF AllowedAt, AfterFocus, InputKinds, PointerKinds, PatternPcs
      <3>6. NoMoreThanAsked(new, effects[id])
        BY <1>3, <3>2, <3>3, LikeAsked DEF SoFar
      <3>7. SoFar(new, effects'[id])
        <4>1. new.count - new.left = 0
          BY <3>2, <3>3, <3>4
        <4>2. new.pc \in TypingPcs => Counts(effects'[id], 0, 0, new.count - new.left)
          BY <1>2, <1>3, <4>1
        <4> QED BY <1>2, <1>3, <3>1, <3>2, <3>3, <3>4, <3>5, <3>6, <4>2
                DEF SoFar, PatternPcs, TypingPcs
      <3>8. id \notin disturbed => where # {} /\ thing \in Target(job.path) /\ thing # "elsewhere"
        <4>1. ASSUME id \notin disturbed PROVE where # {} /\ Live(job.path) = Target(job.path)
                                               /\ Target(job.path) # {}
          BY <1>1, <1>4, <1>7, <4>1, LiveIsInCapture
        <4>2. Target(job.path) \subseteq Controls
          BY <1>1, OnWindow
        <4> QED BY <1>7, <4>1, <4>2, ThingsAssumption
      <3>9. id \notin disturbed => Aimed(new, effects'[id].on, where, Target(job.path), focused', mouse')
        BY <1>2, <1>4, <2>2, <3>1, <3>2, <3>3, <3>8 DEF Aimed, Like, PatternPcs, TypingPcs
      <3> QED BY <1>2, <2>2, <3>3, <3>7, <3>9 DEF Kept
    <2> QED BY <1>7, <2>3, <2>4
  <1> QED BY <1>6, <1>7 DEF FocusTarget

LEMMA AimKept ==
    ASSUME NEW id \in Ids, Ready(id), Aim(id)
    PROVE  Kept(id)
  <1> DEFINE job == jobs[id]
             new == jobs'[id]
             where == InCapture(job.path)
  <1>1. /\ TypeOK /\ job \in Jobs /\ job.pc = "aim" /\ job.path \in Nat /\ row \in Rows
        /\ UNCHANGED <<row, focused, shifts, effects, daemonVars>>
    BY DEF Ready, Aim, Jobs, TypeOK
  <1>2. Affected(id) /\ effects'[id] = effects[id]
    BY <1>1, EffectsStay
  <1>3. /\ Counts(effects[id], 0, 0, 0) /\ SoFar(job, effects[id]) /\ job.status = "none"
        /\ job.kind \in PointerKinds /\ job.kind \in InputKinds
    BY <1>1 DEF Ready, SoFar, AllowedAt, InputKinds
  <1>4. id \notin disturbed =>
          /\ effects[id].on \subseteq job.intended /\ job.intended = Target(job.path)
          /\ job.place = where /\ where # {} /\ focused # "elsewhere"
    BY <1>1, OnlyTarget DEF Aimed
  <1>5. CASE End(id, "Err") /\ UNCHANGED <<mouse, disturbed>>
    <2>1. Frame(id)
      BY <1>1, <1>5, DesktopStays DEF desktop
    <2> QED BY <1>2, <1>4, <1>5, <2>1, ErrKept DEF Counts
  <1>6. ASSUME NEW i \in job.place, mouse' = i, Disturb(IF i = mouse THEN {} ELSE RelyOnMouse),
               Becomes(id, [job EXCEPT !.pc = "click", !.left = Rounds(job)])
        PROVE  Kept(id)
    <2> DEFINE next == [job EXCEPT !.pc = "click", !.left = Rounds(job)]
    <2>1. Rounds(job) \in Nat /\ Rounds(job) > 0
      BY <1>1, RoundsPositive DEF Jobs
    <2>2. /\ Like(next, job) /\ next.pc = "click" /\ next.status = "none"
          /\ next.left = Rounds(job) /\ next.place = job.place
      BY <1>1, <1>3, <2>1 DEF Like, Jobs
    <2> HIDE DEF next
    <2>3. Moved(id) /\ new = next
      BY <1>1, <1>6, <2>2, BecomesMoves DEF next
    <2>4. Frame(id)
      <3>1. i \in Nat
        BY <1>1, <1>6 DEF Jobs
      <3>2. RelyOnMouse \subseteq Running \ {id}
        BY <1>1 DEF RelyOnMouse
      <3>3. disturbed' = disturbed \cup (IF i = mouse THEN {} ELSE RelyOnMouse)
        BY <1>6 DEF Disturb
      <3> QED BY <1>1, <1>6, <3>1, <3>2, <3>3 DEF Frame, daemonVars, TypeOK
    <2>5. new.kind \in PointerKinds /\ new.kind \in InputKinds
      BY <1>3, <2>2, <2>3 DEF Like
    <2>6. NoMoreThanAsked(new, effects[id]) /\ Rounds(new) = Rounds(job)
      BY <1>3, <2>2, <2>3, LikeAsked DEF SoFar
    <2>7. SoFar(new, effects'[id])
      <3>1. Counts(effects'[id], 0, Rounds(new) - new.left, 0)
        BY <1>2, <1>3, <2>1, <2>2, <2>3, <2>6 DEF Counts
      <3>2. AllowedAt(new)
        BY <2>2, <2>3, <2>5 DEF AllowedAt, PatternPcs
      <3> QED BY <1>2, <2>2, <2>3, <2>5, <2>6, <3>1, <3>2 DEF SoFar, PatternPcs, TypingPcs
    <2>8. id \notin disturbed => Aimed(new, effects'[id].on, where, Target(job.path), focused', mouse')
      BY <1>1, <1>2, <1>4, <1>6, <2>2, <2>3 DEF Aimed, Like, PatternPcs, TypingPcs
    <2> QED BY <1>2, <2>3, <2>4, <2>7, <2>8 DEF Kept
  <1> QED BY <1>5, <1>6 DEF Aim

LEMMA ClickKept ==
    ASSUME NEW id \in Ids, Ready(id), Click(id)
    PROVE  Kept(id)
  <1> DEFINE job == jobs[id]
             new == jobs'[id]
             e == effects[id]
             where == InCapture(job.path)
  <1>1. /\ TypeOK /\ job \in Jobs /\ job.pc = "click" /\ job.path \in Nat /\ row \in Rows
        /\ job.left \in Nat /\ job.left > 0
        /\ UNCHANGED <<row, mouse, shifts, daemonVars>>
    BY DEF Ready, Click, Jobs, TypeOK
  <1>2. PICK thing \in UnderMouse :
          \/ /\ Acts(id, thing, 0, 1, 0) /\ FocusMoves(thing, {id})
             /\ Becomes(id, [job EXCEPT !.left = @ - 1])
          \/ /\ ActsPerhaps(id, {thing}) /\ End(id, "Err")
             /\ FocusMoves(thing, {id}) \/ UNCHANGED <<focused, disturbed>>
    BY DEF Click
  <1>3. /\ Counts(e, 0, Rounds(job) - job.left, 0) /\ SoFar(job, e) /\ job.status = "none"
        /\ job.kind \in PointerKinds /\ job.kind \in InputKinds
    BY <1>1 DEF Ready, SoFar, AllowedAt, InputKinds
  <1>4. id \notin disturbed =>
          /\ e.on \subseteq job.intended /\ job.intended = Target(job.path)
          /\ job.place = where /\ where # {} /\ focused # "elsewhere" /\ mouse \in where
    BY <1>1, OnlyTarget DEF Aimed
  <1>5. thing \in Things /\ (id \notin disturbed => thing \in Target(job.path) /\ thing # "elsewhere")
    <2>1. Target(job.path) \subseteq Controls
      BY <1>1, OnWindow
    <2> QED BY <1>1, <1>2, <1>4, <2>1, MouseHits, MouseHitsThings, ThingsAssumption
  <1>6. FocusMoves(thing, {id}) => Frame(id) /\ focused' = thing /\ mouse' = mouse
    BY <1>1, <1>5, FocusFrame
  <1>7. CASE /\ ActsPerhaps(id, {thing}) /\ End(id, "Err")
             /\ FocusMoves(thing, {id}) \/ UNCHANGED <<focused, disturbed>>
    <2>1. Frame(id)
      BY <1>1, <1>6, <1>7, DesktopStays DEF desktop
    <2>2. {thing} \in SUBSET Things
      BY <1>5
    <2>3. Affected(id) /\ effects'[id].on \subseteq e.on \cup {thing}
          /\ Counts(effects'[id], e.pattern, e.clicks, e.keys)
      BY <1>1, <1>7, <2>2, PerhapsAffects
    <2> QED BY <1>3, <1>4, <1>5, <1>7, <2>1, <2>3, ErrKept
  <1>8. CASE /\ Acts(id, thing, 0, 1, 0) /\ FocusMoves(thing, {id})
             /\ Becomes(id, [job EXCEPT !.left = @ - 1])
    <2> DEFINE next == [job EXCEPT !.left = @ - 1]
    <2>1. /\ Like(next, job) /\ next.pc = "click" /\ next.status = "none"
          /\ next.left = job.left - 1 /\ next.place = job.place
      BY <1>1, <1>3 DEF Like, Jobs
    <2> HIDE DEF next
    <2>2. Moved(id) /\ new = next
      BY <1>1, <1>8, <2>1, BecomesMoves DEF next
    <2>3. /\ Affected(id) /\ effects'[id].on = e.on \cup {thing}
          /\ Counts(effects'[id], e.pattern + 0, e.clicks + 1, e.keys + 0)
      BY <1>1, <1>5, <1>8, ActsAffect
    <2>4. /\ Rounds(job) \in Nat /\ Rounds(new) = Rounds(job) /\ job.count \in Nat
          /\ new.kind \in PointerKinds /\ new.kind \in InputKinds
      BY <1>1, <1>3, <2>1, <2>2, LikeAsked, RoundsPositive DEF Like, Jobs
    <2>5. Counts(effects'[id], 0, Rounds(new) - new.left, 0)
      BY <1>1, <1>3, <2>1, <2>2, <2>3, <2>4 DEF Counts
    <2>6. NoMoreThanAsked(new, effects'[id])
      <3>1. NoMoreThanAsked(job, effects'[id])
        <4>1. Rounds(job) - (job.left - 1) <= Rounds(job)
          BY <1>1, <2>4
        <4>2. effects'[id].clicks <= Rounds(job)
          BY <2>1, <2>2, <2>4, <2>5, <4>1 DEF Counts
        <4> QED BY <1>3, <2>4, <2>5, <4>2 DEF NoMoreThanAsked, Counts
      <3> QED BY <2>1, <2>2, <3>1, LikeAsked
    <2>7. SoFar(new, effects'[id])
      <3>1. AllowedAt(new)
        BY <2>1, <2>2, <2>4 DEF AllowedAt, PatternPcs
      <3> QED BY <2>1, <2>2, <2>4, <2>5, <2>6, <3>1 DEF SoFar, PatternPcs, TypingPcs
    <2>8. id \notin disturbed => Aimed(new, effects'[id].on, where, Target(job.path), focused', mouse')
      BY <1>4, <1>5, <1>6, <1>8, <2>1, <2>2, <2>3 DEF Aimed, Like, PatternPcs, TypingPcs
    <2> QED BY <1>6, <1>8, <2>2, <2>3, <2>7, <2>8 DEF Kept
  <1> QED BY <1>2, <1>7, <1>8

LEMMA SendKeysKept ==
    ASSUME NEW id \in Ids, Ready(id), SendKeys(id)
    PROVE  Kept(id)
  <1> DEFINE job == jobs[id]
             new == jobs'[id]
             e == effects[id]
             where == InCapture(job.path)
  <1>1. /\ TypeOK /\ job \in Jobs /\ job.pc \in TypingPcs /\ job.path \in Nat /\ row \in Rows
        /\ job.left \in Nat /\ job.count \in Nat /\ focused \in Things
        /\ UNCHANGED <<desktop, daemonVars, disturbed>>
    BY DEF Ready, SendKeys, Jobs, TypeOK, TypingPcs
  <1>2. Frame(id) /\ focused' = focused /\ mouse' = mouse
    BY <1>1, DesktopStays
  <1>3. /\ Counts(e, 0, 0, job.count - job.left) /\ SoFar(job, e) /\ job.status = "none"
        /\ job.kind \in {"set_value", "send_keys"} /\ job.kind \in InputKinds
        /\ job.pc \in {"select", "delete"} => job.kind = "set_value"
    BY <1>1 DEF Ready, SoFar, AllowedAt, InputKinds, TypingPcs
  <1>4. id \notin disturbed =>
          /\ e.on \subseteq job.intended /\ job.intended = Target(job.path)
          /\ job.place = where /\ where # {} /\ focused \in Target(job.path)
    BY <1>1, OnlyTarget DEF Aimed, TypingPcs
  <1>5. CASE ActsPerhaps(id, {focused}) /\ End(id, "Err")
    <2>1. {focused} \in SUBSET Things
      BY <1>1
    <2>2. Affected(id) /\ effects'[id].on \subseteq e.on \cup {focused}
          /\ Counts(effects'[id], e.pattern, e.clicks, e.keys)
      BY <1>1, <1>5, <2>1, PerhapsAffects
    <2> QED BY <1>2, <1>3, <1>4, <1>5, <2>2, ErrKept
  <1>6. ASSUME Moved(id), new.pc \in {"delete", "type"}, new.pc = "delete" => job.kind = "set_value",
               new.status = job.status, new.place = job.place,
               Affected(id), effects'[id].on = e.on \cup {focused},
               Counts(effects'[id], 0, 0, job.count - new.left),
               new.left \in Nat
        PROVE  Kept(id)
    <2>1. Like(new, job) /\ new.kind = job.kind /\ new.count = job.count
      BY <1>6 DEF Moved, Like
    <2>2. NoMoreThanAsked(new, effects'[id])
      <3>1. Rounds(job) \in Nat
        BY <1>1, RoundsPositive
      <3>2. job.count - new.left <= job.count
        BY <1>1, <1>6
      <3>3. NoMoreThanAsked(job, effects'[id])
        BY <1>1, <1>3, <1>6, <3>1, <3>2 DEF NoMoreThanAsked, Counts, PointerKinds
      <3> QED BY <2>1, <3>3, LikeAsked
    <2>3. AllowedAt(new)
      BY <1>3, <1>6, <2>1 DEF AllowedAt, PatternPcs
    <2>4. SoFar(new, effects'[id])
      BY <1>3, <1>6, <2>1, <2>2, <2>3 DEF SoFar, PatternPcs, TypingPcs
    <2>5. id \notin disturbed => Aimed(new, effects'[id].on, where, Target(job.path), focused', mouse')
      BY <1>2, <1>4, <1>6, <2>1 DEF Aimed, Like, PatternPcs, TypingPcs
    <2> QED BY <1>2, <1>6, <2>4, <2>5 DEF Kept
  <1>7. ASSUME job.pc \in {"select", "delete"}, Acts(id, focused, 0, 0, 0),
               NEW pc \in {"delete", "type"}, GoTo(id, pc)
        PROVE  Kept(id)
    <2>1. /\ Affected(id) /\ effects'[id].on = e.on \cup {focused}
          /\ Counts(effects'[id], e.pattern + 0, e.clicks + 0, e.keys + 0)
      BY <1>1, <1>7, ActsAffect
    <2>2. /\ Moved(id) /\ new.pc = pc /\ new.status = job.status /\ new.place = job.place
          /\ new.left = job.left
      BY <1>1, <1>7, GoToMoves
    <2>3. Counts(effects'[id], 0, 0, job.count - new.left) /\ new.left \in Nat
      BY <1>1, <1>3, <2>1, <2>2 DEF Counts
    <2> QED BY <1>3, <1>6, <1>7, <2>1, <2>2, <2>3
  <1>8. CASE /\ job.pc = "type" /\ job.left > 0 /\ Acts(id, focused, 0, 0, 1)
             /\ Becomes(id, [job EXCEPT !.left = @ - 1])
    <2> DEFINE next == [job EXCEPT !.left = @ - 1]
    <2>1. /\ Like(next, job) /\ next.pc = "type" /\ next.status = job.status
          /\ next.left = job.left - 1 /\ next.place = job.place
      BY <1>1, <1>8 DEF Like, Jobs
    <2> HIDE DEF next
    <2>2. Moved(id) /\ new = next
      BY <1>1, <1>8, <2>1, BecomesMoves DEF next
    <2>3. /\ Affected(id) /\ effects'[id].on = e.on \cup {focused}
          /\ Counts(effects'[id], e.pattern + 0, e.clicks + 0, e.keys + 1)
      BY <1>1, <1>8, ActsAffect
    <2>4. Counts(effects'[id], 0, 0, job.count - new.left) /\ new.left \in Nat
      BY <1>1, <1>3, <1>8, <2>1, <2>2, <2>3 DEF Counts
    <2> QED BY <1>6, <2>1, <2>2, <2>3, <2>4
  <1> QED BY <1>5, <1>7, <1>8 DEF SendKeys

LEMMA InputSentKept ==
    ASSUME NEW id \in Ids, Ready(id), InputSent(id)
    PROVE  Kept(id)
  <1> DEFINE job == jobs[id]
             new == jobs'[id]
             e == effects[id]
  <1>1. /\ TypeOK /\ job \in Jobs /\ job.pc \in {"click", "type"} /\ job.left = 0
        /\ job.count \in Nat /\ End(id, "Completed")
        /\ UNCHANGED <<desktop, effects, daemonVars, disturbed>>
    BY DEF Ready, InputSent, Jobs
  <1>2. Frame(id) /\ Affected(id) /\ effects'[id] = e
    BY <1>1, DesktopStays, EffectsStay
  <1>3. /\ SoFar(job, e) /\ job.kind \in InputKinds
        /\ job.pc = "click" => job.kind \in PointerKinds /\ Counts(e, 0, Rounds(job) - 0, 0)
        /\ job.pc = "type" => job.kind \in {"set_value", "send_keys"}
                              /\ Counts(e, 0, 0, job.count - 0)
    BY <1>1 DEF Ready, SoFar, AllowedAt, InputKinds, TypingPcs
  <1>4. Moved(id) /\ Like(new, job) /\ new.pc = "done" /\ new.status = "Completed"
    BY <1>1, EndMoves DEF Moved
  <1>5. Rounds(job) \in Nat
    BY <1>1, RoundsPositive
  <1>6. AsAsked(job, e)
    <2>1. CASE job.pc = "click"
      <3>1. job.kind \in PointerKinds /\ e.pattern = 0 /\ e.clicks = Rounds(job) /\ e.keys = 0
        BY <1>3, <1>5, <2>1 DEF Counts
      <3> QED BY <3>1 DEF AsAsked, PointerKinds, InputKinds
    <2>2. CASE job.pc = "type"
      <3>1. /\ job.kind \in {"set_value", "send_keys"}
            /\ e.pattern = 0 /\ e.clicks = 0 /\ e.keys = job.count
        BY <1>1, <1>3, <2>2 DEF Counts
      <3> QED BY <3>1 DEF AsAsked, PointerKinds, InputKinds
    <2> QED BY <1>1, <2>1, <2>2
  <1>7. SoFar(new, effects'[id])
    <2>1. new.kind \in InputKinds /\ NoMoreThanAsked(new, e) /\ AsAsked(new, e)
      BY <1>3, <1>4, <1>6, LikeAsked DEF Like, SoFar
    <2> QED BY <1>2, <1>4, <2>1 DEF SoFar, AllowedAt, PatternPcs, TypingPcs
  <1>8. id \notin disturbed =>
          Aimed(new, effects'[id].on, InCapture(job.path), Target(job.path), focused', mouse')
    BY <1>2, <1>4, OnlyTarget DEF Aimed, Like, PatternPcs, TypingPcs
  <1> QED BY <1>2, <1>4, <1>7, <1>8 DEF Kept

\* Raising a window and taking pictures is no input.
LEMMA NoInputKept ==
    ASSUME NEW id \in Ids, Ready(id), RaiseWindow(id) \/ Shoot(id)
    PROVE  Kept(id)
  <1> DEFINE job == jobs[id]
             new == jobs'[id]
             e == effects[id]
  <1>1. /\ TypeOK /\ job \in Jobs /\ job.pc \in {"raise", "shoot"} /\ UNCHANGED effects
    BY DEF Ready, RaiseWindow, Shoot
  <1>2. Affected(id) /\ effects'[id] = e
    BY <1>1, EffectsStay
  <1>3. /\ SoFar(job, e) /\ e = NoEffect
        /\ job.kind \in {"focus_window", "capture_region", "panel_probe"}
    BY <1>1 DEF Ready, SoFar, AllowedAt
  <1>4. Frame(id)
    <2>1. CASE UNCHANGED <<desktop, daemonVars, disturbed>>
      BY <1>1, <2>1, DesktopStays
    <2>2. CASE FocusMoves("window", {id}) /\ UNCHANGED <<row, mouse, shifts, daemonVars>>
      BY <1>1, <2>2, FocusFrame DEF Things
    <2> QED BY <2>1, <2>2 DEF RaiseWindow, Shoot, desktop
  <1>5. ASSUME Moved(id), new.pc = "done", new.status \in {"Completed", "Failed"}
        PROVE  Kept(id)
    <2>1. Like(new, job) /\ new.kind = job.kind
      BY <1>5 DEF Moved, Like
    <2>2. AsAsked(new, e)
      BY <1>3, <2>1 DEF AsAsked, TimedKinds, DirectKinds, InputKinds, PointerKinds
    <2>3. NoMoreThanAsked(new, e)
      BY <1>3, <2>1, LikeAsked DEF SoFar
    <2>4. SoFar(new, effects'[id])
      BY <1>2, <1>3, <1>5, <2>2, <2>3 DEF SoFar, AllowedAt, PatternPcs, TypingPcs
    <2>5. effects'[id].on = {}
      BY <1>2, <1>3 DEF NoEffect
    <2> QED BY <1>2, <1>4, <1>5, <2>4, <2>5 DEF Kept, Aimed, PatternPcs, TypingPcs
  <1>6. CASE End(id, "Err")
    BY <1>2, <1>4, <1>6, OnlyTarget, ErrKept DEF Counts
  <1>7. ASSUME NEW status \in {"Completed", "Failed"}, End(id, status) PROVE Kept(id)
    BY <1>1, <1>5, <1>7, EndMoves
  <1>8. ASSUME NEW artifacts \in SUBSET ArtifactKinds, EndWith(id, artifacts) PROVE Kept(id)
    BY <1>1, <1>5, <1>8, EndWithMoves
  <1>9. CASE RaiseWindow(id)
    BY <1>7, <1>9 DEF RaiseWindow
  <1>10. CASE Shoot(id)
    <2>1. (IF job.kind = "panel_probe" THEN {"layers", "metadata"} ELSE {"image"})
            \in SUBSET ArtifactKinds
      BY DEF ArtifactKinds
    <2> QED BY <1>6, <1>8, <1>10, <2>1 DEF Shoot
  <1> QED BY <1>9, <1>10

LEMMA BackendKept ==
    ASSUME NEW id \in Ids, Ready(id), BackendStep(id)
    PROVE  Kept(id)
  <1>1. CASE Invoke(id)
    BY <1>1, PatternKept DEF Invoke, PatternPcs
  <1>2. CASE DoDefaultAction(id)
    BY <1>2, PatternKept DEF DoDefaultAction, PatternPcs
  <1>3. CASE SetValue(id)
    BY <1>3, PatternKept DEF SetValue, PatternPcs
  <1> QED BY <1>1, <1>2, <1>3, CaptureWindowsKept, FindElementKept, FocusTargetKept, AimKept,
             ClickKept, SendKeysKept, InputSentKept, NoInputKept DEF BackendStep



-----------------------------------------------------------------------------
(* What a step leaves of the other actions.                                *)

\* An action that nobody disturbs relies on nothing that has changed.
LEMMA AimedStays ==
    ASSUME NEW k \in Ids, jobs[k] # None, OnTarget(k), jobs'[k] = jobs[k], effects'[k] = effects[k],
           disturbed \subseteq disturbed',
           row' # row /\ k \in Running => k \in disturbed',
           focused' # focused /\ k \in RelyOnFocus(focused') => k \in disturbed',
           mouse' # mouse /\ k \in RelyOnMouse => k \in disturbed'
    PROVE  OnTarget(k)'
  <1> DEFINE job  == jobs[k]
             kept == Aimed(job, effects[k].on, InCapture(job.path)', Target(job.path)', focused', mouse')
  <1> SUFFICES ASSUME k \notin disturbed' PROVE kept
    BY DEF OnTarget
  <1>1. Aimed(job, effects[k].on, InCapture(job.path), Target(job.path), focused, mouse)
    BY DEF OnTarget
  <1>2. CASE job.pc = "done"
    BY <1>1, <1>2 DEF Aimed, PatternPcs, TypingPcs
  <1>3. CASE job.pc # "done"
    <2>1. k \in Running
      BY <1>3 DEF Running
    <2>2. InCapture(job.path)' = InCapture(job.path) /\ Target(job.path)' = Target(job.path)
      <3>1. row' = row
        BY <2>1
      <3>2. InCapture(job.path)' = InCapture(job.path)
        BY <3>1 DEF InCapture
      <3> QED BY <3>1, <3>2 DEF Target
    <2>3. job.pc \in TypingPcs => focused' = focused
      BY <2>1 DEF RelyOnFocus, TypingPcs
    <2>4. job.pc \in {"aim", "click"} /\ focused # "elsewhere" => focused' # "elsewhere"
      BY <2>1 DEF RelyOnFocus
    <2>5. job.pc = "click" => mouse' = mouse
      BY <2>1 DEF RelyOnMouse
    <2> QED BY <1>1, <2>2, <2>3, <2>4, <2>5 DEF Aimed
  <1> QED BY <1>2, <1>3

\* A step of one thread keeps what is known of all actions and answers.
LEMMA BackendKeeps ==
    ASSUME ActionInv, NEW id \in Ids, BackendStep(id)
    PROVE  ActionInv'
  <1>0. TypeOK /\ JobsInv /\ AnswersInv
    BY DEF ActionInv
  <1>1. Ready(id) /\ jobs[id] # None
    <2>1. jobs[id] # None /\ jobs[id] \in Jobs
      BY <1>0 DEF BackendStep, TypeOK
    <2>2. jobs[id].pc # "done"
      BY DEF BackendStep, CaptureWindows, FindElement, Invoke, DoDefaultAction, SetValue,
             FocusTarget, Aim, Click, SendKeys, InputSent, RaiseWindow, Shoot
    <2> QED BY <1>0, <2>1, <2>2 DEF Ready, JobsInv
  <1>2. Kept(id)
    BY <1>1, BackendKept
  <1>3. /\ jobs' \in [Ids -> Jobs \cup {None}] /\ jobs'[id] # None
        /\ jobs'[id].kind = jobs[id].kind /\ jobs'[id].path = jobs[id].path
        /\ \A k \in Ids \ {id} : jobs'[k] = jobs[k]
        /\ effects' \in [Ids -> Effects] /\ \A k \in Ids \ {id} : effects'[k] = effects[k]
    BY <1>2 DEF Kept, Moved, Like, Affected
  <1>4. Frame(id) /\ jobs[id].pc # "done"
    BY <1>1, <1>2 DEF Kept, Ready
  <1>5. UNCHANGED <<row, shifts, made, calls, written, replies, closed>>
    BY <1>4 DEF Frame
  <1>6. TypeOK'
    <2>1. disturbed' \subseteq Ids /\ focused' \in Things /\ mouse' \in Nat
      BY <1>0, <1>4 DEF Frame, Running, TypeOK
    <2>2. ASSUME NEW s \in Sessions, calls[s] # None, calls[s].pc = "backend"
          PROVE  jobs'[calls[s].id] # None
      <3>1. calls[s].id \in Ids /\ jobs[calls[s].id] # None
        BY <1>0, <2>2 DEF TypeOK, Calls
      <3> QED BY <1>3, <3>1
    <2> QED BY <1>0, <1>3, <1>5, <2>1, <2>2 DEF TypeOK
  <1>7. JobsInv'
    <2>1. SoFar(jobs'[id], effects'[id]) /\ OnTarget(id)'
      <3>1. id \notin disturbed' => id \notin disturbed
        BY <1>4 DEF Frame
      <3>2. InCapture(jobs[id].path)' = InCapture(jobs[id].path)
        BY <1>3, <1>5 DEF InCapture
      <3>3. Target(jobs[id].path)' = Target(jobs[id].path)
        BY <1>3, <1>5, <3>2 DEF Target
      <3> QED BY <1>2, <3>1, <3>2, <3>3 DEF Kept, OnTarget
    <2>2. ASSUME NEW k \in Ids \ {id}, jobs[k] # None
          PROVE  SoFar(jobs'[k], effects'[k]) /\ OnTarget(k)'
      <3>1. SoFar(jobs[k], effects[k]) /\ OnTarget(k)
        BY <1>0, <2>2 DEF JobsInv
      <3>2. jobs'[k] = jobs[k] /\ effects'[k] = effects[k]
        BY <1>3
      <3>3. /\ disturbed \subseteq disturbed' /\ row' = row
            /\ focused' # focused /\ k \in RelyOnFocus(focused') => k \in disturbed'
            /\ mouse' # mouse /\ k \in RelyOnMouse => k \in disturbed'
        BY <1>4 DEF Frame
      <3>4. OnTarget(k)'
        BY <2>2, <3>1, <3>2, <3>3, AimedStays
      <3> QED BY <3>1, <3>2, <3>4
    <2>3. ASSUME NEW k \in Ids, jobs'[k] = None PROVE effects'[k] = NoEffect
      <3>1. k # id /\ jobs[k] = None
        BY <1>3, <2>3
      <3> QED BY <1>0, <1>3, <3>1 DEF JobsInv
    <2> QED BY <1>3, <2>1, <2>2, <2>3 DEF JobsInv
  <1>8. ASSUME NEW k \in Ids, NEW status, Settled(k, status) PROVE Settled(k, status)'
    <2>1. CASE k = id
      BY <1>1, <1>4, <2>1, <1>8 DEF Settled
    <2>2. CASE k # id
      BY <1>3, <1>8, <2>2 DEF Settled
    <2> QED BY <2>1, <2>2
  <1>9. AnswersInv'
    <2>1. ASSUME NEW s \in Sessions, calls[s] # None PROVE CallOK(s)'
      <3>1. CallOK(s) /\ calls[s].id \in Ids
        BY <1>0, <2>1 DEF AnswersInv, TypeOK, Calls
      <3>2. calls[s].pc \in {"attach", "attach_capture", "answer"} =>
              Settled(calls[s].id, calls[s].status)'
        BY <1>5, <1>8, <3>1 DEF CallOK, Settled
      <3>3. calls[s].pc \in {"enrich", "state", "state_capture"} => calls[s].id # id
        BY <1>1, <3>1 DEF CallOK
      <3>4. jobs'[calls[s].id].kind = jobs[calls[s].id].kind
        BY <1>3, <3>1
      <3> QED BY <1>3, <1>5, <3>1, <3>2, <3>3, <3>4 DEF CallOK, Settled
    <2>2. ASSUME NEW k \in Ids, replies[k] # None PROVE ReplyOK(k)'
      <3>1. ReplyOK(k)
        BY <1>0, <2>2 DEF AnswersInv
      <3>2. Settled(k, replies[k].status)'
        BY <1>5, <1>8, <3>1 DEF ReplyOK, Settled
      <3> QED BY <1>5, <3>1, <3>2 DEF ReplyOK, Settled
    <2>3. ASSUME NEW k \in Ids, k > made PROVE Unasked(k)'
      <3>1. Unasked(k) /\ k # id
        BY <1>0, <1>1, <2>3 DEF AnswersInv, Unasked
      <3> QED BY <1>3, <1>5, <3>1 DEF Unasked
    <2> QED BY <1>5, <2>1, <2>2, <2>3 DEF AnswersInv
  <1> QED BY <1>6, <1>7, <1>9 DEF ActionInv

\* So does a change of the desktop by others, which disturbs whoever relies on it.
LEMMA DesktopShiftsKeeps ==
    ASSUME ActionInv, DesktopShifts
    PROVE  ActionInv'
  <1>0. /\ TypeOK /\ JobsInv /\ AnswersInv
        /\ UNCHANGED <<made, calls, jobs, effects, written, replies, closed>>
    BY DEF ActionInv, DesktopShifts
  <1>1. /\ row' \in Rows /\ focused' \in Things /\ mouse' \in Nat
        /\ disturbed \subseteq disturbed' /\ disturbed' \subseteq Ids
        /\ row' # row => Running \subseteq disturbed'
        /\ focused' # focused => RelyOnFocus(focused') \subseteq disturbed'
        /\ mouse' # mouse => RelyOnMouse \subseteq disturbed'
    <2>0. disturbed \subseteq Ids /\ Running \subseteq Ids /\ RelyOnMouse \subseteq Running
      BY <1>0 DEF TypeOK, Running, RelyOnMouse
    <2>1. CASE row' \in Rows \ {row} /\ Disturb(Running) /\ UNCHANGED <<focused, mouse>>
      BY <1>0, <2>0, <2>1 DEF TypeOK, Disturb
    <2>2. ASSUME NEW thing \in {"window", "elsewhere"} \ {focused}, FocusMoves(thing, {}),
                 UNCHANGED <<row, mouse>>
          PROVE  /\ row' \in Rows /\ focused' \in Things /\ mouse' \in Nat
                 /\ disturbed \subseteq disturbed' /\ disturbed' \subseteq Ids
                 /\ focused' # focused => RelyOnFocus(focused') \subseteq disturbed'
      <3>1. RelyOnFocus(thing) \subseteq Running
        BY DEF RelyOnFocus
      <3>2. focused' = thing /\ disturbed' = disturbed \cup RelyOnFocus(thing)
        BY <2>2 DEF FocusMoves, Disturb
      <3>3. row \in Rows /\ mouse \in Nat /\ thing \in Things
        BY <1>0, <2>2 DEF TypeOK, Things
      <3> QED BY <2>0, <2>2, <3>1, <3>2, <3>3
    <2>3. CASE mouse # 0 /\ mouse' = 0 /\ Disturb(RelyOnMouse) /\ UNCHANGED <<row, focused>>
      BY <1>0, <2>0, <2>3 DEF TypeOK, Disturb
    <2> QED BY <2>1, <2>2, <2>3 DEF DesktopShifts
  <1>2. TypeOK'
    <2>1. shifts' \in 0..MaxShifts
      BY <1>0, BoundsAssumption DEF DesktopShifts, TypeOK
    <2> QED BY <1>0, <1>1, <2>1 DEF TypeOK
  <1>3. JobsInv'
    <2>1. ASSUME NEW k \in Ids, jobs[k] # None PROVE SoFar(jobs'[k], effects'[k]) /\ OnTarget(k)'
      <3>1. SoFar(jobs[k], effects[k]) /\ OnTarget(k)
        BY <1>0, <2>1 DEF JobsInv
      <3>2. OnTarget(k)'
        BY <1>0, <1>1, <2>1, <3>1, AimedStays
      <3> QED BY <1>0, <3>1, <3>2
    <2> QED BY <1>0, <2>1 DEF JobsInv
  <1>4. AnswersInv'
    BY <1>0 DEF AnswersInv, CallOK, ReplyOK, Settled, Unasked
  <1> QED BY <1>2, <1>3, <1>4 DEF ActionInv

-----------------------------------------------------------------------------
(* The daemon's steps.                                                     *)

Untouched == UNCHANGED <<desktop, effects, disturbed, made, replies>>

\* Most of them touch neither the threads nor the desktop.
LEMMA JobsUntouched ==
    ASSUME JobsInv, UNCHANGED <<jobs, row, focused, mouse, effects, disturbed>>
    PROVE  JobsInv'
  <1>1. ASSUME NEW k \in Ids, jobs[k] # None PROVE SoFar(jobs'[k], effects'[k]) /\ OnTarget(k)'
    <2>1. SoFar(jobs[k], effects[k]) /\ OnTarget(k)
      BY <1>1 DEF JobsInv
    <2>2. OnTarget(k)'
      BY <1>1, <2>1, AimedStays
    <2> QED BY <2>1, <2>2
  <1> QED BY <1>1 DEF JobsInv

\* A thread begins with nothing done.
LEMMA StartJobKeeps ==
    ASSUME TypeOK, JobsInv, NEW call \in Calls, jobs[call.id] = None, NEW kind \in TimedKinds,
           StartJob(call, kind), UNCHANGED <<desktop, effects, disturbed>>
    PROVE  /\ JobsInv'
           /\ jobs' \in [Ids -> Jobs \cup {None}]
           /\ jobs'[call.id] # None /\ jobs'[call.id].kind = kind
           /\ \A k \in Ids \ {call.id} : jobs'[k] = jobs[k]
  <1> DEFINE id  == call.id
             new == Job(kind, call.path, call.count)
  <1>0. id \in Ids /\ call.path \in Nat /\ call.count \in Nat
    BY DEF Calls
  <1>1. new \in Jobs
    <2>1. {row[i] : i \in InCapture(call.path)} \subseteq Controls
      BY <1>0, OnWindow DEF TypeOK, Target
    <2> QED BY <1>0, <2>1 DEF Job, Jobs
  <1>2. /\ jobs' \in [Ids -> Jobs \cup {None}] /\ jobs'[id] = new /\ new # None
        /\ \A k \in Ids \ {id} : jobs'[k] = jobs[k]
    BY <1>0, <1>1, NoneAssumption DEF StartJob, TypeOK
  <1>3. /\ new.kind = kind /\ new.path = call.path /\ new.count = call.count
        /\ new.pc = "capture" /\ new.status = "none"
        /\ new.intended = Target(call.path)
    BY DEF Job, Target
  <1> HIDE DEF new
  <1>4. UNCHANGED <<row, focused, mouse, effects, disturbed>>
    BY DEF desktop
  <1>5. SoFar(new, effects[id]) /\ effects'[id] = effects[id]
    <2>1. effects[id] = NoEffect
      BY <1>0 DEF JobsInv
    <2>2. NoMoreThanAsked(new, NoEffect)
      <3>1. Rounds(new) \in Nat /\ new.count \in Nat
        BY <1>0, <1>3, RoundsPositive
      <3> QED BY <3>1 DEF NoMoreThanAsked, NoEffect
    <2> QED BY <1>3, <1>4, <2>1, <2>2 DEF SoFar, AllowedAt, PatternPcs, TypingPcs
  <1>6. OnTarget(id)'
    <2>1. effects[id].on = {}
      BY <1>0 DEF JobsInv, NoEffect
    <2>2. Aimed(new, effects[id].on, InCapture(call.path), Target(call.path), focused, mouse)
      BY <1>3, <2>1 DEF Aimed, PatternPcs, TypingPcs
    <2>3. InCapture(jobs[id].path)' = InCapture(call.path)
      BY <1>2, <1>3, <1>4 DEF InCapture
    <2>4. Target(jobs[id].path)' = Target(call.path)
      BY <1>2, <1>3, <1>4, <2>3 DEF Target
    <2> QED BY <1>2, <1>3, <1>4, <2>2, <2>3, <2>4 DEF OnTarget
  <1>7. ASSUME NEW k \in Ids \ {id}, jobs[k] # None
        PROVE  SoFar(jobs'[k], effects'[k]) /\ OnTarget(k)'
    <2>1. SoFar(jobs[k], effects[k]) /\ OnTarget(k) /\ jobs'[k] = jobs[k]
      BY <1>2, <1>7 DEF JobsInv
    <2>2. OnTarget(k)'
      BY <1>4, <1>7, <2>1, AimedStays
    <2> QED BY <1>4, <2>1, <2>2
  <1>8. \A k \in Ids : jobs'[k] = None => effects'[k] = NoEffect
    BY <1>2, <1>4 DEF JobsInv
  <1>9. JobsInv'
    BY <1>2, <1>5, <1>6, <1>7, <1>8 DEF JobsInv
  <1> QED BY <1>2, <1>3, <1>9

\* A session goes on with its request, or drops it.
LEMMA SessionMoves ==
    ASSUME ActionInv, NEW s \in Sessions, calls[s] # None, NEW c,
           JobsInv', jobs' \in [Ids -> Jobs \cup {None}],
           \A k \in Ids \ {calls[s].id} : jobs'[k] = jobs[k],
           Untouched,
           written' \in [Ids -> SUBSET ArtifactKinds],
           \A k \in Ids \ {calls[s].id} : written'[k] = written[k],
           closed' \subseteq Sessions,
           calls' = [calls EXCEPT ![s] = c],
           c # None =>
             /\ c \in Calls /\ c.id = calls[s].id /\ c.kind = calls[s].kind
             /\ c.policy = calls[s].policy /\ c.path = calls[s].path /\ c.count = calls[s].count
             /\ c.pc = "backend" => jobs'[c.id] # None
             /\ c.pc \in {"attach", "attach_capture", "answer"} => c.status \in Statuses
             /\ CallOK(s)'
    PROVE  ActionInv'
  <1> USE DEF ActionInv
  <1>1. /\ DOMAIN calls = Sessions /\ calls[s] \in Calls /\ calls[s].id \in Ids
        /\ calls'[s] = c /\ calls' \in [Sessions -> Calls \cup {None}]
        /\ \A t \in Sessions \ {s} : calls'[t] = calls[t]
    BY DEF TypeOK, Calls
  <1>2. UNCHANGED <<row, focused, mouse, shifts, effects, disturbed, made, replies>>
    BY DEF desktop, Untouched
  <1>3. ASSUME NEW t \in Sessions \ {s}, calls[t] # None
        PROVE  /\ calls[t].id \in Ids \ {calls[s].id}
               /\ jobs'[calls[t].id] = jobs[calls[t].id]
               /\ written'[calls[t].id] = written[calls[t].id]
    <2>1. calls[t].id \in Ids \ {calls[s].id}
      <3>1. calls[t] \in Calls
        BY <1>3 DEF TypeOK
      <3>2. calls[t].id # calls[s].id
        BY <1>3 DEF TypeOK
      <3> QED BY <3>1, <3>2 DEF Calls
    <2> QED BY <2>1
  <1>4. TypeOK'
    <2>1. ASSUME NEW t \in Sessions, calls'[t] # None
          PROVE  /\ [kind |-> calls'[t].kind, policy |-> calls'[t].policy,
                     path |-> calls'[t].path, count |-> calls'[t].count] \in Requests
                 /\ calls'[t].id <= made' /\ replies'[calls'[t].id] = None
                 /\ calls'[t].pc = "backend" => jobs'[calls'[t].id] # None
                 /\ calls'[t].pc \in {"attach", "attach_capture", "answer"} =>
                      calls'[t].status \in Statuses
                 /\ \A u \in Sessions \ {t} : calls'[u] # None => calls'[u].id # calls'[t].id
      <3>1. CASE t = s
        BY <1>1, <1>2, <1>3, <2>1, <3>1 DEF TypeOK
      <3>2. CASE t # s
        BY <1>1, <1>2, <1>3, <2>1, <3>2 DEF TypeOK
      <3> QED BY <3>1, <3>2
    <2> QED BY <1>1, <1>2, <2>1 DEF TypeOK
  <1>5. AnswersInv'
    <2>1. ASSUME NEW t \in Sessions \ {s}, calls[t] # None PROVE CallOK(t)'
      BY <1>1, <1>2, <1>3, <2>1 DEF AnswersInv, CallOK, Settled
    <2>2. ASSUME NEW k \in Ids, replies[k] # None PROVE ReplyOK(k)'
      <3>1. k # calls[s].id
        BY <2>2 DEF TypeOK
      <3> QED BY <1>2, <2>2, <3>1 DEF AnswersInv, ReplyOK, Settled
    <2>3. ASSUME NEW k \in Ids, k > made PROVE Unasked(k)'
      <3>1. k # calls[s].id
        <4>1. calls[s].id <= made /\ made \in Nat /\ calls[s].id \in Nat
          <5>1. calls[s].id <= made
            BY DEF TypeOK
          <5>2. made \in Nat
            BY DEF TypeOK
          <5>3. calls[s].id \in Nat
            BY <1>1, BoundsAssumption DEF Ids
          <5> QED BY <5>1, <5>2, <5>3
        <4> QED BY <2>3, <4>1
      <3> QED BY <1>2, <2>3, <3>1 DEF AnswersInv, Unasked
    <2> QED BY <1>1, <1>2, <2>1, <2>2, <2>3 DEF AnswersInv
  <1> QED BY <1>4, <1>5

\* The ways in which a session leaves a step.
LEMMA ProceedsTo ==
    ASSUME TypeOK, NEW s \in Sessions, calls[s] # None,
           NEW pc \in {"backend", "attach", "answer"},
           NEW status \in Statuses \cup {"none"}, NEW artifacts \in SUBSET ArtifactKinds,
           Proceeds(s, pc, status, artifacts)
    PROVE  \E c \in Calls :
             /\ calls' = [calls EXCEPT ![s] = c]
             /\ c.id = calls[s].id /\ c.kind = calls[s].kind /\ c.policy = calls[s].policy
             /\ c.path = calls[s].path /\ c.count = calls[s].count
             /\ c.pc = pc /\ c.status = status /\ c.artifacts = artifacts
  <1> DEFINE c == [calls[s] EXCEPT !.pc = pc, !.status = status, !.artifacts = artifacts]
  <1>1. calls[s] \in Calls /\ s \in DOMAIN calls
    BY DEF TypeOK
  <1>2. c \in Calls
    BY <1>1 DEF Calls
  <1>3. calls' = [calls EXCEPT ![s] = c]
    BY <1>1 DEF Proceeds, Calls
  <1>4. /\ c.id = calls[s].id /\ c.kind = calls[s].kind /\ c.policy = calls[s].policy
        /\ c.path = calls[s].path /\ c.count = calls[s].count
        /\ c.pc = pc /\ c.status = status /\ c.artifacts = artifacts
    BY <1>1 DEF Calls
  <1> QED BY <1>2, <1>3, <1>4

LEMMA StoreWrites ==
    ASSUME TypeOK, NEW s \in Sessions, calls[s] # None, NEW kinds \in SUBSET ArtifactKinds,
           NEW pc, NEW status, Store(s, kinds, pc, status)
    PROVE  /\ written' \in [Ids -> SUBSET ArtifactKinds]
           /\ \A k \in Ids \ {calls[s].id} : written'[k] = written[k]
           /\ \/ /\ written'[calls[s].id] = written[calls[s].id] \cup kinds
                 /\ Proceeds(s, pc, status, calls[s].artifacts \cup kinds)
              \/ EndSession(s)
  <1>1. calls[s].id \in Ids
    BY DEF TypeOK, Calls
  <1>2. ASSUME NEW some \in SUBSET ArtifactKinds, Write(calls[s].id, some)
        PROVE  /\ written' \in [Ids -> SUBSET ArtifactKinds]
               /\ \A k \in Ids \ {calls[s].id} : written'[k] = written[k]
               /\ written'[calls[s].id] = written[calls[s].id] \cup some
    BY <1>1, <1>2 DEF TypeOK, Write
  <1> QED BY <1>2 DEF Store

\* The steps of a request leave the desktop, what was done and the other answers alone.
LEMMA DropsRequest ==
    ASSUME ActionInv, NEW s \in Sessions, calls[s] # None, EndSession(s),
           JobsInv', jobs' \in [Ids -> Jobs \cup {None}],
           \A k \in Ids \ {calls[s].id} : jobs'[k] = jobs[k],
           Untouched,
           written' \in [Ids -> SUBSET ArtifactKinds],
           \A k \in Ids \ {calls[s].id} : written'[k] = written[k]
    PROVE  ActionInv'
  <1>1. calls' = [calls EXCEPT ![s] = None] /\ closed' \subseteq Sessions
    BY DEF EndSession, ActionInv, TypeOK
  <1> QED BY <1>1, SessionMoves

\* What a request that goes on to pc with this status must have brought along.
LEMMA GoesOn ==
    ASSUME ActionInv, NEW s \in Sessions, calls[s] # None,
           NEW pc \in {"backend", "attach", "answer"}, NEW status \in Statuses \cup {"none"},
           NEW artifacts \in SUBSET ArtifactKinds, Proceeds(s, pc, status, artifacts),
           JobsInv', jobs' \in [Ids -> Jobs \cup {None}],
           \A k \in Ids \ {calls[s].id} : jobs'[k] = jobs[k],
           Untouched,
           written' \in [Ids -> SUBSET ArtifactKinds],
           \A k \in Ids \ {calls[s].id} : written'[k] = written[k],
           written'[calls[s].id] = artifacts,
           pc = "backend" =>
             /\ jobs'[calls[s].id] # None /\ calls[s].kind = "bundle"
             /\ jobs'[calls[s].id].kind \notin InputKinds,
           pc \in {"attach", "answer"} =>
             /\ status \in Statuses /\ UNCHANGED jobs /\ Settled(calls[s].id, status)
    PROVE  ActionInv'
  <1>1. PICK c \in Calls :
          /\ calls' = [calls EXCEPT ![s] = c]
          /\ c.id = calls[s].id /\ c.kind = calls[s].kind /\ c.policy = calls[s].policy
          /\ c.path = calls[s].path /\ c.count = calls[s].count
          /\ c.pc = pc /\ c.status = status /\ c.artifacts = artifacts
    BY ProceedsTo DEF ActionInv
  <1>2. calls'[s] = c
    BY <1>1 DEF ActionInv, TypeOK
  <1>3. CallOK(s)'
    <2>1. "bundle" \notin TimedKinds /\ "bundle" \notin DirectKinds
      BY DEF TimedKinds, DirectKinds, InputKinds, PointerKinds
    <2>2. pc \in {"attach", "answer"} => Settled(c.id, c.status)'
      BY <1>1 DEF Settled, Untouched
    <2> QED BY <1>1, <1>2, <2>1, <2>2 DEF CallOK, Settled
  <1>4. closed' \subseteq Sessions
    BY DEF Proceeds, ActionInv, TypeOK
  <1> QED BY <1>1, <1>3, <1>4, SessionMoves

\* A step that leaves the threads alone keeps what is known of them.
LEMMA SameJobs ==
    ASSUME ActionInv, Untouched, UNCHANGED jobs
    PROVE  JobsInv' /\ jobs' \in [Ids -> Jobs \cup {None}]
  BY JobsUntouched DEF ActionInv, TypeOK, Untouched, desktop

LEMMA DropKeeps ==
    ASSUME ActionInv, NEW s \in Sessions, calls[s] # None, EndSession(s), Untouched,
           UNCHANGED <<jobs, written>>
    PROVE  ActionInv'
  <1>1. written' \in [Ids -> SUBSET ArtifactKinds]
    BY DEF ActionInv, TypeOK
  <1> QED BY <1>1, SameJobs, DropsRequest

\* Artifacts are stored on the way to an answer.
LEMMA StoreKeeps ==
    ASSUME ActionInv, NEW s \in Sessions, calls[s] # None, Untouched, UNCHANGED jobs,
           NEW kinds \in SUBSET ArtifactKinds, NEW pc \in {"attach", "answer"},
           NEW status \in Statuses, Store(s, kinds, pc, status), Settled(calls[s].id, status)
    PROVE  ActionInv'
  <1> DEFINE id == calls[s].id
  <1>1. /\ written' \in [Ids -> SUBSET ArtifactKinds]
        /\ \A k \in Ids \ {id} : written'[k] = written[k]
        /\ \/ /\ written'[id] = written[id] \cup kinds
              /\ Proceeds(s, pc, status, calls[s].artifacts \cup kinds)
           \/ EndSession(s)
    BY StoreWrites DEF ActionInv
  <1>2. /\ JobsInv' /\ jobs' \in [Ids -> Jobs \cup {None}]
        /\ \A k \in Ids \ {id} : jobs'[k] = jobs[k]
    BY SameJobs
  <1>3. CASE EndSession(s)
    BY <1>1, <1>2, <1>3, DropsRequest
  <1>4. CASE /\ written'[id] = written[id] \cup kinds
             /\ Proceeds(s, pc, status, calls[s].artifacts \cup kinds)
    <2>1. calls[s] \in Calls /\ written[id] = calls[s].artifacts
      BY DEF ActionInv, TypeOK, AnswersInv, CallOK
    <2>2. calls[s].artifacts \cup kinds \in SUBSET ArtifactKinds /\ pc # "backend"
      BY <2>1 DEF Calls
    <2>3. /\ written'[id] = calls[s].artifacts \cup kinds
          /\ Proceeds(s, pc, status, calls[s].artifacts \cup kinds)
      BY <1>4, <2>1
    <2>4. pc \in {"backend", "attach", "answer"} /\ status \in Statuses \cup {"none"}
      OBVIOUS
    <2> QED BY <1>1, <1>2, <2>2, <2>3, <2>4, GoesOn
  <1> QED BY <1>1, <1>3, <1>4

\* A session waits for a capture of the daemon's own.
LEMMA WaitKeeps ==
    ASSUME ActionInv, NEW s \in Sessions, calls[s] # None, Untouched,
           \/ calls[s].pc = "state" /\ NeedsCapture(s, "state_capture")
           \/ calls[s].pc = "attach" /\ NeedsCapture(s, "attach_capture")
    PROVE  ActionInv'
  <1> DEFINE pc == IF calls[s].pc = "state" THEN "state_capture" ELSE "attach_capture"
             c  == [calls[s] EXCEPT !.pc = pc]
  <1>1. /\ calls[s] \in Calls /\ s \in DOMAIN calls /\ UNCHANGED <<jobs, written, closed>>
        /\ calls' = [calls EXCEPT ![s] = c]
    BY DEF ActionInv, TypeOK, NeedsCapture
  <1>2. /\ c \in Calls /\ c.id = calls[s].id /\ c.kind = calls[s].kind
        /\ c.policy = calls[s].policy /\ c.path = calls[s].path /\ c.count = calls[s].count
        /\ c.pc = pc /\ c.status = calls[s].status /\ c.artifacts = calls[s].artifacts
    BY <1>1 DEF Calls
  <1>3. CallOK(s) /\ (calls[s].pc = "attach" => calls[s].status \in Statuses)
    BY DEF ActionInv, AnswersInv, TypeOK
  <1> HIDE DEF c
  <1>4. calls'[s] = c
    BY <1>1
  <1>5. CallOK(s)'
    <2>1. effects' = effects
      BY DEF Untouched
    <2> QED BY <1>1, <1>2, <1>3, <1>4, <2>1 DEF CallOK, Settled, NeedsCapture
  <1>6. written' \in [Ids -> SUBSET ArtifactKinds] /\ closed' \subseteq Sessions
    BY <1>1 DEF ActionInv, TypeOK
  <1> QED BY <1>1, <1>2, <1>3, <1>5, <1>6, SameJobs, SessionMoves

\* The executor of a request begins.
LEMMA DispatchStarts ==
    ASSUME TypeOK, JobsInv, NEW s \in Sessions, NEW call \in Calls, Dispatch(s, call),
           jobs[call.id] = None, UNCHANGED <<desktop, effects, disturbed>>
    PROVE  /\ JobsInv' /\ jobs' \in [Ids -> Jobs \cup {None}]
           /\ \A k \in Ids \ {call.id} : jobs'[k] = jobs[k]
           /\ \E c \in Calls :
                /\ calls' = [calls EXCEPT ![s] = c]
                /\ c.id = call.id /\ c.kind = call.kind /\ c.policy = call.policy
                /\ c.path = call.path /\ c.count = call.count /\ c.artifacts = call.artifacts
                /\ c.pc \in {"state", "backend"}
                /\ c.pc = "state" => c.kind \in StateKinds /\ jobs'[c.id] = None
                /\ c.pc = "backend" =>
                     /\ jobs'[c.id] # None
                     /\ c.kind \in DirectKinds => jobs'[c.id].kind = c.kind
                     /\ c.kind \notin DirectKinds => jobs'[c.id].kind \notin InputKinds
  <1>0. call.id \in Ids
    BY DEF Calls
  <1>1. CASE call.kind \in StateKinds
    <2> DEFINE c == [call EXCEPT !.pc = "state"]
    <2>1. calls' = [calls EXCEPT ![s] = c] /\ UNCHANGED jobs
      BY <1>1 DEF Dispatch
    <2>2. /\ c \in Calls /\ c.id = call.id /\ c.kind = call.kind /\ c.policy = call.policy
          /\ c.path = call.path /\ c.count = call.count /\ c.artifacts = call.artifacts
          /\ c.pc = "state"
      BY DEF Calls
    <2>3. JobsInv' /\ jobs' \in [Ids -> Jobs \cup {None}]
      BY <2>1, JobsUntouched DEF TypeOK, desktop
    <2> HIDE DEF c
    <2> QED BY <1>1, <2>1, <2>2, <2>3
  <1>2. CASE call.kind \notin StateKinds
    <2> DEFINE c    == [call EXCEPT !.pc = "backend"]
               kind == IF call.kind = "ocr" THEN "capture_region" ELSE call.kind
    <2>1. calls' = [calls EXCEPT ![s] = c] /\ StartJob(call, kind)
      BY <1>2 DEF Dispatch
    <2>2. /\ c \in Calls /\ c.id = call.id /\ c.kind = call.kind /\ c.policy = call.policy
          /\ c.path = call.path /\ c.count = call.count /\ c.artifacts = call.artifacts
          /\ c.pc = "backend"
      BY DEF Calls
    <2>3. kind \in TimedKinds
      BY <1>2 DEF Calls, AllKinds, TimedKinds, DirectKinds
    <2>4. /\ call.kind \in DirectKinds => kind = call.kind
          /\ call.kind \notin DirectKinds => kind \notin InputKinds
      BY <1>2, <2>3 DEF DirectKinds, InputKinds, PointerKinds
    <2> HIDE DEF c, kind
    <2>5. /\ JobsInv' /\ jobs' \in [Ids -> Jobs \cup {None}]
          /\ jobs'[call.id] # None /\ jobs'[call.id].kind = kind
          /\ \A k \in Ids \ {call.id} : jobs'[k] = jobs[k]
      BY <2>1, <2>3, StartJobKeeps
    <2> QED BY <2>1, <2>2, <2>4, <2>5
  <1> QED BY <1>1, <1>2

LEMMA RequestKeeps ==
    ASSUME ActionInv, NEW s \in Sessions, Request(s)
    PROVE  ActionInv'
  <1> USE DEF ActionInv
  <1>1. /\ calls[s] = None /\ made < MaxActions /\ made' = made + 1
        /\ UNCHANGED <<desktop, effects, disturbed, written, replies, closed>>
    BY DEF Request, backendVars
  <1>2. made' \in Ids /\ made \in Nat
    BY <1>1, BoundsAssumption DEF TypeOK, Ids
  <1> DEFINE id == made'
  <1>3. PICK r \in Requests :
          \/ Dispatch(s, Call(id, r))
          \/ calls' = [calls EXCEPT ![s] = Call(id, r)] /\ UNCHANGED jobs
    BY DEF Request
  <1> DEFINE call == Call(id, r)
  <1>4. r \in AllRequests
    BY RequestsAssumption
  <1>5. Unasked(id)
    BY <1>1, <1>2 DEF AnswersInv
  <1>6. /\ call \in Calls /\ call.id = id /\ call.pc = "enrich" /\ call.artifacts = {}
        /\ [kind |-> call.kind, policy |-> call.policy, path |-> call.path,
            count |-> call.count] = r
    BY <1>2, <1>4 DEF Call, Calls, AllRequests
  <1>7. jobs[id] = None /\ replies[id] = None /\ written[id] = {} /\ effects[id] = NoEffect
    BY <1>5 DEF Unasked
  <1>8. UNCHANGED <<row, focused, mouse, shifts, effects, disturbed, written, replies, closed>>
    BY <1>1 DEF desktop
  <1> HIDE DEF call
  <1>9. /\ JobsInv' /\ jobs' \in [Ids -> Jobs \cup {None}]
        /\ \A k \in Ids \ {id} : jobs'[k] = jobs[k]
        /\ \E c \in Calls :
             /\ calls' = [calls EXCEPT ![s] = c]
             /\ c.id = id /\ c.kind = call.kind /\ c.policy = call.policy
             /\ c.path = call.path /\ c.count = call.count /\ c.artifacts = {}
             /\ c.pc \in {"enrich", "state", "backend"}
             /\ c.pc = "state" => c.kind \in StateKinds
             /\ c.pc # "backend" => jobs'[id] = None
             /\ c.pc = "backend" =>
                  /\ jobs'[id] # None
                  /\ c.kind \in DirectKinds => jobs'[id].kind = c.kind
                  /\ c.kind \notin DirectKinds => jobs'[id].kind \notin InputKinds
    <2>1. CASE Dispatch(s, call)
      <3>1. jobs[call.id] = None
        BY <1>6, <1>7
      <3>2. /\ JobsInv' /\ jobs' \in [Ids -> Jobs \cup {None}]
            /\ \A k \in Ids \ {call.id} : jobs'[k] = jobs[k]
        BY <1>1, <1>6, <2>1, <3>1, DispatchStarts
      <3>3. PICK c \in Calls :
              /\ calls' = [calls EXCEPT ![s] = c]
              /\ c.id = call.id /\ c.kind = call.kind /\ c.policy = call.policy
              /\ c.path = call.path /\ c.count = call.count /\ c.artifacts = call.artifacts
              /\ c.pc \in {"state", "backend"}
              /\ c.pc = "state" => c.kind \in StateKinds /\ jobs'[c.id] = None
              /\ c.pc = "backend" =>
                   /\ jobs'[c.id] # None
                   /\ c.kind \in DirectKinds => jobs'[c.id].kind = c.kind
                   /\ c.kind \notin DirectKinds => jobs'[c.id].kind \notin InputKinds
        BY <1>1, <1>6, <2>1, <3>1, DispatchStarts
      <3> QED BY <1>6, <3>2, <3>3
    <2>2. CASE calls' = [calls EXCEPT ![s] = call] /\ UNCHANGED jobs
      <3>1. JobsInv' /\ jobs' \in [Ids -> Jobs \cup {None}]
        BY <1>8, <2>2, JobsUntouched DEF TypeOK
      <3> QED BY <1>6, <1>7, <2>2, <3>1
    <2> QED BY <1>3, <2>1, <2>2 DEF call
  <1>10. PICK new \in Calls :
           /\ calls' = [calls EXCEPT ![s] = new]
           /\ new.id = id /\ new.kind = call.kind /\ new.policy = call.policy
           /\ new.path = call.path /\ new.count = call.count /\ new.artifacts = {}
           /\ new.pc \in {"enrich", "state", "backend"}
           /\ new.pc = "state" => new.kind \in StateKinds
           /\ new.pc # "backend" => jobs'[id] = None
           /\ new.pc = "backend" =>
                /\ jobs'[id] # None
                /\ new.kind \in DirectKinds => jobs'[id].kind = new.kind
                /\ new.kind \notin DirectKinds => jobs'[id].kind \notin InputKinds
    BY <1>9
  <1>11. /\ calls'[s] = new /\ calls' \in [Sessions -> Calls \cup {None}]
         /\ \A t \in Sessions \ {s} : calls'[t] = calls[t]
    BY <1>10 DEF TypeOK
  <1>12. [kind |-> new.kind, policy |-> new.policy, path |-> new.path,
          count |-> new.count] \in Requests
    BY <1>6, <1>10
  <1>13. ASSUME NEW t \in Sessions \ {s}, calls[t] # None
         PROVE  /\ calls[t].id \in Ids \ {id} /\ calls[t].id <= made
                /\ jobs'[calls[t].id] = jobs[calls[t].id]
    <2>1. calls[t] \in Calls /\ calls[t].id <= made
      BY <1>13 DEF TypeOK
    <2>2. calls[t].id \in Ids \ {id}
      BY <1>1, <1>2, <2>1 DEF Calls, Ids
    <2> QED BY <1>9, <2>1, <2>2
  <1> HIDE DEF id
  <1>14. TypeOK'
    <2>1. ASSUME NEW t \in Sessions, calls'[t] # None
          PROVE  /\ [kind |-> calls'[t].kind, policy |-> calls'[t].policy,
                     path |-> calls'[t].path, count |-> calls'[t].count] \in Requests
                 /\ calls'[t].id <= id /\ replies[calls'[t].id] = None
                 /\ calls'[t].pc = "backend" => jobs'[calls'[t].id] # None
                 /\ calls'[t].pc \in {"attach", "attach_capture", "answer"} =>
                      calls'[t].status \in Statuses
                 /\ \A u \in Sessions \ {t} : calls'[u] # None => calls'[u].id # calls'[t].id
      <3>1. CASE t = s
        <4>1. calls'[t].id <= id
          BY <1>2, <1>10, <1>11, <3>1 DEF Ids, id
        <4>2. ASSUME NEW u \in Sessions \ {t}, calls'[u] # None PROVE calls'[u].id # calls'[t].id
          BY <1>10, <1>11, <1>13, <3>1, <4>2
        <4> QED BY <1>7, <1>10, <1>11, <1>12, <3>1, <4>1, <4>2
      <3>2. CASE t # s
        <4>1. calls'[t] = calls[t] /\ calls[t] # None
          BY <1>11, <2>1, <3>2
        <4>2. calls[t].id <= id
          <5>1. calls[t].id <= made /\ calls[t].id \in Ids
            BY <1>13, <3>2, <4>1
          <5> QED BY <1>1, <1>2, <5>1, BoundsAssumption DEF Ids, id
        <4>3. ASSUME NEW u \in Sessions \ {t}, calls'[u] # None PROVE calls'[u].id # calls'[t].id
          <5>1. CASE u = s
            BY <1>10, <1>11, <1>13, <3>2, <4>1, <5>1
          <5>2. CASE u # s
            <6>1. calls'[u] = calls[u] /\ calls[u] # None
              BY <1>11, <4>3, <5>2
            <6>2. calls[u].id # calls[t].id
              BY <4>1, <6>1 DEF TypeOK
            <6> QED BY <4>1, <6>1, <6>2
          <5> QED BY <5>1, <5>2
        <4>4. jobs'[calls[t].id] = jobs[calls[t].id]
          BY <1>13, <3>2, <4>1
        <4> QED BY <4>1, <4>2, <4>3, <4>4 DEF TypeOK
      <3> QED BY <3>1, <3>2
    <2>2. made' \in 0..MaxActions
      BY <1>2, BoundsAssumption DEF Ids
    <2> QED BY <1>8, <1>9, <1>11, <2>1, <2>2 DEF TypeOK, id
  <1>15. AnswersInv'
    <2>1. CallOK(s)'
      BY <1>7, <1>8, <1>10, <1>11 DEF CallOK
    <2>2. ASSUME NEW t \in Sessions \ {s}, calls[t] # None PROVE CallOK(t)'
      BY <1>8, <1>11, <1>13, <2>2 DEF AnswersInv, CallOK, Settled
    <2>3. ASSUME NEW k \in Ids, replies[k] # None PROVE ReplyOK(k)'
      <3>1. k # id
        BY <1>7, <2>3
      <3> QED BY <1>8, <1>9, <2>3, <3>1 DEF AnswersInv, ReplyOK, Settled
    <2>4. ASSUME NEW k \in Ids, k > made' PROVE Unasked(k)'
      <3>1. k # id /\ k > made
        BY <1>1, <1>2, <2>4 DEF Ids, id
      <3> QED BY <1>8, <1>9, <2>4, <3>1 DEF AnswersInv, Unasked
    <2> QED BY <1>8, <1>11, <2>1, <2>2, <2>3, <2>4 DEF AnswersInv
  <1> QED BY <1>9, <1>14, <1>15

LEMMA EnrichCapturedKeeps ==
    ASSUME ActionInv, NEW s \in Sessions, calls[s] # None, EnrichCaptured(s)
    PROVE  ActionInv'
  <1> DEFINE call == calls[s]
             id   == call.id
  <1>1. /\ call \in Calls /\ id \in Ids /\ call.pc = "enrich" /\ Dispatch(s, call)
        /\ UNCHANGED <<desktop, effects, disturbed, made, written, replies, closed>>
    BY DEF EnrichCaptured, ActionInv, TypeOK, Calls, backendVars
  <1>2. jobs[id] = None /\ call.artifacts = {} /\ written[id] = {}
    BY <1>1 DEF ActionInv, AnswersInv, CallOK
  <1>3. TypeOK /\ JobsInv
    BY DEF ActionInv
  <1>4. /\ JobsInv' /\ jobs' \in [Ids -> Jobs \cup {None}]
        /\ \A k \in Ids \ {id} : jobs'[k] = jobs[k]
    BY <1>1, <1>2, <1>3, DispatchStarts
  <1>5. PICK c \in Calls :
          /\ calls' = [calls EXCEPT ![s] = c]
          /\ c.id = id /\ c.kind = call.kind /\ c.policy = call.policy
          /\ c.path = call.path /\ c.count = call.count /\ c.artifacts = call.artifacts
          /\ c.pc \in {"state", "backend"}
          /\ c.pc = "state" => c.kind \in StateKinds /\ jobs'[c.id] = None
          /\ c.pc = "backend" =>
               /\ jobs'[c.id] # None
               /\ c.kind \in DirectKinds => jobs'[c.id].kind = c.kind
               /\ c.kind \notin DirectKinds => jobs'[c.id].kind \notin InputKinds
    BY <1>1, <1>2, <1>3, DispatchStarts
  <1>6. calls'[s] = c
    BY <1>3, <1>5 DEF TypeOK
  <1>7. CallOK(s)'
    BY <1>1, <1>2, <1>5, <1>6 DEF CallOK
  <1>8. Untouched /\ written' \in [Ids -> SUBSET ArtifactKinds] /\ closed' \subseteq Sessions
    BY <1>1, <1>3 DEF Untouched, TypeOK
  <1>9. \A k \in Ids \ {id} : written'[k] = written[k]
    BY <1>1
  <1> QED BY <1>4, <1>5, <1>7, <1>8, <1>9, SessionMoves

\* The snapshot is there: the request is served from it.
LEMMA ServeKeeps ==
    ASSUME ActionInv, NEW s \in Sessions, calls[s] # None,
           calls[s].pc \in {"state", "state_capture"}, Serve(s), Untouched
    PROVE  ActionInv'
  <1> DEFINE id == calls[s].id
  <1>1. calls[s] \in Calls /\ id \in Ids
    BY DEF ActionInv, TypeOK, Calls
  <1>2. jobs[id] = None /\ written[id] = calls[s].artifacts
    BY DEF ActionInv, AnswersInv, CallOK
  <1>3. Settled(id, "Completed") /\ "Completed" \in Statuses
    BY <1>2 DEF Settled, Statuses
  <1>4. {"snapshot"} \in SUBSET ArtifactKinds /\ {"bundle"} \in SUBSET ArtifactKinds
    BY DEF ArtifactKinds
  <1>5. CASE EndSession(s) /\ UNCHANGED <<written, jobs>>
    BY <1>5, DropKeeps
  <1>6. CASE Store(s, {"snapshot"}, "answer", "Completed") /\ UNCHANGED jobs
    BY <1>3, <1>4, <1>6, StoreKeeps
  <1>7. CASE Store(s, {"bundle"}, "answer", "Completed") /\ UNCHANGED jobs
    BY <1>3, <1>4, <1>7, StoreKeeps
  <1>8. CASE /\ calls[s].kind = "bundle" /\ Store(s, {"bundle"}, "backend", "none")
             /\ IF closed' = closed THEN StartJob(calls[s], "capture_region") ELSE UNCHANGED jobs
    <2>1. /\ written' \in [Ids -> SUBSET ArtifactKinds]
          /\ \A k \in Ids \ {id} : written'[k] = written[k]
          /\ \/ /\ written'[id] = written[id] \cup {"bundle"}
                /\ Proceeds(s, "backend", "none", calls[s].artifacts \cup {"bundle"})
             \/ EndSession(s)
      BY <1>4, <1>8, StoreWrites DEF ActionInv
    <2>2. StartJob(calls[s], "capture_region") =>
            /\ JobsInv' /\ jobs' \in [Ids -> Jobs \cup {None}]
            /\ jobs'[id] # None /\ jobs'[id].kind = "capture_region"
            /\ \A k \in Ids \ {id} : jobs'[k] = jobs[k]
      <3>1. "capture_region" \in TimedKinds
        BY DEF TimedKinds, DirectKinds
      <3>2. UNCHANGED <<desktop, effects, disturbed>>
        BY DEF Untouched
      <3> QED BY <1>1, <1>2, <3>1, <3>2, StartJobKeeps DEF ActionInv
    <2>3. CASE EndSession(s)
      <3>1. /\ JobsInv' /\ jobs' \in [Ids -> Jobs \cup {None}]
            /\ \A k \in Ids \ {id} : jobs'[k] = jobs[k]
        BY <1>8, <2>2, SameJobs
      <3> QED BY <2>1, <2>3, <3>1, DropsRequest
    <2>4. CASE /\ written'[id] = written[id] \cup {"bundle"}
               /\ Proceeds(s, "backend", "none", calls[s].artifacts \cup {"bundle"})
      <3>1. calls[s].artifacts \cup {"bundle"} \in SUBSET ArtifactKinds
        BY <1>1, <1>4 DEF Calls
      <3>2. StartJob(calls[s], "capture_region")
        BY <1>8, <2>4 DEF Proceeds
      <3>3. "capture_region" \notin InputKinds
        BY DEF InputKinds, PointerKinds
      <3>4. /\ JobsInv' /\ jobs' \in [Ids -> Jobs \cup {None}]
            /\ jobs'[id] # None /\ jobs'[id].kind \notin InputKinds
            /\ \A k \in Ids \ {id} : jobs'[k] = jobs[k]
        BY <2>2, <3>2, <3>3
      <3>5. calls[s].kind = "bundle" /\ written'[id] = calls[s].artifacts \cup {"bundle"}
        BY <1>2, <1>8, <2>4
      <3>6. "backend" \in {"backend", "attach", "answer"} /\ "none" \in Statuses \cup {"none"}
        OBVIOUS
      <3> QED BY <2>1, <2>4, <3>1, <3>4, <3>5, <3>6, GoesOn
    <2> QED BY <2>1, <2>3, <2>4
  <1> QED BY <1>5, <1>6, <1>7, <1>8 DEF Serve

LEMMA OnStateKeeps ==
    ASSUME ActionInv, NEW s \in Sessions, calls[s] # None, ExecuteOnState(s) \/ StateCaptured(s)
    PROVE  ActionInv'
  <1>1. Untouched /\ calls[s].pc \in {"state", "state_capture"}
    BY DEF ExecuteOnState, StateCaptured, Untouched, backendVars
  <1>2. CASE Serve(s)
    BY <1>1, <1>2, ServeKeeps
  <1>3. CASE calls[s].pc = "state" /\ NeedsCapture(s, "state_capture")
    BY <1>1, <1>3, WaitKeeps
  <1> QED BY <1>2, <1>3 DEF ExecuteOnState, StateCaptured

\* What is known of a result.
LEMMA ResultIsThere ==
    ASSUME ActionInv, NEW s \in Sessions, calls[s] # None, NEW kinds, HasResult(s, kinds)
    PROVE  /\ calls[s].kind \in kinds /\ Result(s) = jobs[calls[s].id]
           /\ Result(s).status \in {"Completed", "Failed", "Err"}
           /\ Result(s).artifacts \in SUBSET ArtifactKinds
           /\ Result(s).status # "Err" =>
                Result(s).status \in Statuses /\ Settled(calls[s].id, Result(s).status)
           /\ Settled(calls[s].id, "Unsupported")
           /\ calls[s].kind \notin DirectKinds => Settled(calls[s].id, "Completed")
  <1> DEFINE id  == calls[s].id
             job == jobs[id]
  <1>1. id \in Ids /\ calls[s].pc = "backend" /\ job.pc = "done" /\ calls[s].kind \in kinds
    BY DEF HasResult, Result, ActionInv, TypeOK, Calls
  <1>2. job # None /\ job \in Jobs
    BY <1>1 DEF ActionInv, TypeOK
  <1>3. SoFar(job, effects[id])
    BY <1>1, <1>2 DEF ActionInv, JobsInv
  <1>4. /\ job.status \in {"Completed", "Failed", "Err"}
        /\ job.status = "Failed" => effects[id] = NoEffect
        /\ job.artifacts \in SUBSET ArtifactKinds
    BY <1>1, <1>2, <1>3 DEF SoFar, AllowedAt, Jobs
  <1>5. calls[s].kind \notin DirectKinds => job.kind \notin InputKinds
    BY <1>1 DEF ActionInv, AnswersInv, CallOK
  <1> QED BY <1>1, <1>4, <1>5 DEF Result, Settled, Statuses

LEMMA AnswersKeep ==
    ASSUME ActionInv, NEW s \in Sessions, calls[s] # None,
           ActionAnswers(s) \/ ProbeAnswers(s) \/ BundleAnswers(s) \/ OcrAnswers(s)
    PROVE  ActionInv'
  <1>1. Untouched /\ UNCHANGED jobs
    BY DEF ActionAnswers, ProbeAnswers, BundleAnswers, OcrAnswers, Untouched, backendVars
  <1>2. CASE EndSession(s) /\ UNCHANGED written
    BY <1>1, <1>2, DropKeeps
  <1>3. CASE ActionAnswers(s)
    <2>1. HasResult(s, DirectKinds)
      BY <1>3 DEF ActionAnswers
    <2>2. CASE Result(s).status # "Err" /\ Store(s, Result(s).artifacts, "attach", Result(s).status)
      BY <1>1, <2>1, <2>2, ResultIsThere, StoreKeeps
    <2> QED BY <1>2, <1>3, <2>2 DEF ActionAnswers
  <1>4. CASE ProbeAnswers(s)
    <2>1. HasResult(s, {"panel_probe"})
      BY <1>4 DEF ProbeAnswers
    <2>2. CASE /\ Result(s).status # "Err"
               /\ Store(s, Result(s).artifacts \cup {"panel-probe"}, "answer", Result(s).status)
      <3>1. Result(s).artifacts \cup {"panel-probe"} \in SUBSET ArtifactKinds
        BY <2>1, ResultIsThere DEF ArtifactKinds
      <3> QED BY <1>1, <2>1, <2>2, <3>1, ResultIsThere, StoreKeeps
    <2> QED BY <1>2, <1>4, <2>2 DEF ProbeAnswers
  <1>5. CASE BundleAnswers(s)
    <2>1. HasResult(s, {"bundle"}) /\ "bundle" \notin DirectKinds /\ "Completed" \in Statuses
      BY <1>5 DEF BundleAnswers, DirectKinds, InputKinds, PointerKinds, Statuses
    <2>2. CASE Store(s, Result(s).artifacts, "answer", "Completed")
      <3>1. Settled(calls[s].id, "Completed") /\ Result(s).artifacts \in SUBSET ArtifactKinds
        BY <2>1, ResultIsThere
      <3> QED BY <1>1, <2>1, <2>2, <3>1, StoreKeeps
    <2> QED BY <1>2, <1>5, <2>2 DEF BundleAnswers
  <1>6. CASE OcrAnswers(s)
    <2>1. HasResult(s, {"ocr"}) /\ "Unsupported" \in Statuses
          /\ Store(s, Result(s).artifacts \cup {"ocr"}, "answer", "Unsupported")
      BY <1>6 DEF OcrAnswers, Statuses
    <2>2. Result(s).artifacts \cup {"ocr"} \in SUBSET ArtifactKinds
      BY <2>1, ResultIsThere DEF ArtifactKinds
    <2> QED BY <1>1, <2>1, <2>2, ResultIsThere, StoreKeeps
  <1> QED BY <1>3, <1>4, <1>5, <1>6

LEMMA TimesOutKeeps ==
    ASSUME ActionInv, NEW s \in Sessions, calls[s] # None, NEW kinds \in SUBSET TimedKinds,
           NEW pc \in {"attach", "answer"}, TimesOut(s, kinds, pc)
    PROVE  ActionInv'
  <1> DEFINE id == calls[s].id
  <1>1. /\ calls[s].pc = "backend" /\ calls[s].kind \in TimedKinds
        /\ Proceeds(s, pc, "TimedOut", {}) /\ UNCHANGED <<jobs, written>> /\ Untouched
    BY DEF TimesOut, Untouched, backendVars
  <1>2. written' \in [Ids -> SUBSET ArtifactKinds] /\ written'[id] = {}
    BY <1>1 DEF ActionInv, AnswersInv, CallOK, TypeOK
  <1>3. /\ Settled(id, "TimedOut") /\ "TimedOut" \in Statuses
        /\ pc # "backend" /\ pc \in {"backend", "attach", "answer"}
    BY DEF Settled, Statuses
  <1>4. JobsInv' /\ jobs' \in [Ids -> Jobs \cup {None}]
    BY <1>1, SameJobs
  <1>5. /\ \A k \in Ids \ {id} : jobs'[k] = jobs[k]
        /\ \A k \in Ids \ {id} : written'[k] = written[k]
        /\ {} \in SUBSET ArtifactKinds /\ "TimedOut" \in Statuses \cup {"none"}
    BY <1>1, <1>3
  <1>6. Proceeds(s, pc, "TimedOut", {}) /\ Untouched /\ UNCHANGED jobs
    BY <1>1
  <1> QED BY <1>2, <1>3, <1>4, <1>5, <1>6, GoesOn

LEMMA AttachKeeps ==
    ASSUME ActionInv, NEW s \in Sessions, calls[s] # None, AttachSnapshot(s) \/ AttachCaptured(s)
    PROVE  ActionInv'
  <1> DEFINE id     == calls[s].id
             status == calls[s].status
  <1>1. Untouched /\ calls[s] \in Calls /\ calls[s].pc \in {"attach", "attach_capture"}
    BY DEF AttachSnapshot, AttachCaptured, Untouched, backendVars, ActionInv, TypeOK
  <1>2. status \in Statuses /\ Settled(id, status) /\ written[id] = calls[s].artifacts
    BY <1>1 DEF ActionInv, AnswersInv, CallOK, TypeOK
  <1>3. CASE WithoutSnapshot(s)
    <2>1. /\ Proceeds(s, "answer", status, calls[s].artifacts) /\ UNCHANGED <<written, jobs>>
          /\ calls[s].artifacts \in SUBSET ArtifactKinds
          /\ written' \in [Ids -> SUBSET ArtifactKinds]
      BY <1>1, <1>3 DEF WithoutSnapshot, ActionInv, TypeOK, Calls
    <2>2. JobsInv' /\ jobs' \in [Ids -> Jobs \cup {None}]
      BY <1>1, <2>1, SameJobs
    <2>3. \A k \in Ids \ {id} : jobs'[k] = jobs[k] /\ written'[k] = written[k]
      BY <2>1
    <2> QED BY <1>1, <1>2, <2>1, <2>2, <2>3, GoesOn
  <1>4. CASE WithSnapshot(s)
    <2>1. {"snapshot"} \in SUBSET ArtifactKinds
      BY DEF ArtifactKinds
    <2> QED BY <1>1, <1>2, <1>4, <2>1, StoreKeeps DEF WithSnapshot
  <1>5. CASE calls[s].pc = "attach" /\ NeedsCapture(s, "attach_capture")
    BY <1>1, <1>5, WaitKeeps
  <1> QED BY <1>3, <1>4, <1>5 DEF AttachSnapshot, AttachCaptured

LEMMA AnswerKeeps ==
    ASSUME ActionInv, NEW s \in Sessions, calls[s] # None, Answer(s)
    PROVE  ActionInv'
  <1> DEFINE id    == calls[s].id
             reply == [status |-> calls[s].status, artifacts |-> calls[s].artifacts]
  <1>1. /\ calls[s] \in Calls /\ id \in Ids /\ calls[s].pc = "answer"
        /\ UNCHANGED <<row, focused, mouse, shifts, effects, disturbed, made, jobs, written, closed>>
        /\ replies' = [replies EXCEPT ![id] = reply]
        /\ calls' = [calls EXCEPT ![s] = None]
    BY DEF Answer, ActionInv, TypeOK, Calls, backendVars, desktop
  <1>2. calls[s].status \in Statuses /\ Settled(id, calls[s].status)
        /\ written[id] = calls[s].artifacts
    BY <1>1 DEF ActionInv, AnswersInv, CallOK, TypeOK
  <1>3. JobsInv'
    BY <1>1, JobsUntouched DEF ActionInv
  <1>4. /\ reply \in [status : Statuses, artifacts : SUBSET ArtifactKinds]
        /\ reply.status = calls[s].status /\ reply.artifacts = calls[s].artifacts
    BY <1>1, <1>2 DEF Calls
  <1> HIDE DEF reply
  <1>5. /\ replies' \in [Ids -> [status : Statuses, artifacts : SUBSET ArtifactKinds] \cup {None}]
        /\ replies'[id] = reply
        /\ \A k \in Ids \ {id} : replies'[k] = replies[k]
    BY <1>1, <1>4 DEF ActionInv, TypeOK
  <1>6. /\ calls' \in [Sessions -> Calls \cup {None}] /\ calls'[s] = None
        /\ \A t \in Sessions \ {s} : calls'[t] = calls[t]
    BY <1>1 DEF ActionInv, TypeOK
  <1>7. ASSUME NEW t \in Sessions, calls'[t] # None
        PROVE  t # s /\ calls'[t] = calls[t] /\ calls[t] # None /\ calls[t].id \in Ids \ {id}
    <2>1. t # s /\ calls'[t] = calls[t] /\ calls[t] # None
      BY <1>6, <1>7
    <2>2. calls[t] \in Calls /\ calls[t].id # id
      BY <2>1 DEF ActionInv, TypeOK
    <2> QED BY <2>1, <2>2 DEF Calls
  <1>8. TypeOK'
    <2>1. ASSUME NEW t \in Sessions, calls'[t] # None
          PROVE  /\ [kind |-> calls'[t].kind, policy |-> calls'[t].policy,
                     path |-> calls'[t].path, count |-> calls'[t].count] \in Requests
                 /\ calls'[t].id <= made' /\ replies'[calls'[t].id] = None
                 /\ calls'[t].pc = "backend" => jobs[calls'[t].id] # None
                 /\ calls'[t].pc \in {"attach", "attach_capture", "answer"} =>
                      calls'[t].status \in Statuses
                 /\ \A u \in Sessions \ {t} : calls'[u] # None => calls'[u].id # calls'[t].id
      <3>1. ASSUME NEW u \in Sessions \ {t}, calls'[u] # None PROVE calls'[u].id # calls'[t].id
        <4>1. /\ calls'[t] = calls[t] /\ calls[t] # None
              /\ calls'[u] = calls[u] /\ calls[u] # None
          BY <1>7, <2>1, <3>1
        <4>2. calls[u].id # calls[t].id
          BY <4>1 DEF ActionInv, TypeOK
        <4> QED BY <4>1, <4>2
      <3> QED BY <1>1, <1>5, <1>7, <2>1, <3>1 DEF ActionInv, TypeOK
    <2> QED BY <1>1, <1>5, <1>6, <2>1 DEF ActionInv, TypeOK
  <1>9. AnswersInv'
    <2>1. ASSUME NEW t \in Sessions, calls'[t] # None PROVE CallOK(t)'
      BY <1>1, <1>7, <2>1 DEF ActionInv, AnswersInv, CallOK, Settled
    <2>2. ASSUME NEW k \in Ids, replies'[k] # None PROVE ReplyOK(k)'
      <3>1. CASE k = id
        BY <1>1, <1>2, <1>4, <1>5, <3>1 DEF ReplyOK, Settled
      <3>2. CASE k # id
        BY <1>1, <1>5, <2>2, <3>2 DEF ActionInv, AnswersInv, ReplyOK, Settled
      <3> QED BY <3>1, <3>2
    <2>3. ASSUME NEW k \in Ids, k > made PROVE Unasked(k)'
      <3>1. k # id
        <4>1. id <= made
          BY DEF ActionInv, TypeOK
        <4>2. made \in Nat /\ id \in Nat
          BY <1>1, BoundsAssumption DEF ActionInv, TypeOK, Ids
        <4> QED BY <2>3, <4>1, <4>2
      <3> QED BY <1>1, <1>5, <2>3, <3>1 DEF ActionInv, AnswersInv, Unasked
    <2> QED BY <1>1, <2>1, <2>2, <2>3 DEF AnswersInv
  <1> QED BY <1>3, <1>8, <1>9 DEF ActionInv

-----------------------------------------------------------------------------
(* The invariant holds.                                                    *)

LEMMA ActionInit == Init => ActionInv
  <1> SUFFICES ASSUME Init PROVE ActionInv
    OBVIOUS
  <1> USE BoundsAssumption DEF Init
  <1>1. TypeOK
    BY DEF TypeOK, Things, Effects, NoEffect
  <1>2. JobsInv /\ AnswersInv
    BY DEF JobsInv, AnswersInv, Unasked
  <1> QED BY <1>1, <1>2 DEF ActionInv

LEMMA ActionStep == ActionInv /\ [Next]_vars => ActionInv'
  <1> SUFFICES ASSUME ActionInv, [Next]_vars PROVE ActionInv'
    OBVIOUS
  <1>1. CASE DesktopShifts
    BY <1>1, DesktopShiftsKeeps
  <1>2. ASSUME NEW id \in Ids, BackendStep(id) PROVE ActionInv'
    BY <1>2, BackendKeeps
  <1>3. ASSUME NEW s \in Sessions, Request(s) PROVE ActionInv'
    BY <1>3, RequestKeeps
  <1>4. ASSUME NEW s \in Sessions, DaemonStep(s) PROVE ActionInv'
    <2>1. CASE ActionTimesOut(s)
      <3>1. DirectKinds \in SUBSET TimedKinds
        BY DEF TimedKinds
      <3> QED BY <1>4, <2>1, <3>1, TimesOutKeeps DEF ActionTimesOut, DaemonStep
    <2>2. CASE ProbeTimesOut(s)
      <3>1. {"panel_probe"} \in SUBSET TimedKinds
        BY DEF TimedKinds
      <3> QED BY <1>4, <2>2, <3>1, TimesOutKeeps DEF ProbeTimesOut, DaemonStep
    <2> QED BY <1>4, <2>1, <2>2, OnStateKeeps, AnswersKeep, AttachKeeps, AnswerKeeps DEF DaemonStep
  <1>5. ASSUME NEW s \in Sessions, CaptureReturns(s) PROVE ActionInv'
    BY <1>5, EnrichCapturedKeeps, OnStateKeeps, AttachKeeps DEF CaptureReturns
  <1>6. CASE UNCHANGED vars
    <2>1. UNCHANGED <<row, focused, mouse, shifts, made, calls, jobs, effects, written, replies,
                      closed, disturbed>>
      BY <1>6 DEF vars, desktop
    <2>2. JobsInv'
      BY <2>1, JobsUntouched DEF ActionInv
    <2>3. TypeOK' /\ AnswersInv'
      BY <2>1 DEF ActionInv, TypeOK, AnswersInv, CallOK, ReplyOK, Settled, Unasked
    <2> QED BY <2>2, <2>3 DEF ActionInv
  <1> QED BY <1>1, <1>2, <1>3, <1>4, <1>5, <1>6 DEF Next

-----------------------------------------------------------------------------
(* The theorems.                                                           *)

\* The invariant of requests, threads and answers.
THEOREM ActionInvariant == Spec => []ActionInv
  <1> QED BY ActionInit, ActionStep, PTL DEF Spec

\* Every variable has its type, and only what the backend owes is waited for.
THEOREM ActionTypeCorrect == Spec => []TypeOK
  <1>1. ActionInv => TypeOK
    BY DEF ActionInv
  <1> QED BY <1>1, ActionInvariant, PTL

\* The calls an action makes with success are never more than it was asked for, and as many
\* when it reports success; one that nobody has disturbed has then touched only its target,
\* with the calls that failed on the way too.
THEOREM ActionsHitTheirTarget == Spec => []ActsOnTarget
  <1>1. ActionInv => ActsOnTarget
    <2> SUFFICES ASSUME ActionInv, NEW id \in Ids, jobs[id] # None
                 PROVE  /\ NoMoreThanAsked(jobs[id], effects[id])
                        /\ replies[id] # None => (replies[id].status = "Completed" =>
                             /\ AsAsked(jobs[id], effects[id])
                             /\ id \notin disturbed => effects[id].on \subseteq jobs[id].intended)
      BY DEF ActsOnTarget
    <2>1. SoFar(jobs[id], effects[id]) /\ OnTarget(id)
      BY DEF ActionInv, JobsInv
    <2>2. NoMoreThanAsked(jobs[id], effects[id])
      BY <2>1 DEF SoFar
    <2>3. id \notin disturbed => effects[id].on \subseteq jobs[id].intended
      BY <2>1 DEF OnTarget, Aimed
    <2>4. ASSUME replies[id] # None, replies[id].status = "Completed"
          PROVE  AsAsked(jobs[id], effects[id])
      <3>1. Settled(id, "Completed")
        BY <2>4 DEF ActionInv, AnswersInv, ReplyOK
      <3>2. CASE jobs[id].status = "Completed"
        BY <2>1, <3>2 DEF SoFar
      <3>3. CASE jobs[id].kind \notin InputKinds
        <4>1. effects[id] = NoEffect
          BY <2>1, <3>3 DEF SoFar
        <4> QED BY <3>3, <4>1 DEF AsAsked, InputKinds
      <3> QED BY <3>1, <3>2, <3>3 DEF Settled
    <2> QED BY <2>2, <2>3, <2>4
  <1> QED BY <1>1, ActionInvariant, PTL

\* An answer that is not a timeout comes when the thread is through, a failed action has
\* done nothing, and the answer lists what was stored.
THEOREM ActionAnswersAreFinal == Spec => []AnswersAreFinal
  <1>1. ActionInv => AnswersAreFinal
    BY DEF ActionInv, AnswersInv, ReplyOK, Settled, AnswersAreFinal
  <1> QED BY <1>1, ActionInvariant, PTL

=============================================================================
