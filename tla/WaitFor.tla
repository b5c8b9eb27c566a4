------------------------------- MODULE WaitFor -------------------------------
(***************************************************************************)
(* One wait_for action of a daemon session.  It interleaves with           *)
(*                                                                         *)
(*   - the session's forwarder, which changes the cached state under the   *)
(*     state lock and, after it has released the lock, publishes the new   *)
(*     revision on a tokio watch channel (revision_tx), which keeps only   *)
(*     the newest value;                                                   *)
(*   - the clock;                                                          *)
(*   - the backend, when the cache is marked for resync and the action has *)
(*     to capture the desktop itself.                                      *)
(*                                                                         *)
(* Time is counted in units of which the deadline and the stability window *)
(* are multiples.                                                          *)
(***************************************************************************)
EXTENDS Targets

CONSTANTS
    Snapshots,   \* the states the desktop can be in
    Requests,    \* [target, condition, timeout, stable_for, attach]
    MaxTime,     \* bound: the clock stops here
    MaxRev,      \* bound: revisions of the cache
    Faults       \* may a diff fail to apply, or mark the cache for resync?

ASSUME BoundsAssumption ==
    /\ MaxTime \in Nat /\ MaxRev \in Nat /\ Faults \in BOOLEAN
    /\ \A r \in Requests : r.timeout \in 1 .. MaxTime /\ r.stable_for \in Nat

ASSUME NoneAssumption == None \notin Nat

ASSUME InputsAssumption ==
    /\ \A s \in Snapshots : SnapshotOK(s)
    /\ \A r \in Requests : TargetOK(r.target)

VARIABLES
    now,
    cache,      \* [snapshot, rev, marked, torn: changed by a diff that failed]
    published,  \* the value of revision_tx
    forwarder,  \* idle; changed: the cache is ahead of revision_tx; recovering
    request,    \* the action as it was received
    pc,         \* new, start, read, capture, decide, sleep, attach, done
    wait,       \* [target, deadline, since, seen, view]: execute_wait_for's locals;
                \* history: [bound]: the windows the target denoted when it was enriched
    outcome,    \* none, completed, timed_out, failed
    held,       \* history: since when the condition has held in the cache
    unseen      \* history: a state or a moment has gone by that the wait did not see

vars == <<now, cache, published, forwarder, request, pc, wait, outcome, held, unseen>>

Init ==
    /\ now = 0
    /\ cache \in [snapshot : Snapshots, rev : {1}, marked : {FALSE, Faults}, torn : {FALSE}]
    /\ published = 1 /\ forwarder = "idle"
    /\ request \in Requests
    /\ pc = "new" /\ outcome = "none" /\ held = None /\ unseen = cache.marked
    /\ wait = [target |-> request.target, deadline |-> 0, since |-> None, seen |-> 0,
               view |-> << >>, bound |-> {}]

Holds(snapshot) == wait_condition_matches(snapshot, wait.target, request.condition)

\* How a change of the cache at this moment continues `held`.
HeldAfter(snapshot, marked) ==
    IF marked \/ pc \in {"new", "start"} \/ ~Holds(snapshot) THEN None
    ELSE IfNone(held, now)

-----------------------------------------------------------------------------
(* enrich_action_target and execute_wait_for.                              *)

Bound(snapshot) ==
    IF request.target.kind = "Window"
      THEN {w.window_id : w \in resolve_window(snapshot, request.target.locator)}
      ELSE {}

\* Mutant: the target is left as the caller wrote it.
MutEnrichNothing(snapshot) ==
    wait' = [wait EXCEPT !.target = request.target, !.bound = Bound(snapshot)]

Enrich(snapshot) ==
    wait' = [wait EXCEPT !.target = Enriched(snapshot, request.target), !.bound = Bound(snapshot)]

\* A snapshot from the cache, or a capture, which may fail: then nothing is filled in.
EnrichTarget ==
    /\ pc = "new" /\ pc' = "start"
    /\ \/ ~cache.marked /\ Enrich(cache.snapshot)
       \/ cache.marked /\ \E captured \in Snapshots : Enrich(captured)
       \/ cache.marked /\ UNCHANGED wait
    /\ UNCHANGED <<now, cache, published, forwarder, request, outcome, held, unseen>>

\* The deadline is set and revision_tx subscribed before the first look at the state.
StartWait ==
    /\ pc = "start" /\ pc' = "read"
    /\ wait' = [wait EXCEPT !.deadline = now + request.timeout, !.seen = published]
    /\ held' = IF ~cache.marked /\ Holds(cache.snapshot) THEN now ELSE None
    /\ UNCHANGED <<now, cache, published, forwarder, request, outcome, unseen>>

\* Mutant: the receiver is taken only when the wait is about to sleep.
MutDecideSubscribesLate(matches) ==
    LET since == IF matches THEN IfNone(wait.since, now) ELSE None IN
    IF matches /\ now - since >= request.stable_for
      THEN outcome' = "completed" /\ pc' = "attach" /\ UNCHANGED wait
    ELSE IF now >= wait.deadline
      THEN outcome' = "timed_out" /\ pc' = "attach" /\ UNCHANGED wait
    ELSE /\ pc' = "sleep"
         /\ wait' = [wait EXCEPT !.since = since, !.seen = published]
         /\ UNCHANGED outcome

\* Mutant: the stability window is not restarted when the condition fails.
MutDecideKeepsSince(matches) ==
    LET since == IF matches THEN IfNone(wait.since, now) ELSE wait.since IN
    IF matches /\ now - since >= request.stable_for
      THEN outcome' = "completed" /\ pc' = "attach" /\ UNCHANGED wait
    ELSE IF now >= wait.deadline
      THEN outcome' = "timed_out" /\ pc' = "attach" /\ UNCHANGED wait
    ELSE /\ pc' = "sleep"
         /\ wait' = [wait EXCEPT !.since = since]
         /\ UNCHANGED outcome

\* The body of the loop, once a snapshot has been obtained and matched.
DecideOn(matches) ==
    LET since == IF matches THEN IfNone(wait.since, now) ELSE None IN
    IF matches /\ now - since >= request.stable_for
      THEN outcome' = "completed" /\ pc' = "attach" /\ UNCHANGED wait
    ELSE IF now >= wait.deadline
      THEN outcome' = "timed_out" /\ pc' = "attach" /\ UNCHANGED wait
    ELSE /\ pc' = "sleep"
         /\ wait' = [wait EXCEPT !.since = since]
         /\ UNCHANGED outcome

ReadState ==
    /\ pc = "read"
    /\ IF cache.marked
         THEN pc' = "capture" /\ UNCHANGED wait
         ELSE pc' = "decide" /\ wait' = [wait EXCEPT !.view = cache.snapshot]
    /\ UNCHANGED <<now, cache, published, forwarder, request, outcome, held, unseen>>

\* A failed capture fails the action, and with it the session.
CaptureState ==
    /\ pc = "capture"
    /\ \/ /\ \E captured \in Snapshots : wait' = [wait EXCEPT !.view = captured]
          /\ pc' = "decide" /\ UNCHANGED outcome
       \/ outcome' = "failed" /\ pc' = "done" /\ UNCHANGED wait
    /\ UNCHANGED <<now, cache, published, forwarder, request, held, unseen>>

Decide ==
    /\ pc = "decide"
    /\ DecideOn(Holds(wait.view))
    /\ UNCHANGED <<now, cache, published, forwarder, request, held, unseen>>

\* timeout(.., changed()) looks at the receiver first; several revisions are one.
RevisionArrives ==
    /\ pc = "sleep" /\ published # wait.seen
    /\ pc' = "read" /\ wait' = [wait EXCEPT !.seen = published]
    /\ UNCHANGED <<now, cache, published, forwarder, request, outcome, held, unseen>>

\* Mutant: the deadline is only looked at when a revision arrives.
MutDeadlinePassesNever ==
    /\ pc = "sleep" /\ published # wait.seen /\ now >= wait.deadline
    /\ pc' = "attach" /\ outcome' = "timed_out"
    /\ UNCHANGED <<now, cache, published, forwarder, request, wait, held, unseen>>

\* The condition is not evaluated again.
DeadlinePasses ==
    /\ pc = "sleep" /\ published = wait.seen /\ now >= wait.deadline
    /\ pc' = "attach" /\ outcome' = "timed_out"
    /\ unseen' = (unseen \/ forwarder = "changed")
    /\ UNCHANGED <<now, cache, published, forwarder, request, wait, held>>

\* should_attach_snapshot_artifact, for an action without artifacts of its own.
ShouldAttach ==
    \/ request.attach = "Always"
    \/ request.attach = "OnFailure" /\ outcome # "completed"

\* maybe_attach_snapshot_artifact: no snapshot is no error, a failed write is.
AttachSnapshot ==
    /\ pc = "attach" /\ pc' = "done"
    /\ \/ UNCHANGED outcome
       \/ ShouldAttach /\ outcome' = "failed"
    /\ UNCHANGED <<now, cache, published, forwarder, request, wait, held, unseen>>

-----------------------------------------------------------------------------
(* The forwarder, and time.                                                *)

Busy ==
    \/ pc \in {"read", "capture", "decide", "attach"}
    \/ pc = "sleep" /\ wait.seen # published

\* apply_diff under the lock; a diff may carry SnapshotResync, which marks the cache.
ApplyDiff ==
    /\ forwarder = "idle" /\ cache.rev < MaxRev
    /\ \E s \in Snapshots, marks \in {FALSE, Faults} :
         /\ unseen' = (unseen \/ Busy \/ cache.marked \/ marks)
         /\ cache' = [snapshot |-> s, rev |-> cache.rev + 1, marked |-> cache.marked \/ marks,
                      torn |-> FALSE]
         /\ held' = HeldAfter(s, cache.marked \/ marks)
    /\ forwarder' = "changed"
    /\ UNCHANGED <<now, published, request, pc, wait, outcome>>

\* A diff on another revision marks the cache; a failing operation leaves it torn.
DiffFails ==
    /\ Faults /\ forwarder = "idle" /\ cache.rev < MaxRev
    /\ forwarder' = "recovering" /\ unseen' = TRUE
    /\ \/ cache' = [cache EXCEPT !.marked = TRUE]
       \/ \E s \in Snapshots : cache' = [cache EXCEPT !.snapshot = s, !.torn = TRUE]
    /\ held' = HeldAfter(cache'.snapshot, cache'.marked)
    /\ UNCHANGED <<now, published, request, pc, wait, outcome>>

\* The recapture replaces the cache, or fails and leaves it marked.
Recapture ==
    /\ forwarder = "recovering"
    /\ \/ /\ \E s \in Snapshots :
               /\ cache' = [snapshot |-> s, rev |-> cache.rev + 1, marked |-> FALSE, torn |-> FALSE]
               /\ held' = HeldAfter(s, FALSE)
          /\ forwarder' = "changed"
       \/ forwarder' = "idle" /\ UNCHANGED <<cache, held>>
    /\ UNCHANGED <<now, published, request, pc, wait, outcome, unseen>>

\* Mutant: the number of the next revision is published.
MutPublishAhead ==
    /\ forwarder = "changed" /\ forwarder' = "idle"
    /\ published' = cache.rev + 1
    /\ UNCHANGED <<now, cache, request, pc, wait, outcome, held, unseen>>

Publish ==
    /\ forwarder = "changed" /\ forwarder' = "idle"
    /\ published' = cache.rev
    /\ UNCHANGED <<now, cache, request, pc, wait, outcome, held, unseen>>

\* The bound leaves room for the deadline.
Tick ==
    /\ now < MaxTime
    /\ pc \in {"new", "start"} => now + request.timeout < MaxTime
    /\ unseen' = (unseen \/ Busy \/ forwarder = "changed")
    /\ now' = now + 1
    /\ UNCHANGED <<cache, published, forwarder, request, pc, wait, outcome, held>>

WaiterNext ==
    \/ EnrichTarget \/ StartWait \/ ReadState \/ CaptureState \/ Decide
    \/ RevisionArrives \/ DeadlinePasses \/ AttachSnapshot

\* What happens after the wait is over is of no interest here.
Next ==
    /\ pc # "done"
    /\ \/ WaiterNext
       \/ ApplyDiff \/ DiffFails \/ Recapture \/ Publish
       \/ Tick

Spec == Init /\ [][Next]_vars

(***************************************************************************)
(* The runtime polls a task that can go on and time passes.  That a        *)
(* capture returns is assumed of the backend: it is not under a timeout.   *)
(* Nothing is assumed of the forwarder.                                    *)
(***************************************************************************)
Fairness == WF_vars(WaiterNext) /\ WF_vars(pc # "done" /\ Tick)

FairSpec == Spec /\ Fairness

-----------------------------------------------------------------------------
(* Properties.                                                             *)

Times == 0 .. MaxTime

\* Every variable has its type.
TypeOK ==
    /\ now \in Times
    /\ cache \in [snapshot : Snapshots, rev : 1 .. MaxRev + 1, marked : BOOLEAN, torn : BOOLEAN]
    /\ published \in 1 .. cache.rev
    /\ forwarder \in {"idle", "changed", "recovering"}
    /\ request \in Requests
    /\ pc \in {"new", "start", "read", "capture", "decide", "sleep", "attach", "done"}
    /\ wait.since \in Times \cup {None} /\ wait.seen \in 0 .. published
    /\ wait.deadline \in 0 .. 2 * MaxTime /\ wait.view \in Snapshots \cup {<< >>}
    /\ outcome \in {"none", "completed", "timed_out", "failed"}
    /\ held \in Times \cup {None} /\ unseen \in BOOLEAN

(***************************************************************************)
(* No wake-up is lost: while the wait sleeps and no revision is on its way *)
(* to it, what it found when it last looked is what the cache shows, as    *)
(* long as the cache is not marked or torn by a failed diff.               *)
(***************************************************************************)
NoWakeUpLost ==
    pc = "sleep" /\ published = wait.seen /\ forwarder = "idle" /\ ~cache.marked /\ ~cache.torn
        => (Holds(cache.snapshot) <=> wait.since # None)

\* Enrichment says more about the target, but nothing else than the caller said: at most
\* it exchanges an element for another one with the same id.
EnrichmentKeepsMeaning ==
    [][pc = "new" /\ pc' = "start" /\ ~cache.marked =>
         MeanTheSame(cache.snapshot, request.target, wait'.target)]_vars

(***************************************************************************)
(* A wait for a window that was open when the action arrived is decided by *)
(* that window, not by another one that answers the same description later.*)
(***************************************************************************)
WaitStaysOnTarget ==
    pc = "attach" /\ outcome = "completed" /\ wait.bound # {} /\ request.condition # "Gone" =>
        \A w \in resolve_window(wait.view, wait.target.locator) : w.window_id \in wait.bound

\* On the cached state, wait_for, get_tree and the fallback surfaces mean the same by a
\* target other than a region, and captures the same by an element.
SelectionsAgree == SelectionsAgreeOn(cache.snapshot, wait.target)

(***************************************************************************)
(* When nothing goes unseen the answer is true: a wait that completes has  *)
(* seen its condition hold for the whole stability window, and one without *)
(* a window times out only when the condition does not hold.               *)
(***************************************************************************)
AnswersAreTrue ==
    pc = "attach" /\ ~unseen =>
        /\ outcome = "completed" => held # None /\ now - held >= request.stable_for
        /\ outcome = "timed_out" /\ request.stable_for = 0 => held = None

\* Every wait ends, whatever the forwarder does.
WaitEnds == <>(pc = "done")

=============================================================================
