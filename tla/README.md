# TLA+ verification of vmui-agent

vmui-agent is a daemon that watches the user interface of a Windows desktop and
serves it to clients: a revisioned snapshot of all windows, a stream of diffs,
and actions on windows and elements. An MCP proxy turns its gRPC session into
tools for language models. This project models the parts whose correctness
depends on ordering, failure, timing and interleaving, checks them with TLC and
proves their safety properties with TLAPS.

## The system

| Part | State | Operations | Modules |
|---|---|---|---|
| UI state cache (`vmui-core`, `UiStateStore`) | snapshot, revision, resync mark | `replace_snapshot`, `apply_diff`, `mark_resync_required` | `UiStateStore` |
| UI tree (`vmui-core`, `apply_diff_op` and helpers) | windows, each a tree of elements | one operation per `DiffOp` | `WindowList`, `UiTree` |
| Daemon session (`vmui-agent`, `process_session`, `forward_backend_events`; `SessionRegistry`) | per-session context, session record with cache and ring of recent diffs, bounded response channel | hello, subscribe, actions, ping, end of session; forwarding and recovery | `DaemonSession`, implements `VersionedReplica` |
| Actions (`vmui-agent`, `execute_*`; `vmui-platform-windows`, `perform_action`) | the request under way, the backend's thread, artifacts written | every action kind, timeouts, attached snapshots | `ActionExecution` |
| `wait_for` (`vmui-agent`) | deadline, time since the condition holds, revision last seen | re-evaluation on every revision | `WaitFor` |
| Target resolution (`vmui-agent`) | none (pure) | `resolve_*`, enrichment, wait conditions, selections | `Targets` |
| Artifact store (`vmui-core`, `ArtifactStore`; `artifact_cleanup_loop`) | records, files, byte total, metrics | write, retention cleanup, startup sweep | `ArtifactStore` |
| MCP proxy (`vmui-mcp-proxy`) | session map; per worker: connection, pending action, replica, continuity flag | open, close, tool calls with reconnect and retry, reader loop | `McpWorker`; its replica is also the client of `DaemonSession` |
| Windows observer (`vmui-platform-windows/src/lib.rs`) | inventory, last snapshot, pending refreshes | coalesce, refresh, project, stabilise ids, diff | `WindowsObserver`, `WindowMatching`, `WindowIdentity`, `SnapshotDiff`, `DomainProfile` |
| Windows bindings (`windows_impl.rs`) | | capture, locators, event hooks, input | what they decide is in `WindowIdentity`, `WindowsObserver`, `ActionExecution` |
| Baseline comparison, telemetry and health, gRPC conversions, scripts | | | not modelled |

How they interact. A client opens a bidirectional stream. The *handler* task
(`process_session`) reads its messages one by one. `Subscribe` opens a backend
session, stores and sends the initial snapshot and spawns the *forwarder*
(`forward_backend_events`), which applies each backend diff to the session's
cache under the daemon's state lock, releases the lock, sends the diff on and
publishes the revision on a watch channel that waits listen to. A diff that does
not apply starts a recovery: a `snapshot_resync` signal to the client, a new
capture from the backend, the capture stored under a fresh revision and sent as
another initial snapshot. Both tasks write into one channel of 32 messages.
Actions read the cache through `best_effort_snapshot`, which goes to the backend
only when there is none or it is marked; those that act go to the backend, which
runs them on threads that nothing stops. Their payloads go to the artifact store, shared
by all sessions, which enforces its retention policy after every write and in a
periodic task.

On Windows the backend is an *observer*: a hook thread turns WinEvents into
refresh requests, a task collects them for 75 ms, coalesces them, captures what
they name, gives windows and controls the ids they had before and sends the
difference to the forwarder. On the other side the proxy keeps one *worker* per
logical session, with one gRPC stream, one action at a time (`action_lock`), and
a reader that applies what it reads to a replica, the same `UiStateStore`,
ignoring the result of `apply_diff`. A read-only call that fails reconnects and
tries again; a mutating one must not.

What is hard here: the lock is released between the steps of a recovery;
`apply_diff` works in place and may stop half way; two tasks share a bounded
channel that may fill up or lose its reader; every backend call may fail; an
abort takes effect only where a task waits; a wait sleeps on a channel that
keeps only the newest value; a backend thread outlives its timeout; the desktop
changes while it is captured; results carry no reference to their request that
the proxy looks at; streams break between a request and its result; a file that
cannot be deleted stops a cleanup in the middle. PROJECT.json lists each hazard
at its line with the properties that cover it.

## Modules

**UiStateStore** is the revision protocol of the cache as three operators. The
snapshot's content and the effect of a list of operations are CONSTANT
parameters (`Content`, `OpLists`, `ApplyOps`), with the assumptions the code
guarantees: the operation loop stops in some content, and `SnapshotResync` on
its own never fails. Keeping the trees out makes the session provable.

**WindowList** and **UiTree** give those parameters their meaning. Windows are a
sequence of records, elements are recursive records, and every `DiffOp` is an
operator that returns the new windows and whether it succeeded. What a failing
operation has already changed (`FocusChanged` clears the old focus first) is
kept. `WindowList` is what happens to the list: which window an operation finds,
the loop over the operations and the sorting after it; what happens below a
window's root is a parameter of it, which `UiTree` fills in. The loop is a
recursive function and everything that recurses over trees is in `UiTree`, so
that `WindowList` can be proved about. **MCUiTree**
applies operations to a desktop in every order and compares each with its
meaning on a flat table of nodes.

**DaemonSession** is one session: `handler`, `forwarder` and `client` as three
processes. A step ends where the code awaits or releases the lock, so a recovery
is four steps (apply and fail, read the revision, capture and store, send) and a
read of the state by an action is one or two. `out` is the response channel,
`ChannelCapacity` its size; a send needs a free slot and fails when the reader is
gone. The backend is anything its trait admits: diffs with arbitrary revisions
and operations, captures with arbitrary revisions, failures everywhere. `hist`
is a history variable: what the cache showed when each revision was committed.
An action appears as the state it reads, the reply it causes and the failure it
may end in. **MCDaemonSession** instantiates it with `UiTree` on a desktop of one
or two windows and four lists of operations, among them one that fails half way
on some desktops and one that carries `SnapshotResync`.

**VersionedReplica** is the abstract specification of a session: versions are
added under increasing numbers, and the replica either shows one of them, never
an older one than before, or is out of step. The refinement mapping takes `hist`
for the versions and an unmarked client for a replica in step
(`DaemonSession!ImplementsVersions`).

**Targets** is target resolution: windows by id, criteria or as the only one;
elements by id or locator, depth first; the enrichment of a target before
an action; the conditions of `wait_for`; and what `get_tree`, `write_artifact`
and bundles select. A window's tree is the sequence of its nodes in preorder
with their depths. Each of these is translated from its own function, although
several repeat the same search: that they agree is a property.

**WaitFor** is one `wait_for` action beside the forwarder and the clock. The
cache changes in one step and the revision is published in a later one; the
watch keeps the newest value and remembers which one was seen. A diff may fail
and tear the cache, which is then recaptured; a marked cache makes the wait
capture the desktop itself. `unseen` and `held` are history: whether the desktop
may have changed without a look at it, and since when the condition holds.
**MCWaitFor** is a form that is closed and opened again under new ids, and a
dialog, with a target for every way to resolve one.

**ActionExecution** is every action of the daemon and what the Windows backend
does for it. Each call of the backend's thread to the desktop is a step: capture
and resolve, find the element, `Invoke`, `DoDefaultAction`, `SetValue`, focus,
set the mouse, each round of the click loop, each key stroke, raise, screen
capture. A call that reports an error may have acted (`PatternFails`, the
failing cases of `Click` and `SendKeys`). `effects` records what an action has touched,
certainly or perhaps, and counts its successful pattern calls, clicks and key
strokes. The daemon's side has one action per executor and one for each wait:
`Request` up to the first await of `execute_action`, which is a capture when the
cache has no usable snapshot (`"enrich"`), the result, its timeout, after which
the thread goes on, the snapshot attached from the cache or from another capture
(`"attach_capture"`), and the answer; panel probes, bundles and OCR store
artifacts of their own. An `Err` ends the session where a failed result does not.
Controls that only their ordinal tells apart are the case modelled, since it is
where an action can go to a wrong one. `disturbed` is history: the actions under
which somebody else changed the row of controls, or took from them the focus or
the mouse that their next input relied on. **MCActionExecution** has a control
whose twin comes and goes in front of it.

**ArtifactStore** has one action per operation, since each runs under the write
lock. `cleanup` is part of `WriteBytes` as it is of `write_bytes`. The loop over
records in order of age is a set: a record is removed when it has expired, or
when a limit is still exceeded once all older records are gone; both describe
the same prefix of the order, because the conditions only get weaker along it.
A deletion may fail at any record of that prefix (`CleanupFails`), a write may
leave part of a file, the process may end and start again, and the wall clock
may be set back. Created and cleaned within one write read the same clock value.

**DomainProfile**, **WindowIdentity**, **WindowMatching**, **SnapshotDiff** and
**WindowsObserver** are the Windows backend's observation. `DomainProfile`: the
window filter, the 1C profiles and their annotations, over abstract texts
(`Hints` says what the code finds in one).
`WindowIdentity`: how a capture becomes windows with fingerprints, path ids and
locators, by UI Automation or MSAA; `element_match_score` and the matching of
elements in `stabilize_element`. `WindowMatching`: the greedy matching of windows
in `stabilize_windows`, by handle and by `window_match_score`. `SnapshotDiff`:
the operations of `diff_snapshots`, id by id.
`WindowsObserver`: the initial capture and the subscription after it, changes of
the desktop announced under the window's handle, a control's, none or not at
all, batches of any number of requests, their coalescing and application one
after the other with captures that fail or degrade, the commit of a batch, and
the daemon's cache at the other end. What `WindowsObserver` needs to know of
trees (capturing a window, keeping its ids, projecting it, finding and replacing
a node) are constants of the module, which **MCWindowsObserver** gives the
operators of `WindowIdentity`, `DomainProfile` and `UiTree`; the lists of windows
and of operations are in the module itself. It recurses over no tree and can be
proved about. Its assumptions say what the code's recursion over a tree leaves
alone or reaches:

- `CaptureAssumption`: a capture carries the handle it was asked for
  (`capture_window_from_metadata`);
- `KeepIdsAssumption`: `stabilize_window` changes nothing but ids;
- `WindowsAssumption`: windows with one id have one handle, since an id comes
  from a fingerprint that names it, and annotating a window changes no id of a
  window;
- `RootsAssumption`: the id of a window's root is found in that window and no
  other, replacing it leaves the new tree, and the element that
  `focused_element_id` returns is found again when `FocusChanged` looks for it.

The last two rest on the code's 64-bit hashes not colliding, as the code does.
TLC evaluates all of them over the 70 windows the run can meet (`MCWindows`) and
everything its profiles make of these. **MCWindowsObserver** is a form that
is retitled, relabelled, reordered and gains a control, and a dialog.

**McpWorker** is one logical session of the proxy: opener, closer, one task per
tool call, one reader per link (stream) and the daemon at the other end of each
link. A call goes through the session map, `action_lock`, the connection (with a
handshake on a new link if need be), `pending_action`, the send, the wait with
its timeout, the retry of read-only tools and, for JSON tools, the artifact
stream. `raced` records that a reader has handled a message after it was
aborted: `JoinHandle::abort` does not reach a task that is not waiting.

**DaemonSessionProofs**, **DaemonStreamProofs**, **ArtifactStoreProofs**,
**WaitForProofs**, **ActionExecutionProofs**, **McpWorkerProofs**,
**SnapshotDiffProofs** and **WindowsObserverProofs** hold the theorems.

## Runs

| Run | Shows |
|---|---|
| `daemon_safety` | in every interleaving, cache and replica stay coherent and in order: `ClientReplicaCoherent`, `DeliveredDiffApplies`, `CacheCoherentOutsideRecovery`, `RecentDiffsChain`, `DrainedClientCaughtUp`, `RevisionsNeverDecrease`; the session implements `VersionedReplica` (`ImplementsVersions`) |
| `daemon_liveness` | while no operation fails: actions see committed states only (`CachedReadIsCommitted`), with one slot in the channel a reading client catches up (`ClientCatchesUp`), an orderly end stops the forwarder for good (`ClosedSessionQuiesces`) |
| `daemon_torn_read` | `CachedReadIsCommitted` is violated once an operation can fail: an action is served a half-applied snapshot under the old revision |
| `daemon_resync` | a client that was told to resync may never get the snapshot that docs/protocol.md promises |
| `ui_tree` | each tree operation matches the table (`TreeMatchesTable`) |
| `wait_for` | no revision is missed (`NoWakeUpLost`), the wait stays on the window it was asked about (`WaitStaysOnTarget`), enrichment changes what was asked at most to another element with the same id (`EnrichmentKeepsMeaning`), the different searches agree (`SelectionsAgree`), the answer is true (`AnswersAreTrue`), every wait ends (`WaitEnds`) |
| `action_execution` | the successful calls of an action never exceed what it was asked for, one that reports success has done just that, on its target unless disturbed (`ActsOnTarget`); answers are final and name what was stored (`AnswersAreFinal`); a timed request ends although the backend may hang and the other session acts, unless the daemon waits for a capture of its own (`TimedActionsEnd`) |
| `artifact_store` | a record has its file (`RecordHasFile`), retention and byte accounting hold (`RetainedCountAndAge`, `BytesAccounted`), rotation is by age and removes no more than it must (`EvictsOldestFirst`, `EvictsOnlyWhatItMust`) |
| `artifact_metadata` | a failed deletion leaves a stored artifact that the metadata no longer names |
| `windows_observer` | the observer's diffs always apply at the daemon (`DaemonFollows`), no announced change is lost by coalescing (`NothingForgotten`) and each is shown in the end (`EventuallyShown`), controls keep their ids as long as none is inserted (`IdsKeptUnlessInserted`) |
| `windows_ids` | without that condition they do not (`IdsFollowControls`) |
| `proxy` | a mutating request goes out and is executed at most once (`MutatingAtMostOnce`), lost continuity is reported (`ContinuityReported`), results and streams belong together (`AnswerBelongsToCall`, `OneStream`), every call ends (`CallsEnd`) |

Every stateful module also has its type invariant checked in its run.

### Bounds

`daemon_safety` takes three backend events (`MaxEvents`), enough for a diff, a
failing diff with its recovery and another diff after it; two channel slots, so
that handler and forwarder both fill and wait; a ring of two, so that it
overflows; captures with revision 1, as the Windows backend numbers all of them,
against revisions up to 5 in the diffs, so that renumbering matters. The other
daemon runs take two events; those with fairness one slot, to make senders wait
for each other.

`ui_tree` allows two windows and five nodes in total, which includes a node
moved below a replaced subtree and operations across windows.

`wait_for` has four desktops, one of them with two elements under one id; the desktop, a region, the only window, windows by
id and by title, elements by id and by locator; the conditions Exists, Gone and
Focused; timeouts of one and two units with a stability window of none or one;
and three revisions: a change, a failed diff with its recapture, and one more
while the wait looks. So `WaitEnds` does not speak of a desktop that never rests.

`action_execution` asks for requests that use a pattern, one click, two clicks and
keys, for raising the window with a snapshot attached, a panel probe, a read
action, a bundle and OCR, addressed as the only control, the first and the second
of two. `send_keys` and `capture_region` take no step that none of these takes,
but `send_keys` looks for its target only when it takes the focus. Two requests
follow each other in one session, so that the thread of the first may still run
under the second, or are under way in two sessions at once, while the row of
controls, the focus or the mouse changes once. `FirstIsFirst` has session 1 make
the first request: the sessions are alike, so this leaves out mirror images only
(TLC's own symmetry is not sound for liveness).

`artifact_store` has three ids, sizes below, at and above what `max_bytes`
leaves (an artifact may exceed it alone), two artifacts by count and three clock
values around `max_age`.

`windows_observer` has two windows, four profiles (attached or not, filtered,
1C), two changes, each with all four ways to announce it, and one capture that
fails or degrades; a window is read down to the controls.

`proxy` has a read-only call with an artifact and a mutating one, a second link
for one reconnect, and one unsolicited message. A third link adds only states in
which another reconnect follows the same code.

The diffs, captures, operations, desktops and requests of a run are sets chosen
in the MC module; the theorems cover all others.

### Fairness

- *Daemon session.* Tokio runs a task that is not waiting (weak fairness of the
  handler's and the forwarder's own steps), a full `mpsc` channel hands free
  slots to its waiting senders in order (strong fairness of the forwarder's
  send), an aborted task stops, and the client reads. Nothing is assumed of
  requests and backend events: they may stop coming.
- *Waits.* The waiting task runs when it can (weak fairness of its steps), time
  passes (weak fairness of `Tick`) and a capture returns, which the code does not
  put under a timeout. Nothing is assumed of the forwarder.
- *Actions.* Each session and its timer run (weak fairness of `DaemonStep`). Of
  the backend nothing is assumed: its threads may hang, and so may the captures
  the daemon takes for itself (`CaptureReturns`), which have no timeout.
- *Observer.* The observer and the forwarder run when they can. This is weak
  fairness with ENABLED written out, because evaluating it would search the
  captures of a whole batch.
- *Proxy.* Each call's own steps run, its timer among them, and a handshake ends
  one way or the other: `connect` itself has no timeout.

`CHECK_DEADLOCK FALSE` is set where the system ends or rests: sessions, waits,
calls and actions come to an end, the desktop's bounded changes run out, and a
bounded tree may be full. The artifact store never deadlocks.

## Proofs

All theorems hold for every value of the constants that meets the ASSUMEs: any
backend, operations, capacity and ring size, any retention policy, any desktops
and requests, any number of sessions, calls and links.

*Daemon side* (`DaemonSessionProofs`). `CacheCoherentOutsideRecovery` and
`RecentDiffsChain` are not inductive. `DaemonInv` adds `Flow` (which values of
the two program counters go together, when a cache exists, what message each
sending state holds) and `CacheInv` (every revision in `hist` is at most the
cache's, so that committing a new revision cannot change what an old one showed;
in each step of a recovery, how the cache may differ from what it committed).
Theorems: `TypeCorrect`, `CacheIsCoherent`, `RecentDiffsAreAChain`. With
`NoOperationFails` as an assumption, a diff that does not apply marks the cache
(`FailureMarks`), and `CachedReadsAreCommitted` follows; the run `daemon_torn_read`
shows that the assumption cannot be dropped.

*Stream* (`DaemonStreamProofs`). What the client will hold depends on what is in
flight. `StreamInv` says that reading the messages in `out` one after the other
(`Replays`, as a sequence of replicas, so that no recursion is needed) keeps an
unmarked replica coherent and makes every diff on the way apply, and that the
replica at the end of the stream is in step with the forwarder (`InStep`): equal
to the cache, one diff behind while one waits to be sent, or marked between
signal and snapshot. Sending appends one replica, receiving drops one. Theorems:
`ReplicaIsCoherent`, `DiffsApply`, `RevisionsAreMonotone`, and
`DrainedClientIsCaughtUp`, for which `Level` says that the last replica of the
stream is the cache itself, its mark included.

*Refinement* (at the end of `DaemonStreamProofs`). Under the two invariants every step of a
session is a step of `VersionedReplica` or leaves its state alone: a commit adds
a version because its revision is above all in `hist`, and what the client
receives is a version, a later one than it had, or a mark.
`SessionImplementsVersions` is the theorem.

*Artifacts* (`ArtifactStoreProofs`). `StoreInv` adds
finiteness of the records, their ids among the issued ones, and their absence
while the daemon is down. The count after a cleanup follows from the oldest
survivor: it was not over the limit and all other survivors are newer. Theorems:
`RecordsAreReadable`, `RetentionIsEnforced`. Bytes are sums over finite sets,
which the code computes with a fold. That such a sum exists, is unique, does not
depend on the order and splits in two is proved by minimal counterexamples: among
the subsets of a finite set for which a statement fails there would be a
smallest one (`MinimalSet`, from the well-foundedness of strict inclusion). On
these rest `BytesInv` and the theorems `StoreTypeCorrect`, `AccountsAreKept`,
`EvictionsGoByAge` (what is removed is a prefix of the order of age, because both
limits only get weaker along it) and `EvictionsAreNeeded` (everything but the
survivors and the newest evicted is older than that one, so the limit that
condemned it is the one the property names).

*Waits* (`WaitForProofs`). `WaitInv` joins the types with what is published
and seen, what the last look found, how far clock and deadline can be apart, the
past of the condition, and that a sleeping wait has seen what was published.
Theorems: `WaitTypeCorrect`, `NoWakeUpIsLost`, `WaitIsBoundToItsWindow`,
`WaitAnswersTruly`, `EnrichmentPreservesMeaning`. They rest on `SnapshotOK`: no
two windows of a snapshot have one id. Elements may, as disagreement 4 below
shows that those of the Windows backend do. `EnrichmentPreservesMeaning` says what is
then left of a target's meaning (`MeanTheSame`): an element that was named by its
locator may become another one with the same id, and stays itself where its id is
its own (`EnrichedElement`); all other targets keep every condition.

`ActionsAgreeOnTargets` says that a wait, `get_tree`, captures and the fallback
surfaces of a report mean the same thing by a target (`SelectionsAgree`): Exists
holds exactly when there is a tree, whose fallback surfaces are those reported;
the tree of an element is the element with all its descendants, and the window
that is captured is the one it is in. Regions have no tree and are left out, and
captures of windows and desktops are found by the same search as their trees. Of the invariant it uses that a wait's snapshot is one of
`Snapshots`, and beside it that enriching keeps the kind of a target; the rest
follows from the shape of a snapshot. A search by id or by locator finds one node
at most (`ResolvedElement`); nodes are listed in preorder with their depths, so
the run of deeper nodes after an element is its subtree, and an ancestor relation
read off the depths names the same nodes (`SubtreeIsDescendants`, by the last
place of a finite run).

*Actions* (`ActionExecutionProofs`). Neither `ActsOnTarget` nor `AnswersAreFinal`
is inductive. `ActionInv` adds, for each backend thread, what its successful calls
add up to at each of its steps (`SoFar`: what is done and what is left make what
was asked for) and, while it is not disturbed, that place, element, focus and
mouse are still those of its target (`Aimed`), as far as the step it is at relies
on them; and, for each request, how thread, stored artifacts and answer agree
(`CallOK`, `Settled`). A step of one thread keeps its own part by one lemma per
call of the backend (`PatternKept`, `ClickKept`, ...), and that of every other
thread because whoever changes what that one relies on disturbs it (`Frame`).
Theorems: `ActionTypeCorrect`, `ActionsHitTheirTarget`, `ActionAnswersAreFinal`.

*Proxy* (`McpWorkerProofs`). `WorkerInv` has four parts: the types and which link
was dialled; `AtMostOnce`, where a mutating request is on its way; `Continuity`,
who knows of a second link; and, as long as nothing has `raced`, `Orderly`: one
holder of `action_lock`, one live reader, and at most one request, result in
flight or pending entry, all of the same call. Theorems: `WorkerTypeCorrect`,
`MutatingRequestsGoOutOnce`, `ContinuityIsReported`, `AnswersBelongToTheirCalls`,
`SessionKeepsOneStream`.

*Observer* (`WindowsObserverProofs`). `NothingForgotten` (of each window, nobody
announced the last change, or a request that will look at it waits, or the
inventory shows it as it is) is not inductive: whether refreshing one window
leaves the others shown depends on the inventory listing no handle twice, and
whether taking a request off a batch forgets a window depends on the batch naming
none twice and nothing beside the desktop. `ObserverInv` adds these (`Typing`),
extends the property to the time between the initial capture and the
subscription (`Told`), and chains the counters (`Budget`: a revision needs a
batch, a batch a request, a request a change), without which the bounds in
`TypeOK` do not follow. There is one lemma per action. Under them are one lemma for
each way a window's refresh can end (`WindowRetained`, `WindowAdded`,
`WindowReplaced`), one for the desktop's (`DesktopRefreshed`), one for
`stabilize_windows`, which leaves handles and what is shown as captured whichever
earlier windows it matches (`StabilizedWindows`), and one for coalescing, which keeps for every request
itself or the desktop (`Coalesced`). Theorems: `TypeCorrect`,
`NothingIsForgotten`, for any windows, profiles, captures and bounds that meet
the module's assumptions.

*Diffs* (`SnapshotDiffProofs`, and the last part of `WindowsObserverProofs`).
`DaemonFollows` says that the observer's diffs apply at the daemon and leave its
cache equal to the observer's snapshot. It needs two arguments.

The first is about operations alone: applied to what the daemon holds of a
snapshot, `diff_snapshots` of it and the next one succeeds and leaves the next
one (`DiffApplies`). While the operations run the list is neither: for the ids
that are done it holds the new windows, for the others the old (`Mix`), in
whatever order removals and insertions have left. `BlockIsRun` takes one id
through its operations (added, removed, removed and added again, its root
replaced, its focus moved) with one lemma for what each does to the list
(`WindowIsAdded`, `WindowIsRemoved`, `RootIsReplaced`, `FocusIsMoved`), which all
turn on an id naming one window and the root's id being found in that one alone.
`DiffIsRun` goes over the ids, a smallest one that fails being the contradiction.
At the end the windows are the right ones in some order, and sorting puts them
in the snapshot's (`SortedWindows`): each window's place is one more than the number of
windows before it, and so its place among the ids in order. That the recursive functions of the
loop and of the list of operations satisfy their equations is proved here too,
in the same way (`RunExists`, `OpsListExists`): a smallest length for which there
is no such function cannot be. A capture torn by a moving focus may show two
focused nodes in a window, of which `FocusChanged` keeps one: what the daemon
holds of such a window is then the window with its focus moved (`Cached`), and
every lemma is stated for both (`exact` or not).

The second is about the stream. `DaemonFollows` alone is not inductive: a diff
applies because the cache shows the snapshot it was computed from, which by then
is not the observer's any more. `Following` adds the snapshots the daemon is
still to be told (`Behind`): as many as there are diffs under way and one more,
the first what the cache shows, the last the observer's, each diff the difference
of its neighbours, under consecutive revisions. Sending appends one, applying
drops one, all other steps leave them alone. `DaemonKeepsUp` is the theorem.

Model-checked only:

- liveness (`ClientCatchesUp`, `ClosedSessionQuiesces`, `WaitEnds`,
  `TimedActionsEnd`, `EventuallyShown`, `CallsEnd`), which is beyond the prover;
- `TreeMatchesTable`, and with it `UiTree`: what an operation does below a
  window's root recurses over trees of any depth, as `RECURSIVE` operators, and
  is a statement for every tree, an induction over data. The prover accepts no
  module with such operators, and the library's induction theorems cannot be
  instantiated here. What `WindowsObserver` uses of it are `RootsAssumption`'s
  few facts about a root;
- `IdsKeptUnlessInserted`: an induction over the tree that `stabilize_element`
  walks. An assumption on the constant of `WindowsObserver` strong enough to
  prove it would be the property itself;
- that the operators of `WindowIdentity`, `DomainProfile` and `UiTree` meet the
  assumptions of `WindowsObserver`, for the same reason: TLC evaluates them for
  the windows of the run.

## Disagreements found

1. `daemon_torn_read`: a diff that fails half way leaves an unmarked,
   half-applied cache that actions are served from until the recapture
   (`UiStateStore::apply_diff`), against the revisioned state of the
   ui-state-cache specification.
2. `daemon_resync`: a backend diff with `SnapshotResync` is forwarded as a
   success and never followed by a snapshot, against docs/protocol.md.
3. `artifact_metadata`: a failed deletion leaves a file without a record,
   against the retention scenario of daemon-runtime-hardening.
4. `windows_ids`: a control inserted before siblings of its class takes over the
   id of one of them; the displaced control gets its path id anew, which may be
   the stolen one, and an action on the id goes to whichever control the backend
   finds. The windows-ui-observer specification promises that matched elements
   keep their ids.

## Known deviations

Behaviour of the code that the models contain or that was met while writing
them, and that no property claims to be otherwise.

*Waits.* `execute_wait_for` sleeps until the next revision or the deadline, never
until a stability window ends: on a desktop that has come to rest it answers
TimedOut although the condition has held for long enough. `AnswersAreTrue`
therefore judges a timeout only for waits without a window. Where two elements
have one id (disagreement 4), enrichment adds the id to a target given by its
locator alone, and the id is searched first: the wait, or the action, then goes to
the first element with that id.

*Proxy.* A call that times out leaves `pending_action` set, so that the next one
(and its retry) is told that an action is already pending until the reader ends.
Closing a session does not take `action_lock`: a retry under way reconnects the
closed worker, whose stream then outlives its session. A reader that exits resets
the worker's connection, also one that was made meanwhile; the next call then
connects again beside it. `raced` marks this case:
`AnswerBelongsToCall` and `OneStream` speak of sessions in which no aborted
reader got its last message through.

*Actions.* The thread of a timed-out action goes on and may act while the next
action does, and sessions act on one desktop without a lock. Whoever takes the
focus from an action that types, or the mouse from one between its clicks, makes
it act on something else, and it reports success all the same: of the actions in
`disturbed`, `ActsOnTarget` promises how much they do and not where. `Invoke` and
`DoDefaultAction` may fail after they have acted; the next attempt, a click in
the end, follows nevertheless, so that a control may be activated twice. A click
or key stroke that fails after others went through is an `Err` with an effect.
Clicks go to the bounds that were captured before the window was raised. The
captures that `best_effort_snapshot` asks for when the cache is missing or marked
have no timeout, before the action's own one starts and after it has passed: a
backend that hangs holds the session there, which `TimedActionsEnd` excepts. The
screenshots of OCR and of diagnostic bundles are backend actions awaited without
a timeout too, although docs/protocol.md:59 has `timeout_ms` apply to backend
action execution; `TimedActionsEnd` is about the other actions. Some failures are `Err`
where the semantic-action-execution specification asks for a failed result
(missing targets of `get_tree` and `write_artifact`, failing `SetValue` and
`send_keys`, panel probes that cannot capture) and so end the session.

*Observer.* A failed refresh is not retried before the next event, and one
window that cannot be read makes a whole desktop capture fail. Events for
destroyed, moved and reordered windows are not hooked, and an event may name a
child control, which is then captured as if it were a top-level window. A change
between the initial capture and the subscription goes unnoticed. A capture that
is torn by a moving focus may hold two focused nodes; the diff that follows keeps
one. After a recovery of the session's cache the observer goes on numbering from
its own snapshot, so that every later diff is stale and recovers again. The
executor computes ids without stabilising them, so that a window whose title has
changed is not found under the id the client knows.

*Daemon.* Every failing exit of `process_session` leaves the forwarder running
and the session active in the registry, and records of closed sessions are never
removed.

*Baseline comparison.* A window without process name, class name and profile
matches nothing: compared with itself, a snapshot reports it as both added and
removed.

## Not modelled

Telemetry and health: counters that other parts report to and that nothing reads
to decide anything. `compare_snapshots` and `match_windows`: a pure report over
two stored snapshots. gRPC conversions: stateless field copies; a message that
does not decode is a failing exit of the handler. Win32, COM, image and OCR
calls: I/O, present as outcomes. Scripts; logging; the wording of warnings; the
JSON layout of payloads; the numbers of artifacts deleted and of cleanups run;
the proxy's status report. Several sessions at once appear where they share
something that matters, the desktop in `ActionExecution` (the theorems are for
any number of sessions) and the store in `ArtifactStore` (any sequence of
operations).

## Plan

What would add most next:

1. `compare_snapshots` as operators against a reference matching, since the case
   named above is one that a reference would reject.
2. The observer composed with `DaemonSession`, to state how recoveries go on
   after the first one; today `WindowsObserver` shows that none starts.
3. The proxy with two logical sessions and the session map as a whole.
