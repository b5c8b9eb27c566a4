---------------------------- MODULE DaemonSession ----------------------------
(***************************************************************************)
(* One gRPC session of the vmui-agent daemon.  Three tasks interleave:     *)
(*                                                                         *)
(*   - the handler (`process_session`), which reads the client's messages  *)
(*     one by one and answers them;                                        *)
(*   - the forwarder (`forward_backend_events`), spawned by Subscribe,     *)
(*     which applies the backend's diffs to the session's cache and sends  *)
(*     them on, or recovers with a fresh snapshot when one does not apply; *)
(*   - the client, which reads the response stream into a replica of the   *)
(*     cache (the MCP proxy's `reader_loop`).                              *)
(*                                                                         *)
(* A step ends where the code awaits or releases the state lock.  What the *)
(* backend or the client does next is chosen when it is read: nobody else  *)
(* can see those queues.  Backends are anything the UiBackend trait        *)
(* admits: diffs with any revisions, captures with any revision, failures. *)
(***************************************************************************)
EXTENDS UiStateStore, Sequences

CONSTANTS
    DiffRevs,         \* pairs <<base_rev, new_rev>> a backend diff may carry
    Captures,         \* what the backend can capture
    SnapshotRevs,     \* revisions a captured snapshot may carry
    ChannelCapacity,  \* capacity of the mpsc channel behind the response stream
    MaxRecentDiffs,   \* MAX_RECENT_DIFFS
    MaxEvents         \* bound: backend events delivered to the forwarder

ASSUME BackendAssumption ==
    /\ DiffRevs \subseteq Nat \X Nat
    /\ SnapshotRevs \subseteq Nat
    /\ Captures \subseteq Content

ASSUME BoundsAssumption ==
    /\ ChannelCapacity \in Nat \ {0}
    /\ MaxRecentDiffs \in Nat \ {0}
    /\ MaxEvents \in Nat

VARIABLES
    handler,   \* process_session: program counter, context, message to send
    forwarder, \* forward_backend_events: program counter, message to send
    session,   \* the SessionRecord's life: absent, active, closed (closed_at set)
    store,     \* the session's UiStateStore in the SessionRegistry
    recent,    \* recent_diffs of the SessionRecord
    out,       \* the response stream: messages sent and not yet read
    reading,   \* the client still reads the stream (the receiver exists)
    client,    \* the client's replica of the cache
    events,    \* number of backend events taken so far
    hist       \* history: what the cache showed when each revision was committed

vars == <<handler, forwarder, session, store, recent, out, reading, client,
          events, hist>>

-----------------------------------------------------------------------------
(* Messages of the response stream, and what the client does with them.    *)

DiffMsgs     == [type : {"DiffBatch"}, base : Nat, new : Nat, ops : OpLists]
SnapshotMsgs == [type : {"InitialSnapshot"}, rev : Nat, content : Content]
PlainMsgs    == [type : {"HelloAck", "ActionResult", "Warning", "Pong", "Status"}]
Msgs         == DiffMsgs \cup SnapshotMsgs \cup PlainMsgs

DiffBatch(base, new, ops) ==
    [type |-> "DiffBatch", base |-> base, new |-> new, ops |-> ops]

InitialSnapshot(rev, content) ==
    [type |-> "InitialSnapshot", rev |-> rev, content |-> content]

Plain(type) == [type |-> type]

\* The replica after one message (reader_loop: `let _ = apply_diff(..)`).
Receive(replica, m) ==
    CASE m.type = "InitialSnapshot" -> replace_snapshot(m.rev, m.content)
      [] m.type = "DiffBatch"       -> apply_diff(replica, m).store
      [] m.type \notin {"InitialSnapshot", "DiffBatch"} -> replica

\* Mutant: the capture keeps the backend's revision.
MutNormalizeKeepsRevision(rev, current_rev) == rev

\* normalize_snapshot_revision: a capture is renumbered past the cache.
normalize_snapshot_revision(rev, current_rev) ==
    IF rev <= current_rev THEN current_rev + 1 ELSE rev

Commit(h, rev, content) ==
    [r \in DOMAIN h \cup {rev} |-> IF r = rev THEN content ELSE h[r]]

\* Mutant: nothing is dropped from the ring.
MutRememberUnbounded(ring, diff) == Append(ring, <<diff.base, diff.new>>)

\* apply_diff of the SessionRegistry: the ring keeps the newest diffs.
Remember(ring, diff) ==
    LET kept == IF Len(ring) = MaxRecentDiffs THEN Tail(ring) ELSE ring
    IN  Append(kept, <<diff.base, diff.new>>)

-----------------------------------------------------------------------------

NoView == [src |-> "none", rev |-> 0, content |-> NoSnapshot]

Init ==
    /\ handler = [pc |-> "recv", hello |-> FALSE, subscribed |-> FALSE,
                  emit |-> FALSE, reply |-> "Pong", base |-> 0, view |-> NoView]
    /\ forwarder = [pc |-> "off", msg |-> Plain("Pong"), aborted |-> FALSE,
                    refresh_failed |-> FALSE]
    /\ session = "absent"
    /\ store = EmptyStore
    /\ recent = << >>
    /\ out = << >>
    /\ reading = TRUE
    /\ client = EmptyStore
    /\ events = 0
    /\ hist = [r \in {} |-> NoSnapshot]

\* tx.send(..).await: waits for room; fails when the receiver is gone.
CanSend == reading /\ Len(out) < ChannelCapacity

Send(m) == CanSend /\ out' = Append(out, m)

\* Any `?` of process_session: the task leaves the loop with a Status.
HandlerFails == handler' = [handler EXCEPT !.pc = "failed"]

-----------------------------------------------------------------------------
(* The handler: one message of the client at a time.                       *)

HandleHello ==
    /\ handler.pc = "recv"
    /\ \/ /\ ~handler.hello                       \* profile accepted
          /\ session' = "active"                  \* open_session
          /\ store' = EmptyStore
          /\ recent' = << >>
          /\ handler' = [handler EXCEPT !.pc = "hello_ack"]
       \/ /\ HandlerFails                         \* repeated hello, bad profile
          /\ UNCHANGED <<session, store, recent>>
    /\ UNCHANGED <<forwarder, out, reading, client, events, hist>>

SendHelloAck ==
    /\ handler.pc = "hello_ack"
    /\ \/ /\ Send(Plain("HelloAck"))
          /\ handler' = [handler EXCEPT !.pc = "recv", !.hello = TRUE]
       \/ /\ ~reading
          /\ HandlerFails
          /\ UNCHANGED out
    /\ UNCHANGED <<forwarder, session, store, recent, reading, client, events, hist>>

\* Mutant: the snapshot is sent before the backend session is open.
MutSubscribeSkipsBackend ==
    /\ handler.pc = "recv"
    /\ handler.hello /\ ~handler.subscribed
    /\ handler' = [handler EXCEPT !.pc = "initial_snapshot"]
    /\ UNCHANGED <<forwarder, session, store, recent, out, reading, client, events, hist>>

\* Guards only; mark_subscribed sets a timestamp nothing here depends on.
HandleSubscribe ==
    /\ handler.pc = "recv"
    /\ \/ /\ handler.hello /\ ~handler.subscribed
          /\ \E include_diff_stream \in BOOLEAN :
                handler' = [handler EXCEPT !.pc = "open_backend",
                                           !.emit = include_diff_stream]
       \/ /\ ~handler.hello \/ handler.subscribed
          /\ HandlerFails
    /\ UNCHANGED <<forwarder, session, store, recent, out, reading, client, events, hist>>

\* backend.open_session(..).await, then apply_snapshot under the lock.
OpenBackendSession ==
    /\ handler.pc = "open_backend"
    /\ \/ \E rev \in SnapshotRevs, content \in Captures :
            /\ store' = replace_snapshot(rev, content)
            /\ recent' = << >>
            /\ hist' = Commit(hist, rev, content)
            /\ handler' = [handler EXCEPT !.pc = "initial_snapshot"]
       \/ /\ HandlerFails
          /\ UNCHANGED <<store, recent, hist>>
    /\ UNCHANGED <<forwarder, session, out, reading, client, events>>

\* The snapshot goes out first; only then is the forwarder spawned.
SendInitialSnapshot ==
    /\ handler.pc = "initial_snapshot"
    /\ \/ /\ Send(InitialSnapshot(store.rev, store.snapshot))
          /\ forwarder' = [forwarder EXCEPT !.pc = "recv"]
          /\ handler' = [handler EXCEPT !.pc = "recv", !.subscribed = TRUE]
       \/ /\ ~reading
          /\ HandlerFails
          /\ UNCHANGED <<forwarder, out>>
    /\ UNCHANGED <<session, store, recent, reading, client, events, hist>>

HandleActionRequest ==
    /\ handler.pc = "recv"
    /\ \/ /\ handler.hello /\ handler.subscribed
          /\ handler' = [handler EXCEPT !.pc = "read_state"]
       \/ /\ ~handler.hello \/ ~handler.subscribed
          /\ HandlerFails
    /\ UNCHANGED <<forwarder, session, store, recent, out, reading, client, events, hist>>

(***************************************************************************)
(* execute_action reads the state one or more times (enrich_action_target, *)
(* the action itself, the diagnostic attachment), each time through        *)
(* best_effort_snapshot.  First half: the cache is served unless it is     *)
(* marked.  The action may also end with a Status (target not found,       *)
(* backend or artifact error).                                             *)
(***************************************************************************)
ReadCachedState ==
    /\ handler.pc = "read_state"
    /\ \/ /\ store.snapshot # NoSnapshot /\ ~store.resync
          /\ \E next \in {"read_state", "reply"} :
               handler' = [handler EXCEPT
                              !.pc = next, !.reply = "ActionResult",
                              !.view = [src |-> "cache", rev |-> store.rev,
                                        content |-> store.snapshot]]
       \/ /\ store.snapshot = NoSnapshot \/ store.resync
          /\ handler' = [handler EXCEPT !.pc = "capture", !.base = store.rev]
       \/ HandlerFails
    /\ UNCHANGED <<forwarder, session, store, recent, out, reading, client, events, hist>>

(***************************************************************************)
(* Second half: the lock was released, so the capture is numbered from the *)
(* revision read before it; it is not stored.  enrich_action_target goes   *)
(* on without a snapshot when the capture fails, an action returns Err.    *)
(***************************************************************************)
CaptureForAction ==
    /\ handler.pc = "capture"
    /\ \/ \E rev \in SnapshotRevs, content \in Captures, next \in {"read_state", "reply"} :
            handler' = [handler EXCEPT
                            !.pc = next, !.reply = "ActionResult", !.base = 0,
                            !.view = [src |-> "capture",
                                      rev |-> normalize_snapshot_revision(rev, handler.base),
                                      content |-> content]]
       \/ handler' = [handler EXCEPT !.pc = "read_state", !.base = 0]
       \/ HandlerFails
    /\ UNCHANGED <<forwarder, session, store, recent, out, reading, client, events, hist>>

\* ReadArtifact is answered with a warning, Ping with Pong, hello or not.
HandleReadArtifactOrPing ==
    /\ handler.pc = "recv"
    /\ \E answer \in {"Warning", "Pong"} :
          handler' = [handler EXCEPT !.pc = "reply", !.reply = answer]
    /\ UNCHANGED <<forwarder, session, store, recent, out, reading, client, events, hist>>

SendReply ==
    /\ handler.pc = "reply"
    /\ \/ /\ Send(Plain(handler.reply))
          /\ handler' = [handler EXCEPT !.pc = "recv", !.reply = "Pong", !.view = NoView]
       \/ /\ ~reading
          /\ HandlerFails
          /\ UNCHANGED out
    /\ UNCHANGED <<forwarder, session, store, recent, reading, client, events, hist>>

\* Mutant: the forwarder is not aborted.
MutInboundEndsNoAbort ==
    /\ handler.pc = "recv"
    /\ handler' = [handler EXCEPT !.pc = IF handler.hello THEN "closing" ELSE "done"]
    /\ UNCHANGED <<forwarder, session, store, recent, out, reading, client, events, hist>>

\* The client half-closed: the loop ends, the forwarder is aborted.
InboundEnds ==
    /\ handler.pc = "recv"
    /\ handler' = [handler EXCEPT !.pc = IF handler.hello THEN "closing" ELSE "done"]
    /\ forwarder' = [forwarder EXCEPT !.aborted = (forwarder.pc # "off")]
    /\ UNCHANGED <<session, store, recent, out, reading, client, events, hist>>

CloseSession ==
    /\ handler.pc = "closing"
    /\ session' = "closed"
    /\ handler' = [handler EXCEPT !.pc = "done"]
    /\ UNCHANGED <<forwarder, store, recent, out, reading, client, events, hist>>

\* A transport error or a message that does not decode (`message?`).
InboundFails ==
    /\ handler.pc = "recv"
    /\ HandlerFails
    /\ UNCHANGED <<forwarder, session, store, recent, out, reading, client, events, hist>>

\* session(): the Status is pushed into the stream, whatever becomes of it.
SendStatus ==
    /\ handler.pc = "failed"
    /\ \/ Send(Plain("Status"))
       \/ ~reading /\ UNCHANGED out
    /\ handler' = [handler EXCEPT !.pc = "done"]
    /\ UNCHANGED <<forwarder, session, store, recent, reading, client, events, hist>>

-----------------------------------------------------------------------------
(* The forwarder.                                                          *)

TakeEvent == forwarder.pc = "recv" /\ events < MaxEvents /\ events' = events + 1

\* Mutant: a diff that does not apply is skipped without a recovery.
MutForwardDiffNoRecovery(diff) ==
    LET result == apply_diff(store, diff) IN
    /\ TakeEvent
    /\ store' = result.store
    /\ ~result.ok
    /\ UNCHANGED <<handler, forwarder, session, recent, out, reading, client, hist>>

\* Mutant: the diff is applied to the cache and not sent on.
MutForwardDiffNotSent(diff) ==
    LET result == apply_diff(store, diff) IN
    /\ TakeEvent
    /\ result.ok
    /\ store' = result.store
    /\ recent' = Remember(recent, diff)
    /\ hist' = Commit(hist, diff.new, result.store.snapshot)
    /\ UNCHANGED <<handler, forwarder, session, out, reading, client>>

ForwardDiff(diff) ==
    LET result == apply_diff(store, diff) IN
    /\ TakeEvent
    /\ store' = result.store
    /\ \/ /\ result.ok
          /\ recent' = Remember(recent, diff)
          /\ hist' = Commit(hist, diff.new, result.store.snapshot)
          /\ forwarder' = IF handler.emit
                            THEN [forwarder EXCEPT !.pc = "send_diff", !.msg = diff]
                            ELSE forwarder
       \/ /\ ~result.ok
          /\ forwarder' = [forwarder EXCEPT !.pc = "resync"]
          /\ UNCHANGED <<recent, hist>>
    /\ UNCHANGED <<handler, session, out, reading, client>>

\* Mutant: the signal is based one revision too high.
MutRecordResyncOffByOne ==
    /\ forwarder.pc = "resync" /\ handler.emit
    /\ forwarder' = [forwarder EXCEPT
                        !.pc = "send_signal",
                        !.msg = DiffBatch(store.rev + 1, store.rev + 2, ResyncSignal)]
    /\ UNCHANGED <<handler, session, store, recent, out, reading, client, events, hist>>

\* A second acquisition of the lock: telemetry, and the revision to signal.
RecordResync ==
    /\ forwarder.pc = "resync"
    /\ forwarder' = IF handler.emit
                      THEN [forwarder EXCEPT
                              !.pc = "send_signal",
                              !.msg = DiffBatch(store.rev, store.rev + 1, ResyncSignal)]
                      ELSE [forwarder EXCEPT !.pc = "capture"]
    /\ UNCHANGED <<handler, session, store, recent, out, reading, client, events, hist>>

\* Mutant: the cache is refreshed and the client gets only the warning.
MutRecaptureNotSent ==
    /\ forwarder.pc = "capture"
    /\ \E rev \in SnapshotRevs, content \in Captures :
          LET new == normalize_snapshot_revision(rev, store.rev) IN
          /\ store' = replace_snapshot(new, content)
          /\ recent' = << >>
          /\ hist' = Commit(hist, new, content)
    /\ forwarder' = [forwarder EXCEPT !.pc = "send_warning", !.msg = Plain("Warning"),
                                      !.refresh_failed = FALSE]
    /\ UNCHANGED <<handler, session, out, reading, client, events>>

Recapture ==
    /\ forwarder.pc = "capture"
    /\ \/ \E rev \in SnapshotRevs, content \in Captures :
            LET new == normalize_snapshot_revision(rev, store.rev) IN
            /\ store' = replace_snapshot(new, content)
            /\ recent' = << >>
            /\ hist' = Commit(hist, new, content)
            /\ forwarder' = IF handler.emit
                              THEN [forwarder EXCEPT
                                      !.pc = "send_snapshot",
                                      !.msg = InitialSnapshot(new, content),
                                      !.refresh_failed = FALSE]
                              ELSE [forwarder EXCEPT
                                      !.pc = "send_warning", !.msg = Plain("Warning"),
                                      !.refresh_failed = FALSE]
       \/ /\ forwarder' = [forwarder EXCEPT !.pc = "send_warning",
                                            !.msg = Plain("Warning"),
                                            !.refresh_failed = TRUE]
          /\ UNCHANGED <<store, recent, hist>>
    /\ UNCHANGED <<handler, session, out, reading, client, events>>

ForwardWarning ==
    /\ TakeEvent
    /\ forwarder' = [forwarder EXCEPT !.pc = "send_warning", !.msg = Plain("Warning")]
    /\ UNCHANGED <<handler, session, store, recent, out, reading, client, hist>>

Sending == {"send_diff", "send_signal", "send_snapshot", "send_warning"}

AfterSend(f) ==
    CASE f.pc = "send_signal"   -> [f EXCEPT !.pc = "capture", !.msg = Plain("Pong")]
      [] f.pc = "send_snapshot" -> [f EXCEPT !.pc = "send_warning", !.msg = Plain("Warning")]
      [] f.pc \in {"send_diff", "send_warning"} ->
             [f EXCEPT !.pc = "recv", !.msg = Plain("Pong")]

ForwarderSends ==
    /\ forwarder.pc \in Sending
    /\ \/ /\ Send(forwarder.msg)
          /\ forwarder' = AfterSend(forwarder)
       \/ /\ ~reading                             \* break
          /\ forwarder' = [forwarder EXCEPT !.pc = "done"]
          /\ UNCHANGED out
    /\ UNCHANGED <<handler, session, store, recent, reading, client, events, hist>>

\* The backend's stream ends, or the abort of InboundEnds takes effect.  An
\* aborted task stops where it next has to wait; until then it runs on.
ForwarderStops ==
    /\ \/ forwarder.pc = "recv"
       \/ forwarder.pc \notin {"off", "done"} /\ forwarder.aborted
    /\ forwarder' = [forwarder EXCEPT !.pc = "done"]
    /\ UNCHANGED <<handler, session, store, recent, out, reading, client, events, hist>>

-----------------------------------------------------------------------------
(* The client.                                                             *)

ClientReceives ==
    /\ reading /\ out # << >>
    /\ client' = Receive(client, Head(out))
    /\ reading' = (Head(out).type # "Status")     \* an error ends the stream
    /\ out' = IF Head(out).type = "Status" THEN << >> ELSE Tail(out)
    /\ UNCHANGED <<handler, forwarder, session, store, recent, events, hist>>

\* The client goes away; what was in flight is lost.
ClientDrops ==
    /\ reading
    /\ reading' = FALSE
    /\ out' = << >>
    /\ UNCHANGED <<handler, forwarder, session, store, recent, client, events, hist>>

-----------------------------------------------------------------------------

HandlerStep ==
    \/ SendHelloAck \/ OpenBackendSession \/ SendInitialSnapshot
    \/ ReadCachedState \/ CaptureForAction \/ SendReply
    \/ CloseSession \/ SendStatus

ClientRequest ==
    \/ HandleHello \/ HandleSubscribe \/ HandleActionRequest
    \/ HandleReadArtifactOrPing \/ InboundEnds \/ InboundFails

BackendEvent ==
    \/ /\ forwarder.pc = "recv"
       /\ \E revs \in DiffRevs, ops \in OpLists :
             ForwardDiff(DiffBatch(revs[1], revs[2], ops))
    \/ ForwardWarning

ForwarderStep == RecordResync \/ Recapture \/ ForwarderSends

Next ==
    \/ HandlerStep \/ ClientRequest
    \/ BackendEvent \/ ForwarderStep \/ ForwarderStops
    \/ ClientReceives \/ ClientDrops

Spec == Init /\ [][Next]_vars

(***************************************************************************)
(* Tokio runs every task that is not waiting, and hands out the slots of a *)
(* full mpsc channel in the order in which the senders asked for them, so  *)
(* neither task can overtake the other's waiting send for ever.  The       *)
(* client drains its stream.  Requests and backend events need not come.   *)
(***************************************************************************)
Fairness ==
    /\ WF_vars(HandlerStep)
    /\ WF_vars(RecordResync \/ Recapture)
    /\ SF_vars(ForwarderSends)
    /\ WF_vars(forwarder.aborted /\ ForwarderStops)
    /\ WF_vars(ClientReceives)

FairSpec == Spec /\ Fairness

-----------------------------------------------------------------------------
(* Properties.                                                             *)

Views == [src : {"none", "cache", "capture"}, rev : Nat, content : MaybeContent]

HandlerStates ==
    [pc : {"recv", "hello_ack", "open_backend", "initial_snapshot", "read_state",
           "capture", "reply", "closing", "failed", "done"},
     hello : BOOLEAN, subscribed : BOOLEAN, emit : BOOLEAN,
     reply : {"ActionResult", "Warning", "Pong"}, base : Nat, view : Views]

ForwarderStates ==
    [pc : {"off", "recv", "resync", "capture", "done"} \cup Sending,
     msg : Msgs, aborted : BOOLEAN, refresh_failed : BOOLEAN]

\* Every variable stays in its type.
TypeOK ==
    /\ handler \in HandlerStates
    /\ forwarder \in ForwarderStates
    /\ session \in {"absent", "active", "closed"}
    /\ store \in Store
    /\ recent \in Seq(Nat \X Nat)
    /\ out \in Seq(Msgs)
    /\ reading \in BOOLEAN
    /\ client \in Store
    /\ events \in Nat
    /\ \A r \in DOMAIN hist : InitialSnapshot(r, hist[r]) \in SnapshotMsgs

\* A store that is not marked shows what the cache showed at its revision.
Committed(s, h) == s.rev \in DOMAIN h /\ s.snapshot = h[s.rev]

Coherent(s, h) == s.snapshot # NoSnapshot /\ ~s.resync => Committed(s, h)

(***************************************************************************)
(* As long as its mark is clear, the client's replica is exactly what the  *)
(* daemon's cache held at that revision, whatever the backend's revisions, *)
(* failing diffs, failed recaptures and the interleaving of the two tasks  *)
(* that write to the stream (docs/protocol.md: "`diff_batch` moves the     *)
(* client from `base_rev` to `new_rev`").                                  *)
(***************************************************************************)
ClientReplicaCoherent == Coherent(client, hist)

(***************************************************************************)
(* A diff that reaches a client whose replica is not marked always         *)
(* applies: the client has had its initial snapshot, the base revision is  *)
(* the replica's, the new one is newer and no operation fails.  Only the   *)
(* resync signal can take the replica out of step.                         *)
(***************************************************************************)
DeliveredDiffApplies ==
    out # << >> /\ Head(out).type = "DiffBatch" /\ ~client.resync =>
        apply_diff(client, Head(out)).ok

(***************************************************************************)
(* The cache may differ from the state it committed under its revision     *)
(* only while the forwarder is recovering or after a recapture failed:     *)
(* outside of that, the partly applied diff of apply_diff is gone.         *)
(***************************************************************************)
CacheCoherentOutsideRecovery ==
    forwarder.pc \in {"off", "recv", "send_diff", "send_snapshot", "send_warning"}
        /\ ~forwarder.refresh_failed
            => Coherent(store, hist)

(***************************************************************************)
(* recent_diffs, which the diagnostic bundle reports, is a gapless chain   *)
(* of revisions that ends at the cache's revision, bounded by the ring.    *)
(***************************************************************************)
RecentDiffsChain ==
    /\ Len(recent) <= MaxRecentDiffs
    /\ \A i \in 1 .. Len(recent) - 1 : recent[i][2] = recent[i + 1][1]
    /\ recent # << >> => recent[Len(recent)][2] = store.rev

(***************************************************************************)
(* Once the stream is drained and the forwarder waits for the next event,  *)
(* a client that asked for diffs holds the daemon's own cache, mark        *)
(* included, unless a recapture has failed.                                *)
(***************************************************************************)
DrainedClientCaughtUp ==
    forwarder.pc = "recv" /\ handler.emit /\ reading /\ out = << >>
        /\ ~forwarder.refresh_failed
            => client = store

\* Revisions never go back within a session, in the cache or at the client.
RevisionsNeverDecrease ==
    [][/\ session = "active" => store'.rev >= store.rev
       /\ client'.rev >= client.rev]_<<store, client>>

(***************************************************************************)
(* The session implements VersionedReplica: its commits are the versions,  *)
(* the client's replica follows them, and a replica that is marked knows   *)
(* that it shows none.                                                     *)
(***************************************************************************)
Versions == INSTANCE VersionedReplica
    WITH versions <- hist,
         replica  <- [rev     |-> client.rev,
                      content |-> IF client.resync THEN NoSnapshot ELSE client.snapshot]

ImplementsVersions == Versions!Spec

(***************************************************************************)
(* What an action is served from the cache is a state the cache committed  *)
(* under the revision it carries.  Holds when no diff operation fails;     *)
(* a failing one leaves a half-applied, unmarked cache to be served until  *)
(* the forwarder has recaptured.                                           *)
(***************************************************************************)
CachedReadIsCommitted ==
    handler.view.src = "cache" =>
        /\ handler.view.rev \in DOMAIN hist
        /\ handler.view.content = hist[handler.view.rev]

\* After an orderly end of the session its forwarder stops for good.
ClosedSessionQuiesces ==
    session = "closed" ~> [](forwarder.pc \in {"off", "done"})

(***************************************************************************)
(* docs/protocol.md: after `snapshot_resync` the server follows with a     *)
(* refreshed `initial_snapshot`; that is, a marked replica does not stay   *)
(* marked while both sides keep the session.                               *)
(***************************************************************************)
ResyncIsFollowedBySnapshot ==
    client.resync ~>
        \/ ~client.resync
        \/ ~reading
        \/ "done" \in {forwarder.pc, handler.pc}

(***************************************************************************)
(* A client that asked for diffs and reads its stream catches up with the  *)
(* cache, unless the session ends or a recapture failed.                   *)
(***************************************************************************)
ClientCatchesUp ==
    handler.emit /\ client.rev < store.rev ~>
        \/ client.rev >= store.rev
        \/ forwarder.refresh_failed
        \/ ~reading
        \/ "done" \in {forwarder.pc, handler.pc}

=============================================================================
