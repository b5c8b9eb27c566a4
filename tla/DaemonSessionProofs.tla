------------------------ MODULE DaemonSessionProofs ------------------------
(***************************************************************************)
(* Proofs about DaemonSession, for every backend, every channel capacity   *)
(* and every number of events.                                             *)
(***************************************************************************)
EXTENDS DaemonSession, TLAPS

-----------------------------------------------------------------------------
(* The cache's operators.                                                  *)

\* apply_diff returns a result and a well-formed store, whatever the diff.
LEMMA ApplyDiffType ==
    ASSUME NEW s \in Store, NEW d \in DiffMsgs
    PROVE  /\ apply_diff(s, d).ok \in BOOLEAN
           /\ apply_diff(s, d).store \in Store
  <1>1. CASE s.snapshot = NoSnapshot
    BY <1>1 DEF apply_diff
  <1>2. CASE s.snapshot # NoSnapshot /\ (d.base # s.rev \/ d.new <= d.base)
    BY <1>2 DEF apply_diff, mark_resync_required, Store
  <1>3. CASE s.snapshot # NoSnapshot /\ d.base = s.rev /\ d.new > d.base
    <2> DEFINE run == ApplyOps(s.snapshot, d.ops)
               new == [snapshot |-> run.content,
                       rev      |-> IF run.ok THEN d.new ELSE s.rev,
                       resync   |-> s.resync \/ HasResync(d.ops)]
    <2>1. ~(d.base # s.rev \/ d.new <= d.base)
      BY <1>3 DEF DiffMsgs
    <2>2. apply_diff(s, d) = [ok |-> run.ok, store |-> new]
      BY <1>3, <2>1 DEF apply_diff
    <2>3. run.ok \in BOOLEAN /\ run.content \in Content
      BY <1>3, ApplyOpsAssumption DEF Store, MaybeContent, DiffMsgs
    <2>4. new \in Store
      BY <2>3 DEF Store, MaybeContent, DiffMsgs
    <2> QED BY <2>2, <2>3, <2>4
  <1>4. d.base \in Nat /\ d.new \in Nat /\ s.rev \in Nat
    BY DEF Store, DiffMsgs
  <1> QED BY <1>1, <1>2, <1>3, <1>4

\* A diff that applied: what it needed and what it did.
LEMMA ApplyDiffOk ==
    ASSUME NEW s \in Store, NEW d \in DiffMsgs, apply_diff(s, d).ok
    PROVE  /\ s.snapshot \in Content /\ d.base = s.rev /\ d.new > s.rev
           /\ ApplyOps(s.snapshot, d.ops).ok
           /\ apply_diff(s, d).store.snapshot = ApplyOps(s.snapshot, d.ops).content
           /\ apply_diff(s, d).store.rev = d.new
           /\ apply_diff(s, d).store.snapshot \in Content
           /\ s.resync => apply_diff(s, d).store.resync
  <1>1. s.snapshot # NoSnapshot
    BY DEF apply_diff
  <1>2. d.base = s.rev /\ d.new > d.base
    BY <1>1 DEF apply_diff, DiffMsgs, Store
  <1>3. apply_diff(s, d) =
          [ok    |-> ApplyOps(s.snapshot, d.ops).ok,
           store |-> [snapshot |-> ApplyOps(s.snapshot, d.ops).content,
                      rev      |-> IF ApplyOps(s.snapshot, d.ops).ok THEN d.new ELSE s.rev,
                      resync   |-> s.resync \/ HasResync(d.ops)]]
    BY <1>1, <1>2 DEF apply_diff, DiffMsgs, Store
  <1>4. s.snapshot \in Content
    BY <1>1 DEF Store, MaybeContent
  <1> QED BY <1>2, <1>3, <1>4, ApplyOpsAssumption DEF DiffMsgs

\* A diff on top of a snapshot that did not apply: the revision stays.
LEMMA ApplyDiffFailed ==
    ASSUME NEW s \in Store, NEW d \in DiffMsgs, ~apply_diff(s, d).ok
    PROVE  /\ apply_diff(s, d).store.rev = s.rev
           /\ s.snapshot # NoSnapshot => apply_diff(s, d).store.snapshot \in Content
           /\ s.resync => apply_diff(s, d).store.resync
  <1>1. CASE s.snapshot = NoSnapshot
    BY <1>1 DEF apply_diff
  <1>2. CASE s.snapshot # NoSnapshot /\ (d.base # s.rev \/ d.new <= d.base)
    BY <1>2 DEF apply_diff, mark_resync_required, Store, MaybeContent
  <1>3. CASE s.snapshot # NoSnapshot /\ d.base = s.rev /\ ~(d.new <= d.base)
    <2>1. apply_diff(s, d) =
          [ok    |-> ApplyOps(s.snapshot, d.ops).ok,
           store |-> [snapshot |-> ApplyOps(s.snapshot, d.ops).content,
                      rev      |-> IF ApplyOps(s.snapshot, d.ops).ok THEN d.new ELSE s.rev,
                      resync   |-> s.resync \/ HasResync(d.ops)]]
      BY <1>3 DEF apply_diff, DiffMsgs, Store
    <2> QED BY <1>3, <2>1, ApplyOpsAssumption DEF DiffMsgs, Store, MaybeContent
  <1> QED BY <1>1, <1>2, <1>3

-----------------------------------------------------------------------------
(* Types.                                                                  *)

LEMMA ReceiveType ==
    ASSUME NEW s \in Store, NEW m \in Msgs
    PROVE  Receive(s, m) \in Store
  <1>1. CASE m.type = "InitialSnapshot"
    <2>1. m \in SnapshotMsgs
      BY <1>1 DEF Msgs, DiffMsgs, PlainMsgs
    <2> QED BY <1>1, <2>1 DEF Receive, replace_snapshot, SnapshotMsgs, Store, MaybeContent
  <1>2. CASE m.type = "DiffBatch"
    <2>1. m \in DiffMsgs
      BY <1>2 DEF Msgs, SnapshotMsgs, PlainMsgs
    <2> QED BY <1>2, <2>1, ApplyDiffType DEF Receive
  <1>3. CASE m.type \notin {"InitialSnapshot", "DiffBatch"}
    BY <1>3 DEF Receive
  <1> QED BY <1>1, <1>2, <1>3

LEMMA BackendDiffType ==
    ASSUME NEW revs \in DiffRevs, NEW ops \in OpLists
    PROVE  DiffBatch(revs[1], revs[2], ops) \in DiffMsgs
  BY BackendAssumption DEF DiffBatch, DiffMsgs

LEMMA CommitType ==
    ASSUME NEW h, NEW rev \in Nat, NEW c \in Content,
           \A r \in DOMAIN h : r \in Nat /\ h[r] \in Content
    PROVE  \A r \in DOMAIN Commit(h, rev, c) :
               r \in Nat /\ Commit(h, rev, c)[r] \in Content
  BY DEF Commit

LEMMA RememberType ==
    ASSUME NEW ring \in Seq(Nat \X Nat), NEW d \in DiffMsgs
    PROVE  Remember(ring, d) \in Seq(Nat \X Nat)
  <1>1. <<d.base, d.new>> \in Nat \X Nat
    BY DEF DiffMsgs
  <1>2. CASE Len(ring) = MaxRecentDiffs
    <2>1. ring # << >>
      BY <1>2, BoundsAssumption
    <2>2. Tail(ring) \in Seq(Nat \X Nat)
      BY <2>1
    <2> QED BY <1>1, <1>2, <2>2 DEF Remember
  <1>3. CASE Len(ring) # MaxRecentDiffs
    BY <1>1, <1>3 DEF Remember
  <1> QED BY <1>2, <1>3

\* The initial state is well typed.
LEMMA TypeInit == Init => TypeOK
  BY DEF Init, TypeOK, EmptyStore, Store, MaybeContent, NoView, Views, Plain,
         PlainMsgs, Msgs, HandlerStates, ForwarderStates

(***************************************************************************)
(* What the order of hello, subscribe and spawn gives: the cache is empty  *)
(* until the backend session is open, and the forwarder runs exactly from  *)
(* the moment the session counts as subscribed.                            *)
(***************************************************************************)
Flow ==
    /\ ~handler.hello => store = EmptyStore /\ ~handler.subscribed
    /\ handler.pc = "hello_ack" => ~handler.hello
    /\ handler.pc = "open_backend" => handler.hello /\ ~handler.subscribed
    /\ handler.pc = "initial_snapshot" =>
           handler.hello /\ ~handler.subscribed /\ store.snapshot # NoSnapshot
             /\ Committed(store, hist) /\ ~store.resync
    /\ ~handler.subscribed /\ handler.pc \notin {"initial_snapshot", "failed", "done"} =>
           store.snapshot = NoSnapshot
    /\ handler.subscribed => store.snapshot # NoSnapshot
    /\ forwarder.pc = "off" <=> ~handler.subscribed
    /\ store.snapshot = NoSnapshot =>
           store = EmptyStore /\ DOMAIN hist = {} /\ recent = << >>

\* Messages of the handler and the forwarder are messages of the stream.
LEMMA PlainType ==
    ASSUME NEW t \in {"HelloAck", "ActionResult", "Warning", "Pong", "Status"}
    PROVE  Plain(t) \in Msgs
  BY DEF Plain, PlainMsgs, Msgs

\* Sending keeps the stream well typed.
LEMMA SendType ==
    ASSUME out \in Seq(Msgs), NEW m \in Msgs, Send(m) \/ UNCHANGED out
    PROVE  out' \in Seq(Msgs)
  <1>1. Append(out, m) \in Seq(Msgs)
    OBVIOUS
  <1> QED BY <1>1 DEF Send

\* Every step keeps the types.
LEMMA TypeStep == TypeOK /\ Flow /\ [Next]_vars => TypeOK'
  <1> SUFFICES ASSUME TypeOK, Flow, [Next]_vars PROVE TypeOK'
    OBVIOUS
  <1> USE DEF TypeOK
  <1>1. CASE HandleHello
    <2>1. handler' \in HandlerStates
      BY <1>1 DEF HandleHello, HandlerFails, HandlerStates
    <2>2. store' \in Store
      <3>1. EmptyStore \in Store
        BY DEF EmptyStore, Store, MaybeContent
      <3> QED BY <1>1, <3>1 DEF HandleHello
    <2>3. recent' \in Seq(Nat \X Nat)
      <3>1. << >> \in Seq(Nat \X Nat)
        OBVIOUS
      <3> QED BY <1>1, <3>1 DEF HandleHello
    <2> QED BY <1>1, <2>1, <2>2, <2>3 DEF HandleHello
  <1>2. CASE SendHelloAck
    <2>1. Plain("HelloAck") \in Msgs
      BY PlainType DEF HandlerStates
    <2>2. out' \in Seq(Msgs)
      BY <1>2, <2>1, SendType DEF SendHelloAck
    <2>3. handler' \in HandlerStates
      BY <1>2 DEF SendHelloAck, HandlerFails, HandlerStates
    <2> QED BY <1>2, <2>2, <2>3 DEF SendHelloAck
  <1>3. CASE HandleSubscribe
    BY <1>3 DEF HandleSubscribe, HandlerFails, HandlerStates
  <1>4. CASE HandleActionRequest
    BY <1>4 DEF HandleActionRequest, HandlerFails, HandlerStates
  <1>5. CASE HandleReadArtifactOrPing
    BY <1>5 DEF HandleReadArtifactOrPing, HandlerFails, HandlerStates
  <1>6. CASE SendReply
    <2>1. Plain(handler.reply) \in Msgs
      BY PlainType DEF HandlerStates
    <2>2. out' \in Seq(Msgs)
      BY <1>6, <2>1, SendType DEF SendReply
    <2>3. handler' \in HandlerStates
      <3>1. NoView \in Views
        BY DEF NoView, Views, MaybeContent
      <3> QED BY <1>6, <3>1 DEF SendReply, HandlerFails, HandlerStates
    <2> QED BY <1>6, <2>2, <2>3 DEF SendReply
  <1>7. CASE InboundEnds
    BY <1>7 DEF InboundEnds, HandlerFails, HandlerStates, ForwarderStates
  <1>8. CASE CloseSession
    BY <1>8 DEF CloseSession, HandlerFails, HandlerStates
  <1>9. CASE InboundFails
    BY <1>9 DEF InboundFails, HandlerFails, HandlerStates
  <1>10. CASE SendStatus
    <2>1. Plain("Status") \in Msgs
      BY PlainType DEF HandlerStates
    <2>2. out' \in Seq(Msgs)
      BY <1>10, <2>1, SendType DEF SendStatus
    <2>3. handler' \in HandlerStates
      BY <1>10 DEF SendStatus, HandlerFails, HandlerStates
    <2> QED BY <1>10, <2>2, <2>3 DEF SendStatus
  <1>11. CASE OpenBackendSession
    <2>1. CASE handler' = [handler EXCEPT !.pc = "failed"] /\ UNCHANGED <<store, recent, hist>>
      BY <1>11, <2>1 DEF OpenBackendSession, HandlerStates
    <2>2. ASSUME NEW rev \in SnapshotRevs, NEW content \in Captures,
                 store' = replace_snapshot(rev, content),
                 recent' = << >>,
                 hist' = Commit(hist, rev, content),
                 handler' = [handler EXCEPT !.pc = "initial_snapshot"]
          PROVE  TypeOK'
      <3>1. rev \in Nat /\ content \in Content
        BY BackendAssumption
      <3>2. store' \in Store
        BY <2>2, <3>1 DEF replace_snapshot, Store, MaybeContent
      <3>3. \A r \in DOMAIN hist' : InitialSnapshot(r, hist'[r]) \in SnapshotMsgs
        BY <2>2, <3>1, CommitType DEF InitialSnapshot, SnapshotMsgs
      <3>4. recent' \in Seq(Nat \X Nat) /\ handler' \in HandlerStates
        BY <2>2 DEF HandlerStates
      <3> QED BY <1>11, <3>2, <3>3, <3>4 DEF OpenBackendSession
    <2> QED BY <1>11, <2>1, <2>2 DEF OpenBackendSession, HandlerFails
  <1>12. CASE SendInitialSnapshot
    <2>1. InitialSnapshot(store.rev, store.snapshot) \in Msgs
      BY <1>12 DEF SendInitialSnapshot, Flow, InitialSnapshot, Msgs, SnapshotMsgs, Store, MaybeContent
    <2>2. out' \in Seq(Msgs)
      BY <1>12, <2>1, SendType DEF SendInitialSnapshot
    <2>3. handler' \in HandlerStates /\ forwarder' \in ForwarderStates
      BY <1>12 DEF SendInitialSnapshot, HandlerFails, HandlerStates, ForwarderStates
    <2> QED BY <1>12, <2>2, <2>3 DEF SendInitialSnapshot
  <1>13. CASE ReadCachedState
    <2>1. [src |-> "cache", rev |-> store.rev, content |-> store.snapshot] \in Views
      BY DEF Store, Views
    <2>2. store.rev \in Nat
      BY DEF Store
    <2>3. handler' \in HandlerStates
      BY <1>13, <2>1, <2>2 DEF ReadCachedState, HandlerFails, HandlerStates
    <2> QED BY <1>13, <2>3 DEF ReadCachedState
  <1>14. CASE CaptureForAction
    <2>1. ASSUME NEW rev \in SnapshotRevs, NEW content \in Captures
          PROVE  [src |-> "capture",
                  rev |-> normalize_snapshot_revision(rev, handler.base),
                  content |-> content] \in Views
      BY BackendAssumption DEF normalize_snapshot_revision, Views, MaybeContent, HandlerStates
    <2>2. handler' \in HandlerStates
      <3>1. CASE \E rev \in SnapshotRevs, content \in Captures, next \in {"read_state", "reply"} :
                    handler' = [handler EXCEPT
                       !.pc = next, !.reply = "ActionResult", !.base = 0,
                       !.view = [src |-> "capture",
                                 rev |-> normalize_snapshot_revision(rev, handler.base),
                                 content |-> content]]
        <4>1. PICK v \in Views, next \in {"read_state", "reply"} :
                 handler' = [handler EXCEPT !.pc = next, !.reply = "ActionResult",
                                            !.base = 0, !.view = v]
          BY <2>1, <3>1
        <4> QED BY <4>1 DEF HandlerStates
      <3>2. CASE handler' = [handler EXCEPT !.pc = "read_state", !.base = 0]
        BY <3>2 DEF HandlerStates
      <3>3. CASE HandlerFails
        BY <3>3 DEF HandlerFails, HandlerStates
      <3> QED BY <1>14, <3>1, <3>2, <3>3 DEF CaptureForAction
    <2> QED BY <1>14, <2>2 DEF CaptureForAction
  <1>15. CASE BackendEvent
    <2>1. CASE ForwardWarning
      <3>1. Plain("Warning") \in Msgs
        BY PlainType
      <3>2. forwarder' \in ForwarderStates
        BY <2>1, <3>1 DEF ForwardWarning, Sending, ForwarderStates
      <3>3. events' \in Nat
        BY <2>1 DEF ForwardWarning, TakeEvent
      <3> QED BY <2>1, <3>2, <3>3 DEF ForwardWarning
    <2>2. ASSUME NEW revs \in DiffRevs, NEW ops \in OpLists,
                 ForwardDiff(DiffBatch(revs[1], revs[2], ops))
          PROVE  TypeOK'
      <3> DEFINE d == DiffBatch(revs[1], revs[2], ops)
      <3>1. d \in DiffMsgs
        BY BackendDiffType
      <3> HIDE DEF d
      <3>2. store' \in Store /\ store' = apply_diff(store, d).store
        BY <2>2, <3>1, ApplyDiffType DEF ForwardDiff, d
      <3>3. /\ handler' \in HandlerStates
            /\ UNCHANGED <<session, out, reading, client>>
        BY <2>2 DEF ForwardDiff
      <3>4. events' \in Nat
        BY <2>2 DEF ForwardDiff, TakeEvent
      <3>5. CASE apply_diff(store, d).ok
        <4>1. /\ recent' = Remember(recent, d)
              /\ hist' = Commit(hist, d.new, apply_diff(store, d).store.snapshot)
              /\ \/ forwarder' = [forwarder EXCEPT !.pc = "send_diff", !.msg = d]
                 \/ forwarder' = forwarder
          BY <2>2, <3>5 DEF ForwardDiff, d
        <4>2. recent' \in Seq(Nat \X Nat)
          BY <3>1, <4>1, RememberType
        <4>3. d.new \in Nat /\ apply_diff(store, d).store.snapshot \in Content
          BY <3>1, <3>5, ApplyDiffOk DEF DiffMsgs
        <4>4. \A r \in DOMAIN hist' : InitialSnapshot(r, hist'[r]) \in SnapshotMsgs
          BY <4>1, <4>3, CommitType DEF InitialSnapshot, SnapshotMsgs
        <4>5. d \in Msgs
          BY <3>1 DEF Msgs
        <4>6. forwarder' \in ForwarderStates
          BY <4>1, <4>5 DEF Sending, ForwarderStates
        <4> QED BY <3>2, <3>3, <3>4, <4>2, <4>4, <4>6
      <3>6. CASE ~apply_diff(store, d).ok
        <4>1. UNCHANGED <<recent, hist>> /\ forwarder' = [forwarder EXCEPT !.pc = "resync"]
          BY <2>2, <3>6 DEF ForwardDiff, d
        <4>2. forwarder' \in ForwarderStates
          BY <4>1 DEF ForwarderStates
        <4> QED BY <3>2, <3>3, <3>4, <4>1, <4>2
      <3> QED BY <3>5, <3>6
    <2> QED BY <1>15, <2>1, <2>2 DEF BackendEvent
  <1>16. CASE RecordResync
    <2>1. DiffBatch(store.rev, store.rev + 1, ResyncSignal) \in Msgs
      BY ResyncSignalAssumption DEF Msgs, DiffMsgs, DiffBatch, Store
    <2> QED BY <1>16, <2>1 DEF RecordResync, Sending, ForwarderStates
  <1>17. CASE Recapture
    <2>1. CASE /\ forwarder' = [forwarder EXCEPT !.pc = "send_warning",
                                                  !.msg = Plain("Warning"),
                                                  !.refresh_failed = TRUE]
               /\ UNCHANGED <<store, recent, hist>>
      <3>1. Plain("Warning") \in Msgs
        BY PlainType
      <3>2. forwarder' \in ForwarderStates
        BY <2>1, <3>1 DEF Sending, ForwarderStates
      <3> QED BY <1>17, <2>1, <3>2 DEF Recapture
    <2>2. ASSUME NEW rev \in SnapshotRevs, NEW content \in Captures, NEW new,
                 new = normalize_snapshot_revision(rev, store.rev),
                 store' = replace_snapshot(new, content),
                 recent' = << >>,
                 hist' = Commit(hist, new, content),
                 \/ forwarder' = [forwarder EXCEPT
                                     !.pc = "send_snapshot",
                                     !.msg = InitialSnapshot(new, content),
                                     !.refresh_failed = FALSE]
                 \/ forwarder' = [forwarder EXCEPT
                                     !.pc = "send_warning", !.msg = Plain("Warning"),
                                     !.refresh_failed = FALSE]
          PROVE  TypeOK'
      <3>1. new \in Nat /\ content \in Content
        BY <2>2, BackendAssumption DEF normalize_snapshot_revision, Store
      <3>2. store' \in Store
        BY <2>2, <3>1 DEF replace_snapshot, Store, MaybeContent
      <3>3. \A r \in DOMAIN hist' : InitialSnapshot(r, hist'[r]) \in SnapshotMsgs
        BY <2>2, <3>1, CommitType DEF InitialSnapshot, SnapshotMsgs
      <3>4. InitialSnapshot(new, content) \in Msgs
        BY <3>1 DEF InitialSnapshot, SnapshotMsgs, Msgs
      <3>5. forwarder' \in ForwarderStates
        BY <2>2, <3>4, PlainType DEF Sending, ForwarderStates
      <3>6. recent' \in Seq(Nat \X Nat)
        BY <2>2
      <3> QED BY <1>17, <3>2, <3>3, <3>5, <3>6 DEF Recapture
    <2> QED BY <1>17, <2>1, <2>2 DEF Recapture
  <1>18. CASE ForwarderSends
    <2>1. CASE Send(forwarder.msg) /\ forwarder' = AfterSend(forwarder)
      <3>1. forwarder' \in ForwarderStates
        BY <1>18, <2>1, PlainType DEF ForwarderSends, AfterSend, Sending, ForwarderStates
      <3>2. out' \in Seq(Msgs)
        BY <2>1 DEF Send, ForwarderStates
      <3> QED BY <1>18, <2>1, <3>1, <3>2 DEF ForwarderSends
    <2>2. CASE forwarder' = [forwarder EXCEPT !.pc = "done"] /\ UNCHANGED out
      BY <1>18, <2>2 DEF ForwarderSends, ForwarderStates
    <2> QED BY <1>18, <2>1, <2>2 DEF ForwarderSends
  <1>19. CASE ForwarderStops
    BY <1>19 DEF ForwarderStops, ForwarderStates
  <1>20. CASE ClientReceives
    <2>1. Head(out) \in Msgs /\ Tail(out) \in Seq(Msgs)
      BY <1>20 DEF ClientReceives
    <2>2. client' \in Store
      BY <1>20, <2>1, ReceiveType DEF ClientReceives
    <2> QED BY <1>20, <2>1, <2>2 DEF ClientReceives
  <1>21. CASE ClientDrops
    <2>1. << >> \in Seq(Msgs) /\ FALSE \in BOOLEAN
      OBVIOUS
    <2>2. out' \in Seq(Msgs)
      BY <1>21, <2>1 DEF ClientDrops
    <2>3. reading' \in BOOLEAN
      BY <1>21, <2>1 DEF ClientDrops
    <2> QED BY <1>21, <2>2, <2>3 DEF ClientDrops
  <1>22. CASE UNCHANGED vars
    BY <1>22 DEF vars
  <1> QED BY <1>1, <1>2, <1>3, <1>4, <1>5, <1>6, <1>7, <1>8, <1>9, <1>10, <1>11, <1>12, <1>13, <1>14, <1>15, <1>16, <1>17, <1>18, <1>19, <1>20, <1>21, <1>22
       DEF Next, HandlerStep, ClientRequest, ForwarderStep

\* The initial state has the order.
LEMMA FlowInit == Init => Flow
  BY DEF Init, Flow, EmptyStore

\* Every step keeps the order.
LEMMA FlowStep == TypeOK /\ Flow /\ [Next]_vars => Flow'
  <1> SUFFICES ASSUME TypeOK, Flow, [Next]_vars PROVE Flow'
    OBVIOUS
  <1>a. handler \in HandlerStates /\ forwarder \in ForwarderStates
    BY DEF TypeOK
  <1>1. CASE HandleHello
    BY <1>a, <1>1 DEF HandleHello, HandlerFails, Flow, Committed, HandlerStates, ForwarderStates, EmptyStore
  <1>2. CASE SendHelloAck
    BY <1>a, <1>2 DEF SendHelloAck, HandlerFails, Flow, Committed, HandlerStates, ForwarderStates, EmptyStore
  <1>3. CASE HandleSubscribe
    BY <1>a, <1>3 DEF HandleSubscribe, HandlerFails, Flow, Committed, HandlerStates, ForwarderStates, EmptyStore
  <1>4. CASE HandleActionRequest
    BY <1>a, <1>4 DEF HandleActionRequest, HandlerFails, Flow, Committed, HandlerStates, ForwarderStates, EmptyStore
  <1>5. CASE HandleReadArtifactOrPing
    BY <1>a, <1>5 DEF HandleReadArtifactOrPing, HandlerFails, Flow, Committed, HandlerStates, ForwarderStates, EmptyStore
  <1>6. CASE SendReply
    BY <1>a, <1>6 DEF SendReply, HandlerFails, Flow, Committed, HandlerStates, ForwarderStates, EmptyStore
  <1>7. CASE InboundEnds
    BY <1>a, <1>7 DEF InboundEnds, HandlerFails, Flow, Committed, HandlerStates, ForwarderStates, EmptyStore
  <1>8. CASE CloseSession
    BY <1>a, <1>8 DEF CloseSession, HandlerFails, Flow, Committed, HandlerStates, ForwarderStates, EmptyStore
  <1>9. CASE InboundFails
    BY <1>a, <1>9 DEF InboundFails, HandlerFails, Flow, Committed, HandlerStates, ForwarderStates, EmptyStore
  <1>10. CASE SendStatus
    BY <1>a, <1>10 DEF SendStatus, HandlerFails, Flow, Committed, HandlerStates, ForwarderStates, EmptyStore
  <1>11. CASE ReadCachedState
    BY <1>a, <1>11 DEF ReadCachedState, HandlerFails, Flow, Committed, HandlerStates, ForwarderStates, EmptyStore
  <1>12. CASE CaptureForAction
    BY <1>a, <1>12 DEF CaptureForAction, HandlerFails, Flow, Committed, HandlerStates, ForwarderStates, EmptyStore
  <1>13. CASE OpenBackendSession
    <2>1. CASE HandlerFails /\ UNCHANGED <<store, recent, hist>>
      BY <1>a, <1>13, <2>1 DEF OpenBackendSession, HandlerFails, Flow, Committed, HandlerStates, ForwarderStates
    <2>2. ASSUME NEW rev \in SnapshotRevs, NEW content \in Captures,
                 store' = replace_snapshot(rev, content),
                 hist' = Commit(hist, rev, content),
                 handler' = [handler EXCEPT !.pc = "initial_snapshot"]
          PROVE  Flow'
      <3>1. content # NoSnapshot
        BY BackendAssumption, ContentAssumption
      <3>2. store'.snapshot # NoSnapshot /\ Committed(store, hist)' /\ ~store'.resync
        BY <2>2, <3>1 DEF replace_snapshot, Committed, Commit
      <3>3. handler.hello /\ ~handler.subscribed /\ forwarder' = forwarder
        BY <1>13 DEF OpenBackendSession, Flow
      <3> QED BY <1>a, <2>2, <3>2, <3>3 DEF Flow, HandlerStates
    <2> QED BY <1>13, <2>1, <2>2 DEF OpenBackendSession
  <1>14. CASE SendInitialSnapshot
    BY <1>a, <1>14 DEF SendInitialSnapshot, HandlerFails, Flow, Committed, HandlerStates, ForwarderStates
  <1>15. CASE BackendEvent
    <2>1. CASE ForwardWarning
      BY <1>a, <2>1 DEF ForwardWarning, TakeEvent, Flow, Committed, ForwarderStates
    <2>2. ASSUME NEW revs \in DiffRevs, NEW ops \in OpLists,
                 ForwardDiff(DiffBatch(revs[1], revs[2], ops))
          PROVE  Flow'
      <3> DEFINE d == DiffBatch(revs[1], revs[2], ops)
      <3>1. d \in DiffMsgs
        BY BackendDiffType
      <3> HIDE DEF d
      <3>2. handler.hello /\ handler.subscribed /\ store.snapshot # NoSnapshot
        BY <2>2 DEF ForwardDiff, TakeEvent, Flow
      <3>3. store'.snapshot # NoSnapshot
        BY <2>2, <3>1, <3>2, ApplyDiffOk, ApplyDiffFailed, ContentAssumption DEF ForwardDiff, TypeOK, d
      <3>4. handler' = handler /\ forwarder'.pc # "off"
        BY <1>a, <2>2 DEF ForwardDiff, TakeEvent, ForwarderStates
      <3>5. handler.pc \notin {"hello_ack", "open_backend", "initial_snapshot"}
        BY <3>2 DEF Flow
      <3> QED BY <3>2, <3>3, <3>4, <3>5 DEF Flow
    <2> QED BY <1>15, <2>1, <2>2 DEF BackendEvent
  <1>16. CASE RecordResync
    BY <1>a, <1>16 DEF RecordResync, Flow, Committed, ForwarderStates
  <1>17. CASE Recapture
    <2>1. handler.hello /\ handler.subscribed /\ store.snapshot # NoSnapshot
      BY <1>17 DEF Recapture, Flow
    <2>2. store'.snapshot # NoSnapshot
      <3>1. \A rev, content : replace_snapshot(rev, content).snapshot = content
        BY DEF replace_snapshot
      <3>2. \A content \in Captures : content # NoSnapshot
        BY BackendAssumption, ContentAssumption
      <3>3. \/ \E rev \in SnapshotRevs, content \in Captures :
                   store' = replace_snapshot(normalize_snapshot_revision(rev, store.rev), content)
            \/ store' = store
        BY <1>17 DEF Recapture
      <3> QED BY <2>1, <3>1, <3>2, <3>3
    <2>3. handler' = handler /\ forwarder'.pc # "off"
      BY <1>a, <1>17 DEF Recapture, ForwarderStates
    <2>4. handler.pc \notin {"hello_ack", "open_backend", "initial_snapshot"}
      BY <2>1 DEF Flow
    <2> QED BY <2>1, <2>2, <2>3, <2>4 DEF Flow
  <1>18. CASE ForwarderSends
    BY <1>a, <1>18 DEF ForwarderSends, AfterSend, Sending, Flow, Committed, ForwarderStates
  <1>19. CASE ForwarderStops
    BY <1>a, <1>19 DEF ForwarderStops, Flow, Committed, ForwarderStates
  <1>20. CASE ClientReceives
    BY <1>20 DEF ClientReceives, Flow, Committed
  <1>21. CASE ClientDrops
    BY <1>21 DEF ClientDrops, Flow, Committed
  <1>22. CASE UNCHANGED vars
    BY <1>22 DEF vars, Flow, Committed
  <1> QED BY <1>1, <1>2, <1>3, <1>4, <1>5, <1>6, <1>7, <1>8, <1>9, <1>10, <1>11, <1>12, <1>13, <1>14, <1>15, <1>16, <1>17, <1>18, <1>19, <1>20, <1>21, <1>22
       DEF Next, HandlerStep, ClientRequest, ForwarderStep

-----------------------------------------------------------------------------
(* The cache.                                                              *)

\* The committed history only grows: no revision is ever given twice.
Extends(h1, h2) ==
    /\ DOMAIN h1 \subseteq DOMAIN h2
    /\ \A r \in DOMAIN h1 : h2[r] = h1[r]

\* Where the forwarder stands when the cache shows what it last committed.
Settled(f) ==
    \/ f.pc \in {"send_diff", "send_snapshot"}
    \/ f.pc \in {"off", "recv", "send_warning"} /\ ~f.refresh_failed

(***************************************************************************)
(* The inductive invariant of the cache.  CacheCoherentOutsideRecovery     *)
(* speaks of unmarked caches only and is not inductive: a failed recapture *)
(* followed by a diff that applies needs the mark left out, and a commit   *)
(* keeps the older entries only because its revision is above all of them. *)
(***************************************************************************)
CacheInv ==
    /\ \A r \in DOMAIN hist : r <= store.rev
    /\ Settled(forwarder) /\ store.snapshot # NoSnapshot => Committed(store, hist)
    /\ RecentDiffsChain

\* A new revision leaves the older entries of the history alone.
LEMMA CommitFacts ==
    ASSUME NEW h, NEW rev \in Nat, NEW old \in Nat, NEW c,
           \A r \in DOMAIN h : r \in Nat /\ r <= old,
           rev > old \/ DOMAIN h = {}
    PROVE  /\ Extends(h, Commit(h, rev, c))
           /\ rev \in DOMAIN Commit(h, rev, c)
           /\ Commit(h, rev, c)[rev] = c
           /\ \A r \in DOMAIN Commit(h, rev, c) : r <= rev
  BY DEF Commit, Extends

\* The ring stays bounded, gapless, and ends with the diff just applied.
LEMMA RememberChain ==
    ASSUME NEW ring \in Seq(Nat \X Nat), NEW d \in DiffMsgs,
           Len(ring) <= MaxRecentDiffs,
           \A i \in 1 .. Len(ring) - 1 : ring[i][2] = ring[i + 1][1],
           ring # << >> => ring[Len(ring)][2] = d.base
    PROVE  LET new == Remember(ring, d)
           IN  /\ Len(new) <= MaxRecentDiffs
               /\ \A i \in 1 .. Len(new) - 1 : new[i][2] = new[i + 1][1]
               /\ new # << >> /\ new[Len(new)][2] = d.new
  <1> DEFINE kept == IF Len(ring) = MaxRecentDiffs THEN Tail(ring) ELSE ring
             e    == <<d.base, d.new>>
  <1>1. e \in Nat \X Nat /\ e[1] = d.base /\ e[2] = d.new
    BY DEF DiffMsgs
  <1>2. /\ kept \in Seq(Nat \X Nat)
        /\ Len(kept) < MaxRecentDiffs
        /\ \A i \in 1 .. Len(kept) - 1 : kept[i][2] = kept[i + 1][1]
        /\ kept # << >> => kept[Len(kept)][2] = d.base
    <2>1. CASE Len(ring) = MaxRecentDiffs
      <3>1. ring # << >>
        BY <2>1, BoundsAssumption
      <3>2. /\ Tail(ring) \in Seq(Nat \X Nat)
            /\ Len(Tail(ring)) = Len(ring) - 1
            /\ \A i \in 1 .. Len(ring) - 1 : Tail(ring)[i] = ring[i + 1]
        BY <3>1
      <3>3. Tail(ring) # << >> => Tail(ring)[Len(Tail(ring))] = ring[Len(ring)]
        BY <3>2
      <3>4. \A i \in 1 .. Len(Tail(ring)) - 1 : Tail(ring)[i][2] = Tail(ring)[i + 1][1]
        BY <3>2
      <3> QED BY <2>1, <3>1, <3>2, <3>3, <3>4, BoundsAssumption
    <2>2. CASE Len(ring) # MaxRecentDiffs
      BY <2>2, BoundsAssumption
    <2> QED BY <2>1, <2>2
  <1> HIDE DEF kept, e
  <1>3. Remember(ring, d) = Append(kept, e)
    BY DEF Remember, kept, e
  <1>4. /\ Len(Append(kept, e)) = Len(kept) + 1
        /\ Append(kept, e)[Len(kept) + 1] = e
        /\ \A i \in 1 .. Len(kept) : Append(kept, e)[i] = kept[i]
    BY <1>1, <1>2
  <1>5. \A i \in 1 .. Len(kept) : Append(kept, e)[i][2] = Append(kept, e)[i + 1][1]
    <2> TAKE i \in 1 .. Len(kept)
    <2>1. CASE i = Len(kept)
      <3>1. Append(kept, e)[i + 1] = e /\ e[1] = d.base
        BY <1>1, <1>4, <2>1
      <3>2. Append(kept, e)[i] = kept[i] /\ kept # << >>
        BY <1>4, <2>1
      <3>3. kept[i][2] = d.base
        BY <1>2, <2>1, <3>2
      <3> QED BY <3>1, <3>2, <3>3
    <2>2. CASE i < Len(kept)
      <3>1. Len(kept) \in Nat
        BY <1>2
      <3>2. i \in 1 .. Len(kept) - 1 /\ i + 1 \in 1 .. Len(kept)
        BY <2>2, <3>1
      <3>3. kept[i][2] = kept[i + 1][1]
        BY <1>2, <3>2
      <3>4. Append(kept, e)[i] = kept[i] /\ Append(kept, e)[i + 1] = kept[i + 1]
        BY <1>4, <3>2
      <3> QED BY <3>3, <3>4
    <2> QED BY <1>2, <2>1, <2>2
  <1>6. Len(kept) \in Nat /\ Len(kept) + 1 <= MaxRecentDiffs
    BY <1>2, BoundsAssumption
  <1>7. Append(kept, e) # << >>
    <2>1. Len(<< >>) = 0
      OBVIOUS
    <2>2. Len(Append(kept, e)) # 0
      BY <1>4, <1>6
    <2> QED BY <2>1, <2>2
  <1>8. 1 .. Len(Append(kept, e)) - 1 = 1 .. Len(kept)
    BY <1>4, <1>6
  <1> QED BY <1>1, <1>3, <1>4, <1>5, <1>6, <1>7, <1>8

(***************************************************************************)
(* The cache is written in three places: when the backend session opens,   *)
(* by a backend diff and by a recapture.  (HandleHello's empty store       *)
(* replaces an empty store.)                                               *)
(***************************************************************************)
LEMMA CacheWriters ==
    ASSUME TypeOK, Flow, [Next]_vars
    PROVE  \/ OpenBackendSession
           \/ \E d \in DiffMsgs : ForwardDiff(d)
           \/ Recapture
           \/ /\ UNCHANGED <<store, recent, hist>>
              /\ Settled(forwarder') => Settled(forwarder)
  <1>a. forwarder \in ForwarderStates
    BY DEF TypeOK
  <1>1. CASE HandleHello
    BY <1>1 DEF HandleHello, Flow
  <1>2. CASE HandlerStep /\ ~OpenBackendSession
    BY <1>a, <1>2 DEF HandlerStep, SendHelloAck, SendInitialSnapshot, ReadCachedState,
       CaptureForAction, SendReply, CloseSession, SendStatus, Settled, ForwarderStates, Flow
  <1>3. CASE ClientRequest /\ ~HandleHello
    BY <1>a, <1>3 DEF ClientRequest, HandleSubscribe, HandleActionRequest,
       HandleReadArtifactOrPing, InboundEnds, InboundFails, Settled, ForwarderStates
  <1>4. CASE BackendEvent
    <2>1. CASE ForwardWarning
      BY <1>a, <2>1 DEF ForwardWarning, TakeEvent, Settled, ForwarderStates
    <2> QED BY <1>4, <2>1, BackendDiffType DEF BackendEvent
  <1>5. CASE RecordResync
    BY <1>a, <1>5 DEF RecordResync, Settled, ForwarderStates
  <1>6. CASE ForwarderSends
    <2>1. CASE forwarder' = [forwarder EXCEPT !.pc = "done"]
      BY <1>a, <1>6, <2>1 DEF ForwarderSends, Settled, ForwarderStates
    <2>2. CASE forwarder' = AfterSend(forwarder)
      <3>1. CASE forwarder.pc = "send_signal"
        BY <1>a, <1>6, <2>2, <3>1 DEF ForwarderSends, AfterSend, Settled, ForwarderStates
      <3>2. CASE forwarder.pc = "send_snapshot"
        BY <1>a, <1>6, <2>2, <3>2 DEF ForwarderSends, AfterSend, Settled, ForwarderStates
      <3>3. CASE forwarder.pc \in {"send_diff", "send_warning"}
        BY <1>a, <1>6, <2>2, <3>3 DEF ForwarderSends, AfterSend, Settled, ForwarderStates
      <3> QED BY <1>6, <3>1, <3>2, <3>3 DEF ForwarderSends, Sending
    <2> QED BY <1>6, <2>1, <2>2 DEF ForwarderSends
  <1>7. CASE ForwarderStops
    BY <1>a, <1>7 DEF ForwarderStops, Settled, ForwarderStates
  <1>8. CASE ClientReceives \/ ClientDrops \/ UNCHANGED vars
    BY <1>8 DEF ClientReceives, ClientDrops, vars
  <1> QED BY <1>1, <1>2, <1>3, <1>4, <1>5, <1>6, <1>7, <1>8 DEF Next, ForwarderStep

\* A backend diff, seen from the cache.
LEMMA ForwardDiffCache ==
    ASSUME TypeOK, Flow, CacheInv, NEW d \in DiffMsgs, ForwardDiff(d)
    PROVE  CacheInv' /\ Extends(hist, hist') /\ store'.rev >= store.rev
  <1>1. /\ forwarder.pc = "recv" /\ store.snapshot # NoSnapshot
        /\ store' = apply_diff(store, d).store
    BY DEF ForwardDiff, TakeEvent, Flow
  <1>2. /\ store \in Store /\ store.rev \in Nat /\ d.new \in Nat
        /\ \A r \in DOMAIN hist : r \in Nat /\ r <= store.rev
        /\ forwarder \in ForwarderStates /\ recent \in Seq(Nat \X Nat)
    BY DEF TypeOK, CacheInv, Store, DiffMsgs, InitialSnapshot, SnapshotMsgs
  <1>3. CASE apply_diff(store, d).ok
    <2>1. /\ d.base = store.rev /\ d.new > store.rev /\ store'.rev = d.new
      BY <1>1, <1>2, <1>3, ApplyDiffOk
    <2>2. /\ recent' = Remember(recent, d)
          /\ hist' = Commit(hist, d.new, store'.snapshot)
      BY <1>1, <1>3 DEF ForwardDiff
    <2>3. /\ Extends(hist, hist') /\ Committed(store, hist)'
          /\ \A r \in DOMAIN hist' : r <= store'.rev
      BY <1>2, <2>1, <2>2, CommitFacts DEF Committed
    <2>4. RecentDiffsChain'
      BY <1>2, <2>1, <2>2, RememberChain DEF CacheInv, RecentDiffsChain
    <2> QED BY <1>2, <2>1, <2>3, <2>4 DEF CacheInv
  <1>4. CASE ~apply_diff(store, d).ok
    <2>1. store'.rev = store.rev /\ UNCHANGED <<recent, hist>>
      BY <1>1, <1>2, <1>4, ApplyDiffFailed DEF ForwardDiff
    <2>2. ~Settled(forwarder')
      BY <1>2, <1>4 DEF ForwardDiff, Settled, ForwarderStates
    <2>3. Extends(hist, hist')
      BY <2>1 DEF Extends
    <2> QED BY <1>2, <2>1, <2>2, <2>3 DEF CacheInv, RecentDiffsChain
  <1> QED BY <1>3, <1>4

\* A whole new snapshot, at the opening or after a recapture.
LEMMA ReplaceCache ==
    ASSUME TypeOK, CacheInv, NEW rev \in Nat, NEW content \in Content,
           rev > store.rev \/ (DOMAIN hist = {} /\ store.rev = 0),
           store' = replace_snapshot(rev, content),
           recent' = << >>,
           hist' = Commit(hist, rev, content)
    PROVE  CacheInv' /\ Extends(hist, hist') /\ store'.rev >= store.rev
  <1>1. /\ store.rev \in Nat
        /\ \A r \in DOMAIN hist : r \in Nat /\ r <= store.rev
    BY DEF TypeOK, CacheInv, Store, InitialSnapshot, SnapshotMsgs
  <1>2. store'.rev = rev /\ store'.snapshot = content
    BY DEF replace_snapshot
  <1>3. /\ Extends(hist, hist') /\ Committed(store, hist)'
        /\ \A r \in DOMAIN hist' : r <= store'.rev
    BY <1>1, <1>2, CommitFacts DEF Committed
  <1>4. RecentDiffsChain'
    BY <1>2, BoundsAssumption DEF RecentDiffsChain
  <1> QED BY <1>1, <1>2, <1>3, <1>4 DEF CacheInv

\* Every step keeps the cache's invariant, the history and the order of revisions.
LEMMA CacheStep ==
    ASSUME TypeOK, Flow, CacheInv, [Next]_vars
    PROVE  CacheInv' /\ Extends(hist, hist') /\ store'.rev >= store.rev
  <1>1. store.rev \in Nat
    BY DEF TypeOK, Store
  <1>2. ASSUME UNCHANGED <<store, recent, hist>>, Settled(forwarder') => Settled(forwarder)
        PROVE  CacheInv' /\ Extends(hist, hist') /\ store'.rev >= store.rev
    BY <1>1, <1>2 DEF CacheInv, RecentDiffsChain, Committed, Extends
  <1>3. CASE OpenBackendSession
    <2>1. store.snapshot = NoSnapshot /\ DOMAIN hist = {} /\ forwarder' = forwarder
      BY <1>3 DEF OpenBackendSession, Flow
    <2>2. CASE UNCHANGED <<store, recent, hist>>
      BY <1>2, <2>1, <2>2
    <2>3. store.rev = 0
      BY <2>1 DEF Flow, EmptyStore
    <2> QED BY <1>3, <2>1, <2>2, <2>3, ReplaceCache, BackendAssumption DEF OpenBackendSession
  <1>4. CASE Recapture
    <2>1. CASE /\ forwarder' = [forwarder EXCEPT !.pc = "send_warning",
                                                  !.msg = Plain("Warning"),
                                                  !.refresh_failed = TRUE]
               /\ UNCHANGED <<store, recent, hist>>
      <3>1. ~Settled(forwarder')
        BY <2>1 DEF Settled, ForwarderStates, TypeOK
      <3> QED BY <1>2, <2>1, <3>1
    <2>2. ASSUME NEW rev \in SnapshotRevs, NEW content \in Captures, NEW new,
                 new = normalize_snapshot_revision(rev, store.rev),
                 store' = replace_snapshot(new, content),
                 recent' = << >>,
                 hist' = Commit(hist, new, content)
          PROVE  CacheInv' /\ Extends(hist, hist') /\ store'.rev >= store.rev
      <3>1. /\ new \in Nat /\ content \in Content
            /\ new > store.rev \/ (DOMAIN hist = {} /\ store.rev = 0)
        <4>1. rev \in Nat /\ content \in Content
          BY BackendAssumption
        <4>2. new \in Nat /\ new > store.rev
          BY <1>1, <2>2, <4>1 DEF normalize_snapshot_revision
        <4> QED BY <4>1, <4>2
      <3>2. /\ store' = replace_snapshot(new, content)
            /\ recent' = << >>
            /\ hist' = Commit(hist, new, content)
        BY <2>2
      <3> QED BY <3>1, <3>2, ReplaceCache
    <2> QED BY <1>4, <2>1, <2>2 DEF Recapture
  <1> QED BY <1>2, <1>3, <1>4, CacheWriters, ForwardDiffCache

-----------------------------------------------------------------------------
(* The theorems of this module.                                            *)

DaemonInv == TypeOK /\ Flow /\ CacheInv

LEMMA CacheInit == Init => CacheInv
  <1> SUFFICES ASSUME Init PROVE CacheInv
    OBVIOUS
  <1>1. store.snapshot = NoSnapshot /\ DOMAIN hist = {} /\ recent = << >>
    BY DEF Init, EmptyStore
  <1>2. RecentDiffsChain
    BY <1>1, BoundsAssumption DEF RecentDiffsChain
  <1> QED BY <1>1, <1>2 DEF CacheInv

\* The inductive invariant of the daemon's side of the session.
THEOREM DaemonInvariant == Spec => []DaemonInv
  <1>1. Init => DaemonInv
    BY TypeInit, FlowInit, CacheInit DEF DaemonInv
  <1>2. DaemonInv /\ [Next]_vars => DaemonInv'
    BY TypeStep, FlowStep, CacheStep DEF DaemonInv
  <1> QED BY <1>1, <1>2, PTL DEF Spec

\* Every variable of the session keeps its type.
THEOREM TypeCorrect == Spec => []TypeOK
  <1>1. DaemonInv => TypeOK
    BY DEF DaemonInv
  <1> QED BY <1>1, DaemonInvariant, PTL

(***************************************************************************)
(* Outside a recovery, and unless a recapture failed, an unmarked cache    *)
(* shows what it committed under its revision: forward_backend_events      *)
(* always undoes a partly applied diff before it takes the next event.     *)
(***************************************************************************)
THEOREM CacheIsCoherent == Spec => []CacheCoherentOutsideRecovery
  <1>1. DaemonInv => CacheCoherentOutsideRecovery
    BY DEF DaemonInv, CacheInv, Settled, CacheCoherentOutsideRecovery, Coherent
  <1> QED BY <1>1, DaemonInvariant, PTL

(***************************************************************************)
(* recent_diffs is a bounded gapless chain that ends at the cache's        *)
(* revision, whatever the backend sends and however often it resyncs.      *)
(***************************************************************************)
THEOREM RecentDiffsAreAChain == Spec => []RecentDiffsChain
  <1>1. DaemonInv => RecentDiffsChain
    BY DEF DaemonInv, CacheInv
  <1> QED BY <1>1, DaemonInvariant, PTL

-----------------------------------------------------------------------------
(* Backends whose diffs never fail half way.                               *)

NoOperationFails == \A c \in Content, ops \in OpLists : ApplyOps(c, ops).ok

\* A diff that does not apply then only marks the cache.
LEMMA FailureMarks ==
    ASSUME NoOperationFails, NEW s \in Store, NEW d \in DiffMsgs,
           s.snapshot # NoSnapshot, ~apply_diff(s, d).ok
    PROVE  apply_diff(s, d).store.resync
  <1>1. s.snapshot \in Content /\ ApplyOps(s.snapshot, d.ops).ok
    BY DEF NoOperationFails, Store, MaybeContent, DiffMsgs
  <1>2. d.base # s.rev \/ d.new <= d.base
    BY <1>1 DEF apply_diff
  <1>3. apply_diff(s, d).store = mark_resync_required(s)
    BY <1>2 DEF apply_diff
  <1> QED BY <1>3 DEF mark_resync_required, Store

\* So an unmarked cache always shows what it committed.
LEMMA CacheStaysCommitted ==
    ASSUME NoOperationFails, DaemonInv, Coherent(store, hist), [Next]_vars
    PROVE  Coherent(store, hist)'
  <1>1. TypeOK /\ Flow /\ CacheInv /\ store \in Store /\ store.rev \in Nat
        /\ \A r \in DOMAIN hist : r \in Nat /\ r <= store.rev
    BY DEF DaemonInv, TypeOK, CacheInv, Store, InitialSnapshot, SnapshotMsgs
  <1>2. ASSUME NEW rev, NEW content, store' = replace_snapshot(rev, content),
               hist' = Commit(hist, rev, content)
        PROVE  Coherent(store, hist)'
    BY <1>2 DEF replace_snapshot, Commit, Coherent, Committed
  <1>3. CASE UNCHANGED <<store, hist>>
    BY <1>3 DEF Coherent, Committed
  <1>4. CASE OpenBackendSession
    BY <1>2, <1>3, <1>4 DEF OpenBackendSession
  <1>5. CASE Recapture
    BY <1>2, <1>3, <1>5 DEF Recapture
  <1>6. ASSUME NEW d \in DiffMsgs, ForwardDiff(d)
        PROVE  Coherent(store, hist)'
    <2>1. /\ store' = apply_diff(store, d).store /\ store.snapshot # NoSnapshot
      BY <1>1, <1>6 DEF ForwardDiff, TakeEvent, Flow
    <2>2. CASE apply_diff(store, d).ok
      <3>1. hist' = Commit(hist, d.new, store'.snapshot) /\ store'.rev = d.new
        BY <1>1, <1>6, <2>1, <2>2, ApplyDiffOk DEF ForwardDiff
      <3> QED BY <3>1 DEF Commit, Coherent, Committed
    <2>3. CASE ~apply_diff(store, d).ok
      BY <1>1, <2>1, <2>3, FailureMarks DEF Coherent
    <2> QED BY <2>2, <2>3
  <1> QED BY <1>1, <1>3, <1>4, <1>5, <1>6, CacheWriters

\* Who sets what an action was served.
LEMMA ViewWriters ==
    ASSUME TypeOK, [Next]_vars
    PROVE  \/ handler'.view \in {handler.view, NoView}
           \/ handler'.view.src = "capture"
           \/ /\ ~store.resync /\ store.snapshot # NoSnapshot
              /\ handler'.view = [src |-> "cache", rev |-> store.rev, content |-> store.snapshot]
  <1>a. handler \in HandlerStates
    BY DEF TypeOK
  <1>1. CASE ReadCachedState
    BY <1>a, <1>1 DEF ReadCachedState, HandlerFails, HandlerStates
  <1>2. CASE CaptureForAction
    <2>1. CASE handler' = [handler EXCEPT !.pc = "read_state", !.base = 0] \/ HandlerFails
      BY <1>a, <2>1 DEF HandlerFails, HandlerStates
    <2>2. CASE \E rev \in SnapshotRevs, content \in Captures, next \in {"read_state", "reply"} :
                 handler' = [handler EXCEPT
                               !.pc = next, !.reply = "ActionResult", !.base = 0,
                               !.view = [src |-> "capture",
                                         rev |-> normalize_snapshot_revision(rev, handler.base),
                                         content |-> content]]
      <3>1. PICK rev \in SnapshotRevs, content \in Captures, next \in {"read_state", "reply"} :
                 handler' = [handler EXCEPT
                               !.pc = next, !.reply = "ActionResult", !.base = 0,
                               !.view = [src |-> "capture",
                                         rev |-> normalize_snapshot_revision(rev, handler.base),
                                         content |-> content]]
        BY <2>2
      <3>2. handler'.view = [src |-> "capture",
                             rev |-> normalize_snapshot_revision(rev, handler.base),
                             content |-> content]
        BY <1>a, <3>1 DEF HandlerStates
      <3> QED BY <3>2
    <2> QED BY <1>2, <2>1, <2>2 DEF CaptureForAction
  <1>3. CASE SendReply
    BY <1>a, <1>3 DEF SendReply, HandlerFails, HandlerStates
  <1>4. CASE SendHelloAck \/ OpenBackendSession \/ SendInitialSnapshot \/ CloseSession \/ SendStatus
    BY <1>a, <1>4 DEF SendHelloAck, OpenBackendSession, SendInitialSnapshot, CloseSession,
       SendStatus, HandlerFails, HandlerStates
  <1>5. CASE ClientRequest
    BY <1>a, <1>5 DEF ClientRequest, HandleHello, HandleSubscribe, HandleActionRequest,
       HandleReadArtifactOrPing, InboundEnds, InboundFails, HandlerFails, HandlerStates
  <1>6. CASE BackendEvent \/ ForwarderStep \/ ForwarderStops \/ ClientReceives \/ ClientDrops
               \/ UNCHANGED vars
    BY <1>6 DEF BackendEvent, ForwardDiff, ForwardWarning, ForwarderStep, RecordResync,
       Recapture, ForwarderSends, ForwarderStops, ClientReceives, ClientDrops, vars
  <1> QED BY <1>1, <1>2, <1>3, <1>4, <1>5, <1>6 DEF Next, HandlerStep

(***************************************************************************)
(* As long as no operation of a diff fails half way, best_effort_snapshot  *)
(* serves actions only states that the cache committed under the revision  *)
(* it reports, although it reads them in the middle of recoveries.         *)
(***************************************************************************)
THEOREM CachedReadsAreCommitted ==
    ASSUME NoOperationFails
    PROVE  Spec => []CachedReadIsCommitted
  <1> DEFINE Inv == Coherent(store, hist) /\ CachedReadIsCommitted
  <1>1. Init => Inv
    BY DEF Init, EmptyStore, NoView, Coherent, CachedReadIsCommitted
  <1>2. DaemonInv /\ Inv /\ [Next]_vars => Inv'
    <2> SUFFICES ASSUME DaemonInv, Inv, [Next]_vars PROVE Inv'
      OBVIOUS
    <2>1. Coherent(store, hist)'
      BY CacheStaysCommitted
    <2>2. TypeOK /\ Extends(hist, hist')
      BY CacheStep DEF DaemonInv
    <2>3. ASSUME handler'.view = handler.view PROVE CachedReadIsCommitted'
      BY <2>2, <2>3 DEF Extends, CachedReadIsCommitted
    <2>4. ASSUME handler'.view.src # "cache" PROVE CachedReadIsCommitted'
      BY <2>4 DEF CachedReadIsCommitted
    <2>5. ASSUME ~store.resync, store.snapshot # NoSnapshot,
                 handler'.view = [src |-> "cache", rev |-> store.rev, content |-> store.snapshot]
          PROVE  CachedReadIsCommitted'
      <3>1. store.rev \in DOMAIN hist /\ hist[store.rev] = store.snapshot
        BY <2>5 DEF Coherent, Committed
      <3>2. handler'.view.rev = store.rev /\ handler'.view.content = store.snapshot
        BY <2>5
      <3> QED BY <2>2, <3>1, <3>2 DEF Extends, CachedReadIsCommitted
    <2>6. NoView.src # "cache"
      BY DEF NoView
    <2> QED BY <2>1, <2>2, <2>3, <2>4, <2>5, <2>6, ViewWriters
  <1> QED BY <1>1, <1>2, DaemonInvariant, PTL DEF Spec

=============================================================================
