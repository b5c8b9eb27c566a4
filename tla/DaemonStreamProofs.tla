------------------------- MODULE DaemonStreamProofs -------------------------
(***************************************************************************)
(* Proofs about the response stream of DaemonSession: what the client's    *)
(* replica becomes when it works through everything that is in flight.     *)
(* The handler and the forwarder both write to the stream, and the client  *)
(* lags behind by up to a full channel, so a step of the daemon is related *)
(* to the state the client WILL have when it reads the new message (the    *)
(* tip), not to the state it has.                                          *)
(***************************************************************************)
EXTENDS DaemonSessionProofs

\* A diff can be applied by a reader in state s that is not marked.
Deliverable(s, m) ==
    m.type = "DiffBatch" /\ ~s.resync => apply_diff(s, m).ok

\* f runs through the replica's states while the messages of q are read.
Replays(f, q, c, h) ==
    /\ f \in [0 .. Len(q) -> Store]
    /\ f[0] = c
    /\ \A k \in 1 .. Len(q) :
          /\ f[k] = Receive(f[k - 1], q[k])
          /\ Deliverable(f[k - 1], q[k])
          /\ f[k - 1].rev <= f[k].rev
    /\ \A k \in 0 .. Len(q) : Coherent(f[k], h)

SameView(a, b) == a.rev = b.rev /\ a.snapshot = b.snapshot

(***************************************************************************)
(* Unless a recapture has failed, the tip is the cache itself, mark        *)
(* included, as soon as what the forwarder is about to send has been read. *)
(***************************************************************************)
Level(tip, fw, s) ==
    ~fw.refresh_failed =>
        /\ fw.pc \in {"recv", "send_warning"} => tip = s
        /\ fw.pc = "send_diff" => Receive(tip, fw.msg) = s
        /\ fw.pc = "send_snapshot" => ~s.resync

(***************************************************************************)
(* How the tip of the stream relates to the cache s and to the forwarder   *)
(* fw, for a client that asked for diffs (emit) and for one that did not.  *)
(***************************************************************************)
EmitStep(tip, fw, s) ==
    /\ fw.pc \in {"recv", "send_warning"} => tip.resync \/ SameView(tip, s)
    /\ fw.pc = "send_diff" =>
          /\ fw.msg \in DiffMsgs
          /\ fw.msg.new = s.rev
          /\ tip.resync \/ (apply_diff(tip, fw.msg).ok
                              /\ apply_diff(tip, fw.msg).store.snapshot = s.snapshot)
    /\ fw.pc = "resync" => tip.resync \/ tip.rev = s.rev
    /\ fw.pc = "send_signal" =>
          /\ fw.msg = DiffBatch(s.rev, s.rev + 1, ResyncSignal)
          /\ tip.resync \/ tip.rev = s.rev
    /\ fw.pc = "capture" => tip.resync
    /\ fw.pc = "send_snapshot" =>
          fw.msg = InitialSnapshot(s.rev, s.snapshot) /\ tip.rev <= s.rev
    /\ Level(tip, fw, s)

InStep(tip, fw, emit, s) ==
    /\ fw.pc = "off" => tip = EmptyStore
    /\ fw.pc # "off" => tip.snapshot # NoSnapshot
    /\ tip.rev <= s.rev + 1
    /\ fw.pc = "send_warning" => fw.msg = Plain("Warning")
    /\ emit => EmitStep(tip, fw, s)
    /\ ~emit => fw.pc \notin {"send_diff", "send_signal", "send_snapshot"}

StreamInv ==
    /\ ~reading => out = << >>
    /\ \E f : /\ Replays(f, out, client, hist)
              /\ reading => InStep(f[Len(out)], forwarder, handler.emit, store)

-----------------------------------------------------------------------------
(* The replay of a stream that grows, shrinks, or outlives a commit.       *)

\* A replay still holds when the history has grown.
LEMMA ReplaysExtends ==
    ASSUME NEW f, NEW q \in Seq(Msgs), NEW c, NEW h1, NEW h2,
           Replays(f, q, c, h1), Extends(h1, h2)
    PROVE  Replays(f, q, c, h2)
  <1>1. \A s : Coherent(s, h1) => Coherent(s, h2)
    BY DEF Coherent, Committed, Extends
  <1> QED BY <1>1 DEF Replays

\* The replay of an empty stream is the replica itself.
LEMMA ReplaysEmpty ==
    ASSUME NEW c \in Store, NEW h, Coherent(c, h)
    PROVE  \E f : Replays(f, << >>, c, h)
  <1> DEFINE f == [k \in 0 .. 0 |-> c]
  <1>1. Len(<< >>) = 0 /\ 0 \in 0 .. 0 /\ 1 .. 0 = {}
    OBVIOUS
  <1>2. f \in [0 .. 0 -> Store] /\ f[0] = c
    OBVIOUS
  <1>3. \A k \in 0 .. 0 : Coherent(f[k], h)
    BY <1>2
  <1> HIDE DEF f
  <1>4. Replays(f, << >>, c, h)
    BY <1>1, <1>2, <1>3 DEF Replays
  <1> QED BY <1>4

\* One more message at the end.
LEMMA ReplaysAppend ==
    ASSUME NEW f, NEW q \in Seq(Msgs), NEW c, NEW h, NEW m \in Msgs,
           Replays(f, q, c, h),
           Deliverable(f[Len(q)], m),
           f[Len(q)].rev <= Receive(f[Len(q)], m).rev,
           Coherent(Receive(f[Len(q)], m), h)
    PROVE  \E g : /\ Replays(g, Append(q, m), c, h)
                  /\ g[Len(Append(q, m))] = Receive(f[Len(q)], m)
  <1> DEFINE n == Len(q)
             t == Receive(f[n], m)
             g == [k \in 0 .. n + 1 |-> IF k = n + 1 THEN t ELSE f[k]]
             p == Append(q, m)
  <1>1. /\ n \in Nat /\ Len(p) = n + 1 /\ p[n + 1] = m
        /\ \A k \in 1 .. n : p[k] = q[k]
    OBVIOUS
  <1>2. /\ f \in [0 .. n -> Store] /\ f[0] = c /\ f[n] \in Store
        /\ \A k \in 1 .. n : /\ f[k] = Receive(f[k - 1], q[k])
                             /\ Deliverable(f[k - 1], q[k])
                             /\ f[k - 1].rev <= f[k].rev
        /\ \A k \in 0 .. n : Coherent(f[k], h)
    BY <1>1 DEF Replays
  <1>3. t \in Store
    BY <1>2, ReceiveType
  <1>4. /\ Deliverable(f[n], m) /\ f[n].rev <= t.rev /\ Coherent(t, h)
        /\ t = Receive(f[n], m)
    OBVIOUS
  <1> HIDE DEF n, t, p
  <1>5. /\ g \in [0 .. n + 1 -> Store] /\ g[n + 1] = t
        /\ \A k \in 0 .. n : g[k] = f[k]
    BY <1>1, <1>2, <1>3
  <1> HIDE DEF g
  <1>6. g[0] = c
    BY <1>1, <1>2, <1>5
  <1>7. \A k \in 1 .. n + 1 : /\ g[k] = Receive(g[k - 1], p[k])
                              /\ Deliverable(g[k - 1], p[k])
                              /\ g[k - 1].rev <= g[k].rev
    <2> TAKE k \in 1 .. n + 1
    <2>1. CASE k = n + 1
      <3>1. k - 1 = n /\ g[k - 1] = f[n] /\ g[k] = t /\ p[k] = m
        BY <1>1, <1>5, <2>1
      <3> QED BY <1>4, <3>1
    <2>2. CASE k # n + 1
      <3>1. k \in 1 .. n /\ k - 1 \in 0 .. n /\ k \in 0 .. n
        BY <1>1, <2>2
      <3>2. g[k] = f[k] /\ g[k - 1] = f[k - 1] /\ p[k] = q[k]
        BY <1>1, <1>5, <3>1
      <3> QED BY <1>2, <3>1, <3>2
    <2> QED BY <2>1, <2>2
  <1>8. \A k \in 0 .. n + 1 : Coherent(g[k], h)
    <2> TAKE k \in 0 .. n + 1
    <2>1. k = n + 1 \/ k \in 0 .. n
      BY <1>1
    <2> QED BY <1>2, <1>4, <1>5, <2>1
  <1>9. Replays(g, p, c, h)
    BY <1>1, <1>5, <1>6, <1>7, <1>8 DEF Replays
  <1>10. g[Len(p)] = t
    BY <1>1, <1>5
  <1> QED BY <1>9, <1>10 DEF n, p, t

\* One message read at the front.
LEMMA ReplaysTail ==
    ASSUME NEW f, NEW q \in Seq(Msgs), NEW c, NEW h, q # << >>,
           Replays(f, q, c, h)
    PROVE  /\ f[1] = Receive(c, Head(q)) /\ c.rev <= f[1].rev
           /\ Deliverable(c, Head(q))
           /\ Coherent(f[1], h)
           /\ \E g : Replays(g, Tail(q), f[1], h) /\ g[Len(Tail(q))] = f[Len(q)]
  <1> DEFINE n == Len(q)
             g == [k \in 0 .. n - 1 |-> f[k + 1]]
             p == Tail(q)
  <1>1. /\ n \in Nat /\ n >= 1 /\ Len(p) = n - 1 /\ Head(q) = q[1]
        /\ \A k \in 1 .. n - 1 : p[k] = q[k + 1]
    OBVIOUS
  <1>2. /\ f \in [0 .. n -> Store] /\ f[0] = c
        /\ \A k \in 1 .. n : /\ f[k] = Receive(f[k - 1], q[k])
                             /\ Deliverable(f[k - 1], q[k])
                             /\ f[k - 1].rev <= f[k].rev
        /\ \A k \in 0 .. n : Coherent(f[k], h)
    BY DEF Replays
  <1> HIDE DEF n, p
  <1>3. 1 \in 1 .. n /\ 1 \in 0 .. n /\ 1 - 1 = 0
    BY <1>1
  <1>4. /\ f[1] = Receive(c, Head(q)) /\ c.rev <= f[1].rev
        /\ Deliverable(c, Head(q)) /\ Coherent(f[1], h)
    BY <1>1, <1>2, <1>3
  <1>5. /\ \A k \in 0 .. n - 1 : k + 1 \in 0 .. n /\ g[k] = f[k + 1]
        /\ g \in [0 .. n - 1 -> Store]
    BY <1>1, <1>2
  <1> HIDE DEF g
  <1>6. g[0] = f[1] /\ g[n - 1] = f[n]
    BY <1>1, <1>5
  <1>7. \A k \in 1 .. n - 1 : /\ g[k] = Receive(g[k - 1], p[k])
                              /\ Deliverable(g[k - 1], p[k])
                              /\ g[k - 1].rev <= g[k].rev
    <2> TAKE k \in 1 .. n - 1
    <2>1. k + 1 \in 1 .. n /\ (k + 1) - 1 = k /\ k \in 0 .. n - 1 /\ k - 1 \in 0 .. n - 1
            /\ (k - 1) + 1 = k
      BY <1>1
    <2>2. g[k] = f[k + 1] /\ g[k - 1] = f[k] /\ p[k] = q[k + 1]
      BY <1>1, <1>5, <2>1
    <2> QED BY <1>2, <2>1, <2>2
  <1>8. \A k \in 0 .. n - 1 : Coherent(g[k], h)
    BY <1>2, <1>5
  <1>9. Replays(g, p, f[1], h)
    BY <1>1, <1>5, <1>6, <1>7, <1>8 DEF Replays
  <1> QED BY <1>1, <1>4, <1>6, <1>9 DEF n, p

-----------------------------------------------------------------------------
(* What reading one message does to the tip.                               *)

LEMMA ReceivePlain ==
    ASSUME NEW tip \in Store, NEW m \in PlainMsgs
    PROVE  Receive(tip, m) = tip /\ Deliverable(tip, m) /\ m \in Msgs
  BY DEF Receive, Deliverable, PlainMsgs, Msgs

LEMMA ReceiveSnapshot ==
    ASSUME NEW tip \in Store, NEW m \in SnapshotMsgs
    PROVE  /\ Receive(tip, m).rev = m.rev
           /\ Receive(tip, m).snapshot = m.content
           /\ Receive(tip, m).resync = FALSE
           /\ Deliverable(tip, m)
  BY DEF Receive, Deliverable, SnapshotMsgs, replace_snapshot

LEMMA ReceiveDiff ==
    ASSUME NEW tip \in Store, NEW d \in DiffMsgs, tip.snapshot # NoSnapshot
    PROVE  /\ Receive(tip, d) = apply_diff(tip, d).store
           /\ Receive(tip, d).snapshot # NoSnapshot
           /\ tip.resync => Receive(tip, d).resync
           /\ tip.rev <= Receive(tip, d).rev
           /\ Receive(tip, d).rev = tip.rev \/ Receive(tip, d).rev = d.new
           /\ d \in Msgs
  <1>1. Receive(tip, d) = apply_diff(tip, d).store /\ d \in Msgs
    BY DEF Receive, DiffMsgs, Msgs
  <1>2. tip.rev \in Nat /\ d.new \in Nat
    BY DEF Store, DiffMsgs
  <1>3. CASE apply_diff(tip, d).ok
    BY <1>1, <1>2, <1>3, ApplyDiffOk, ContentAssumption
  <1>4. CASE ~apply_diff(tip, d).ok
    BY <1>1, <1>2, <1>4, ApplyDiffFailed, ContentAssumption
  <1> QED BY <1>3, <1>4

\* Two stores with the same view agree on whether a diff applies.
LEMMA SameViewApply ==
    ASSUME NEW a \in Store, NEW b \in Store, NEW d \in DiffMsgs,
           SameView(a, b), apply_diff(b, d).ok
    PROVE  /\ apply_diff(a, d).ok
           /\ apply_diff(a, d).store.snapshot = apply_diff(b, d).store.snapshot
  <1>1. /\ b.snapshot \in Content /\ d.base = b.rev /\ d.new > b.rev
        /\ ApplyOps(b.snapshot, d.ops).ok
        /\ apply_diff(b, d).store.snapshot = ApplyOps(b.snapshot, d.ops).content
    BY ApplyDiffOk
  <1>2. a.snapshot = b.snapshot /\ a.rev = b.rev /\ a.snapshot # NoSnapshot
    BY <1>1, ContentAssumption DEF SameView
  <1>3. ~(d.base # a.rev \/ d.new <= d.base)
    BY <1>1, <1>2 DEF Store, DiffMsgs
  <1>4. apply_diff(a, d) =
          [ok    |-> ApplyOps(a.snapshot, d.ops).ok,
           store |-> [snapshot |-> ApplyOps(a.snapshot, d.ops).content,
                      rev      |-> IF ApplyOps(a.snapshot, d.ops).ok THEN d.new ELSE a.rev,
                      resync   |-> a.resync \/ HasResync(d.ops)]]
    BY <1>2, <1>3 DEF apply_diff
  <1> QED BY <1>1, <1>2, <1>4

\* Unmarked stores with the same view are the same.
LEMMA SameStore ==
    ASSUME NEW a \in Store, NEW b \in Store,
           a.rev = b.rev, a.snapshot = b.snapshot, ~a.resync, ~b.resync
    PROVE  a = b
  BY DEF Store

\* The resync signal marks any replica that holds a snapshot.
LEMMA SignalMarks ==
    ASSUME NEW tip \in Store, NEW rev \in Nat, tip.snapshot # NoSnapshot,
           tip.resync \/ tip.rev = rev
    PROVE  LET m == DiffBatch(rev, rev + 1, ResyncSignal)
           IN  /\ m \in DiffMsgs /\ m.new = rev + 1
               /\ Deliverable(tip, m)
               /\ Receive(tip, m).resync
  <1> DEFINE m == DiffBatch(rev, rev + 1, ResyncSignal)
  <1>1. /\ m \in DiffMsgs /\ m.base = rev /\ m.new = rev + 1 /\ m.ops = ResyncSignal
        /\ m.type = "DiffBatch"
    BY ResyncSignalAssumption DEF DiffBatch, DiffMsgs
  <1> HIDE DEF m
  <1>2. CASE tip.resync
    BY <1>1, <1>2, ReceiveDiff DEF Deliverable, m
  <1>3. CASE tip.rev = rev
    <2>1. tip.snapshot \in Content
      BY DEF Store, MaybeContent
    <2>2. ~(m.base # tip.rev \/ m.new <= m.base)
      BY <1>1, <1>3
    <2>3. apply_diff(tip, m) =
          [ok    |-> ApplyOps(tip.snapshot, ResyncSignal).ok,
           store |-> [snapshot |-> ApplyOps(tip.snapshot, ResyncSignal).content,
                      rev      |-> IF ApplyOps(tip.snapshot, ResyncSignal).ok THEN m.new ELSE tip.rev,
                      resync   |-> tip.resync \/ HasResync(ResyncSignal)]]
      BY <1>1, <2>1, <2>2, ContentAssumption DEF apply_diff
    <2>4. apply_diff(tip, m).ok /\ apply_diff(tip, m).store.resync
      <3>1. ApplyOps(tip.snapshot, ResyncSignal).ok
        BY <2>1, ResyncSignalAssumption
      <3>2. apply_diff(tip, m).ok
        BY <2>3, <3>1
      <3>3. apply_diff(tip, m).store.resync = (tip.resync \/ HasResync(ResyncSignal))
        BY <2>3
      <3> QED BY <3>2, <3>3, ResyncSignalAssumption
    <2> QED BY <1>1, <2>4, ReceiveDiff DEF Deliverable, m
  <1> QED BY <1>2, <1>3

-----------------------------------------------------------------------------
(* Two shapes of step: one that sends nothing and one that sends m.        *)

LEMMA QuietStep ==
    ASSUME DaemonInv, StreamInv, Extends(hist, hist'),
           UNCHANGED <<out, client, reading>>,
           \A tip \in Store :
               reading /\ InStep(tip, forwarder, handler.emit, store)
                   => InStep(tip, forwarder', handler'.emit, store')
    PROVE  StreamInv'
  <1>1. PICK f : /\ Replays(f, out, client, hist)
                 /\ reading => InStep(f[Len(out)], forwarder, handler.emit, store)
    BY DEF StreamInv
  <1>2. out \in Seq(Msgs)
    BY DEF DaemonInv, TypeOK
  <1>3. Replays(f, out, client, hist')
    BY <1>1, <1>2, ReplaysExtends
  <1>4. f[Len(out)] \in Store
    BY <1>1, <1>2 DEF Replays
  <1>5. reading => InStep(f[Len(out)], forwarder', handler'.emit, store')
    BY <1>1, <1>4
  <1>6. Replays(f, out', client', hist')
        /\ (reading' => InStep(f[Len(out')], forwarder', handler'.emit, store'))
    BY <1>3, <1>5
  <1> QED BY <1>6 DEF StreamInv

LEMMA SendStep ==
    ASSUME DaemonInv, StreamInv, NEW m \in Msgs,
           reading, out' = Append(out, m), UNCHANGED <<client, reading, hist>>,
           \A tip \in Store :
               InStep(tip, forwarder, handler.emit, store) /\ Coherent(tip, hist) =>
                   /\ Deliverable(tip, m)
                   /\ tip.rev <= Receive(tip, m).rev
                   /\ Coherent(Receive(tip, m), hist)
                   /\ InStep(Receive(tip, m), forwarder', handler'.emit, store')
    PROVE  StreamInv'
  <1>1. PICK f : /\ Replays(f, out, client, hist)
                 /\ InStep(f[Len(out)], forwarder, handler.emit, store)
    BY DEF StreamInv
  <1>2. out \in Seq(Msgs)
    BY DEF DaemonInv, TypeOK
  <1>3. f[Len(out)] \in Store /\ Coherent(f[Len(out)], hist)
    BY <1>1, <1>2 DEF Replays
  <1>4. PICK g : /\ Replays(g, Append(out, m), client, hist)
                 /\ g[Len(Append(out, m))] = Receive(f[Len(out)], m)
    BY <1>1, <1>2, <1>3, ReplaysAppend
  <1>5. /\ Replays(g, out', client', hist')
        /\ InStep(g[Len(out')], forwarder', handler'.emit, store')
    BY <1>1, <1>3, <1>4
  <1> QED BY <1>5 DEF StreamInv

-----------------------------------------------------------------------------
(* The steps, one by one.                                                  *)

\* Steps that leave the forwarder's place, the cache and the stream alone.
LEMMA IdleStep ==
    ASSUME DaemonInv, StreamInv, Extends(hist, hist'),
           UNCHANGED <<out, client, reading, store>>,
           forwarder'.pc = forwarder.pc, forwarder'.msg = forwarder.msg,
           forwarder'.refresh_failed = forwarder.refresh_failed,
           handler'.emit = handler.emit \/ forwarder.pc = "off"
    PROVE  StreamInv'
  <1>1. ASSUME NEW tip \in Store, InStep(tip, forwarder, handler.emit, store)
        PROVE  InStep(tip, forwarder', handler'.emit, store')
    BY <1>1 DEF InStep, EmitStep, Level
  <1> QED BY <1>1, QuietStep

\* The handler sends an answer that the replica ignores.
LEMMA AnswerStep ==
    ASSUME DaemonInv, StreamInv, NEW m \in PlainMsgs, Send(m),
           UNCHANGED <<client, reading, hist, store, forwarder>>,
           handler'.emit = handler.emit
    PROVE  StreamInv'
  <1>1. ASSUME NEW tip \in Store, InStep(tip, forwarder, handler.emit, store),
               Coherent(tip, hist)
        PROVE  /\ Deliverable(tip, m)
               /\ tip.rev <= Receive(tip, m).rev
               /\ Coherent(Receive(tip, m), hist)
               /\ InStep(Receive(tip, m), forwarder', handler'.emit, store')
    <2>1. Receive(tip, m) = tip /\ Deliverable(tip, m) /\ tip.rev \in Nat
      BY ReceivePlain DEF Store
    <2> QED BY <1>1, <2>1
  <1>2. m \in Msgs /\ reading /\ out' = Append(out, m)
    BY DEF Msgs, Send, CanSend
  <1> QED BY <1>1, <1>2, SendStep

LEMMA SendInitialSnapshotStep ==
    ASSUME DaemonInv, StreamInv, SendInitialSnapshot, reading
    PROVE  StreamInv'
  <1> DEFINE m == InitialSnapshot(store.rev, store.snapshot)
  <1>1. /\ out' = Append(out, m)
        /\ forwarder' = [forwarder EXCEPT !.pc = "recv"]
        /\ handler' = [handler EXCEPT !.pc = "recv", !.subscribed = TRUE]
        /\ UNCHANGED <<client, reading, hist, store>>
    BY DEF SendInitialSnapshot, Send
  <1>2. /\ forwarder.pc = "off" /\ store.snapshot # NoSnapshot
        /\ Committed(store, hist) /\ store.rev \in Nat
        /\ store \in Store /\ ~store.resync
    BY DEF DaemonInv, Flow, SendInitialSnapshot, TypeOK, Store
  <1>3. /\ m \in Msgs /\ m \in SnapshotMsgs
        /\ m.rev = store.rev /\ m.content = store.snapshot
    BY <1>2 DEF DaemonInv, TypeOK, Store, MaybeContent, InitialSnapshot, SnapshotMsgs, Msgs
  <1>4. /\ forwarder'.pc = "recv" /\ handler'.emit = handler.emit
    BY <1>1 DEF DaemonInv, TypeOK, ForwarderStates, HandlerStates
  <1> HIDE DEF m
  <1>5. ASSUME NEW tip \in Store, InStep(tip, forwarder, handler.emit, store),
               Coherent(tip, hist)
        PROVE  /\ Deliverable(tip, m)
               /\ tip.rev <= Receive(tip, m).rev
               /\ Coherent(Receive(tip, m), hist)
               /\ InStep(Receive(tip, m), forwarder', handler'.emit, store')
    <2> DEFINE t == Receive(tip, m)
    <2>1. /\ Deliverable(tip, m) /\ t.rev = store.rev
          /\ t.snapshot = store.snapshot /\ t.resync = FALSE
      BY <1>3, ReceiveSnapshot
    <2>6. t \in Store
      BY <1>3, ReceiveType
    <2> HIDE DEF t
    <2>7. t = store
      BY <1>2, <2>1, <2>6, SameStore
    <2>2. tip.rev = 0
      BY <1>2, <1>5 DEF InStep, EmptyStore
    <2>3. Coherent(t, hist)
      BY <1>2, <2>1 DEF Coherent, Committed
    <2>4. SameView(t, store)
      BY <2>1 DEF SameView
    <2>5. InStep(t, forwarder', handler'.emit, store')
      BY <1>1, <1>2, <1>4, <2>1, <2>4, <2>7 DEF InStep, EmitStep, SameView, Level
    <2> QED BY <1>2, <2>1, <2>2, <2>3, <2>5 DEF t
  <1>6. reading /\ out' = Append(out, m)
    BY <1>1 DEF m
  <1> QED BY <1>1, <1>3, <1>5, <1>6, SendStep

\* The backend session opens: the stream holds nothing of the cache yet.
LEMMA OpenBackendSessionStep ==
    ASSUME DaemonInv, StreamInv, OpenBackendSession, Extends(hist, hist'),
           store'.rev >= store.rev, store'.rev \in Nat
    PROVE  StreamInv'
  <1>1. /\ forwarder.pc = "off" /\ forwarder' = forwarder
        /\ UNCHANGED <<out, client, reading>>
    BY DEF DaemonInv, Flow, OpenBackendSession
  <1>2. ASSUME NEW tip \in Store, InStep(tip, forwarder, handler.emit, store)
        PROVE  InStep(tip, forwarder', handler'.emit, store')
    BY <1>1, <1>2 DEF InStep, EmitStep, EmptyStore, Level
  <1> QED BY <1>1, <1>2, QuietStep

LEMMA ForwardDiffStep ==
    ASSUME DaemonInv, StreamInv, NEW d \in DiffMsgs, ForwardDiff(d),
           Extends(hist, hist'), store'.rev >= store.rev
    PROVE  StreamInv'
  <1>1. /\ forwarder.pc = "recv" /\ UNCHANGED <<handler, out, client, reading>>
        /\ store' = apply_diff(store, d).store
    BY DEF ForwardDiff, TakeEvent
  <1>2. /\ store \in Store /\ store.rev \in Nat
        /\ forwarder \in ForwarderStates
    BY DEF DaemonInv, TypeOK, Store
  <1>3. store'.rev \in Nat
    BY <1>1, <1>2, ApplyDiffType DEF Store
  <1>4. ASSUME NEW tip \in Store, InStep(tip, forwarder, handler.emit, store)
        PROVE  InStep(tip, forwarder', handler'.emit, store')
    <2>1. /\ tip.snapshot # NoSnapshot /\ tip.rev <= store.rev + 1 /\ tip.rev \in Nat
          /\ handler.emit => tip.resync \/ SameView(tip, store)
          /\ handler.emit /\ ~forwarder.refresh_failed => tip = store
      BY <1>1, <1>4 DEF InStep, EmitStep, Level, Store
    <2>2. tip.rev <= store'.rev + 1
      BY <1>2, <1>3, <2>1
    <2>3. CASE apply_diff(store, d).ok /\ handler.emit
      <3>1. forwarder' = [forwarder EXCEPT !.pc = "send_diff", !.msg = d]
        BY <2>3 DEF ForwardDiff
      <3>2. /\ forwarder'.pc = "send_diff" /\ forwarder'.msg = d
            /\ forwarder'.refresh_failed = forwarder.refresh_failed
        BY <1>2, <3>1 DEF ForwarderStates
      <3>3. d.new = store'.rev
        BY <1>1, <1>2, <2>3, ApplyDiffOk
      <3>4. tip.resync \/ (apply_diff(tip, d).ok
                              /\ apply_diff(tip, d).store.snapshot = store'.snapshot)
        BY <1>1, <1>2, <2>1, <2>3, SameViewApply
      <3>5. ~forwarder'.refresh_failed => Receive(tip, d) = store'
        BY <1>1, <2>1, <2>3, <3>2, ReceiveDiff
      <3>6. Level(tip, forwarder', store')
        BY <3>2, <3>5 DEF Level
      <3> QED BY <1>1, <2>1, <2>2, <2>3, <3>2, <3>3, <3>4, <3>6 DEF InStep, EmitStep
    <2>4. CASE apply_diff(store, d).ok /\ ~handler.emit
      <3>1. forwarder' = forwarder
        BY <2>4 DEF ForwardDiff
      <3> QED BY <1>1, <2>1, <2>2, <2>4, <3>1 DEF InStep
    <2>5. CASE ~apply_diff(store, d).ok
      <3>1. forwarder'.pc = "resync"
        BY <1>2, <2>5 DEF ForwardDiff, ForwarderStates
      <3>2. store'.rev = store.rev
        BY <1>1, <1>2, <2>5, ApplyDiffFailed
      <3> QED BY <1>1, <2>1, <2>2, <3>1, <3>2 DEF InStep, EmitStep, SameView, Level
    <2> QED BY <2>3, <2>4, <2>5
  <1> QED BY <1>1, <1>4, QuietStep

LEMMA RecaptureStep ==
    ASSUME DaemonInv, StreamInv, Recapture, Extends(hist, hist'),
           store'.rev >= store.rev
    PROVE  StreamInv'
  <1>1. /\ forwarder.pc = "capture" /\ UNCHANGED <<handler, out, client, reading>>
        /\ forwarder \in ForwarderStates /\ store.rev \in Nat
    BY DEF Recapture, DaemonInv, TypeOK, Store
  <1>2. ASSUME NEW tip \in Store, InStep(tip, forwarder, handler.emit, store)
        PROVE  InStep(tip, forwarder', handler'.emit, store')
    <2>1. /\ tip.snapshot # NoSnapshot /\ tip.rev <= store.rev + 1 /\ tip.rev \in Nat
          /\ handler.emit => tip.resync
      BY <1>1, <1>2 DEF InStep, EmitStep, Store
    <2>2. CASE /\ forwarder' = [forwarder EXCEPT !.pc = "send_warning",
                                                  !.msg = Plain("Warning"),
                                                  !.refresh_failed = TRUE]
               /\ UNCHANGED <<store, recent, hist>>
      <3>1. /\ forwarder'.pc = "send_warning" /\ forwarder'.msg = Plain("Warning")
            /\ forwarder'.refresh_failed
        BY <1>1, <2>2 DEF ForwarderStates
      <3> QED BY <1>1, <2>1, <2>2, <3>1 DEF InStep, EmitStep, Level
    <2>3. ASSUME NEW rev \in SnapshotRevs, NEW content \in Captures, NEW new,
                 new = normalize_snapshot_revision(rev, store.rev),
                 store' = replace_snapshot(new, content),
                 forwarder' = IF handler.emit
                              THEN [forwarder EXCEPT
                                      !.pc = "send_snapshot",
                                      !.msg = InitialSnapshot(new, content),
                                      !.refresh_failed = FALSE]
                              ELSE [forwarder EXCEPT
                                      !.pc = "send_warning", !.msg = Plain("Warning"),
                                      !.refresh_failed = FALSE]
          PROVE  InStep(tip, forwarder', handler'.emit, store')
      <3>1. rev \in Nat
        BY BackendAssumption
      <3>2. new \in Nat /\ new >= store.rev + 1
        BY <1>1, <2>3, <3>1 DEF normalize_snapshot_revision
      <3>3. store'.rev = new /\ store'.snapshot = content /\ ~store'.resync
        BY <2>3 DEF replace_snapshot
      <3>4. tip.rev <= store'.rev /\ tip.rev <= store'.rev + 1
        BY <1>1, <2>1, <3>2, <3>3
      <3>5. CASE handler.emit
        <4>1. forwarder'.pc = "send_snapshot"
              /\ forwarder'.msg = InitialSnapshot(store'.rev, store'.snapshot)
          BY <1>1, <2>3, <3>3, <3>5 DEF ForwarderStates
        <4> QED BY <1>1, <2>1, <3>3, <3>4, <3>5, <4>1 DEF InStep, EmitStep, Level
      <3>6. CASE ~handler.emit
        <4>1. forwarder'.pc = "send_warning" /\ forwarder'.msg = Plain("Warning")
          BY <1>1, <2>3, <3>6 DEF ForwarderStates
        <4> QED BY <1>1, <2>1, <3>4, <3>6, <4>1 DEF InStep
      <3> QED BY <3>5, <3>6
    <2> QED BY <2>2, <2>3 DEF Recapture
  <1> QED BY <1>1, <1>2, QuietStep

\* The forwarder's four kinds of message, each with what it does to the tip.
LEMMA ForwarderSendsStep ==
    ASSUME DaemonInv, StreamInv, ForwarderSends, reading
    PROVE  StreamInv'
  <1> DEFINE m == forwarder.msg
  <1>1. /\ out' = Append(out, m) /\ forwarder' = AfterSend(forwarder)
        /\ UNCHANGED <<handler, client, reading, hist, store>>
        /\ forwarder.pc \in Sending
    BY DEF ForwarderSends, Send
  <1>2. /\ m \in Msgs /\ forwarder \in ForwarderStates /\ store.rev \in Nat
        /\ store.snapshot \in Content /\ store.snapshot # NoSnapshot /\ store \in Store
    BY <1>1, ContentAssumption
       DEF DaemonInv, Flow, TypeOK, ForwarderStates, Store, MaybeContent, Sending
  <1>3. Settled(forwarder) => Committed(store, hist)
    BY <1>2 DEF DaemonInv, CacheInv
  <1> HIDE DEF m
  <1>4. ASSUME NEW tip \in Store, InStep(tip, forwarder, handler.emit, store),
               Coherent(tip, hist)
        PROVE  /\ Deliverable(tip, m)
               /\ tip.rev <= Receive(tip, m).rev
               /\ Coherent(Receive(tip, m), hist)
               /\ InStep(Receive(tip, m), forwarder', handler'.emit, store')
    <2> DEFINE t == Receive(tip, m)
    <2>1. /\ tip.snapshot # NoSnapshot /\ tip.rev <= store.rev + 1 /\ tip.rev \in Nat
          /\ handler.emit => EmitStep(tip, forwarder, store)
          /\ forwarder.pc \in {"send_diff", "send_signal", "send_snapshot"} => handler.emit
      BY <1>1, <1>4 DEF InStep, Store, Sending
    <2>2. CASE forwarder.pc = "send_warning"
      <3>1. m \in PlainMsgs
        BY <1>4, <2>2 DEF InStep, Plain, PlainMsgs, m
      <3>2. t = tip /\ Deliverable(tip, m)
        BY <3>1, ReceivePlain
      <3>3. forwarder'.pc = "recv" /\ forwarder'.refresh_failed = forwarder.refresh_failed
        BY <1>1, <1>2, <2>2 DEF AfterSend, ForwarderStates
      <3>4. handler.emit => /\ tip.resync \/ SameView(tip, store)
                            /\ ~forwarder.refresh_failed => tip = store
        BY <2>1, <2>2 DEF EmitStep, Level
      <3>5. InStep(tip, forwarder', handler'.emit, store')
        BY <1>1, <2>1, <3>3, <3>4 DEF InStep, EmitStep, Level
      <3> QED BY <1>4, <2>1, <3>2, <3>5
    <2>3. CASE forwarder.pc = "send_diff"
      <3>1. /\ m \in DiffMsgs /\ m.new = store.rev /\ handler.emit
            /\ tip.resync \/ (apply_diff(tip, m).ok
                                 /\ apply_diff(tip, m).store.snapshot = store.snapshot)
            /\ ~forwarder.refresh_failed => t = store
        BY <2>1, <2>3 DEF EmitStep, Level, m
      <3>2. /\ t = apply_diff(tip, m).store /\ t.snapshot # NoSnapshot
            /\ tip.resync => t.resync
            /\ tip.rev <= t.rev
            /\ t.rev = tip.rev \/ t.rev = m.new
        BY <2>1, <3>1, ReceiveDiff
      <3>3. Deliverable(tip, m)
        BY <3>1 DEF Deliverable
      <3>4. forwarder'.pc = "recv" /\ forwarder'.refresh_failed = forwarder.refresh_failed
        BY <1>1, <1>2, <2>3 DEF AfterSend, ForwarderStates
      <3>5. Committed(store, hist)
        BY <1>3, <2>3 DEF Settled
      <3> HIDE DEF t
      <3>6. t.resync \/ SameView(t, store)
        <4>1. CASE tip.resync
          BY <3>2, <4>1
        <4>2. CASE ~tip.resync
          <5>1. t.rev = store.rev /\ t.snapshot = store.snapshot
            BY <3>1, <3>2, <4>2, ApplyDiffOk
          <5> QED BY <5>1 DEF SameView
        <4> QED BY <4>1, <4>2
      <3>7. Coherent(t, hist)
        BY <3>5, <3>6 DEF Coherent, Committed, SameView
      <3>8. t.rev <= store.rev + 1
        BY <1>2, <2>1, <3>1, <3>2
      <3>9. InStep(t, forwarder', handler'.emit, store')
        BY <1>1, <3>1, <3>2, <3>4, <3>6, <3>8 DEF InStep, EmitStep, Level
      <3> QED BY <3>2, <3>3, <3>7, <3>9 DEF t
    <2>4. CASE forwarder.pc = "send_signal"
      <3>1. /\ m = DiffBatch(store.rev, store.rev + 1, ResyncSignal) /\ handler.emit
            /\ tip.resync \/ tip.rev = store.rev
        BY <2>1, <2>4 DEF EmitStep, m
      <3>2. m \in DiffMsgs /\ m.new = store.rev + 1 /\ Deliverable(tip, m) /\ t.resync
        BY <1>2, <2>1, <3>1, SignalMarks
      <3>3. /\ t.snapshot # NoSnapshot /\ tip.rev <= t.rev
            /\ t.rev = tip.rev \/ t.rev = m.new
        BY <2>1, <3>2, ReceiveDiff
      <3>4. forwarder'.pc = "capture"
        BY <1>1, <1>2, <2>4 DEF AfterSend, ForwarderStates
      <3> HIDE DEF t
      <3>5. t.rev <= store.rev + 1
        BY <1>2, <2>1, <3>2, <3>3
      <3>6. Coherent(t, hist)
        BY <3>2 DEF Coherent
      <3>7. InStep(t, forwarder', handler'.emit, store')
        BY <1>1, <3>1, <3>2, <3>3, <3>4, <3>5 DEF InStep, EmitStep, Level
      <3> QED BY <3>2, <3>3, <3>6, <3>7 DEF t
    <2>5. CASE forwarder.pc = "send_snapshot"
      <3>1. /\ m = InitialSnapshot(store.rev, store.snapshot) /\ handler.emit
            /\ tip.rev <= store.rev
            /\ ~forwarder.refresh_failed => ~store.resync
        BY <2>1, <2>5 DEF EmitStep, Level, m
      <3>2. m \in SnapshotMsgs /\ m.rev = store.rev /\ m.content = store.snapshot
        BY <1>2, <3>1 DEF InitialSnapshot, SnapshotMsgs
      <3>3. /\ t.rev = store.rev /\ t.snapshot = store.snapshot /\ t.resync = FALSE
            /\ Deliverable(tip, m) /\ t \in Store
        BY <1>2, <3>2, ReceiveSnapshot, ReceiveType
      <3>4. /\ forwarder'.pc = "send_warning" /\ forwarder'.msg = Plain("Warning")
            /\ forwarder'.refresh_failed = forwarder.refresh_failed
        BY <1>1, <1>2, <2>5 DEF AfterSend, ForwarderStates
      <3>5. Committed(store, hist)
        BY <1>3, <2>5 DEF Settled
      <3> HIDE DEF t
      <3>6. Coherent(t, hist)
        BY <3>3, <3>5 DEF Coherent, Committed
      <3>7. SameView(t, store) /\ t.rev <= store.rev + 1 /\ tip.rev <= t.rev
        BY <1>2, <3>1, <3>3 DEF SameView
      <3>9. ~forwarder.refresh_failed => t = store
        BY <1>2, <3>1, <3>3, SameStore
      <3>8. InStep(t, forwarder', handler'.emit, store')
        BY <1>1, <1>2, <3>1, <3>3, <3>4, <3>7, <3>9 DEF InStep, EmitStep, Level
      <3> QED BY <3>3, <3>6, <3>7, <3>8 DEF t
    <2> QED BY <1>1, <2>2, <2>3, <2>4, <2>5 DEF Sending
  <1>5. out' = Append(out, m)
    BY <1>1
  <1> QED BY <1>1, <1>2, <1>4, <1>5, SendStep

\* The client reads: the replica moves to the next state of the replay.
LEMMA ClientReceivesStep ==
    ASSUME DaemonInv, StreamInv, ClientReceives
    PROVE  StreamInv' /\ client'.rev >= client.rev
  <1>1. /\ reading /\ out # << >> /\ client' = Receive(client, Head(out))
        /\ UNCHANGED <<handler, forwarder, store, hist>>
        /\ out \in Seq(Msgs) /\ client \in Store
    BY DEF ClientReceives, DaemonInv, TypeOK
  <1>2. PICK f : /\ Replays(f, out, client, hist)
                 /\ InStep(f[Len(out)], forwarder, handler.emit, store)
    BY <1>1 DEF StreamInv
  <1>3. /\ f[1] = client' /\ client.rev <= client'.rev /\ Coherent(client', hist)
        /\ \E g : Replays(g, Tail(out), f[1], hist) /\ g[Len(Tail(out))] = f[Len(out)]
    BY <1>1, <1>2, ReplaysTail
  <1>4. Head(out) \in Msgs /\ client' \in Store
    BY <1>1, ReceiveType
  <1>5. client.rev \in Nat /\ client'.rev \in Nat
    BY <1>1, <1>4 DEF Store
  <1>6. CASE Head(out).type = "Status"
    <2>1. out' = << >> /\ reading' = FALSE
      BY <1>6 DEF ClientReceives
    <2>2. \E g : Replays(g, << >>, client', hist')
      BY <1>1, <1>3, <1>4, ReplaysEmpty
    <2>3. StreamInv'
      BY <2>1, <2>2 DEF StreamInv
    <2> QED BY <1>3, <1>5, <2>3
  <1>7. CASE Head(out).type # "Status"
    <2>1. out' = Tail(out) /\ reading' = TRUE
      BY <1>7 DEF ClientReceives
    <2>2. PICK g : Replays(g, Tail(out), f[1], hist) /\ g[Len(Tail(out))] = f[Len(out)]
      BY <1>3
    <2>3. /\ Replays(g, out', client', hist')
          /\ InStep(g[Len(out')], forwarder', handler'.emit, store')
      BY <1>1, <1>2, <1>3, <2>1, <2>2
    <2>4. StreamInv'
      BY <2>1, <2>3 DEF StreamInv
    <2> QED BY <1>3, <1>5, <2>4
  <1> QED BY <1>6, <1>7

\* The client goes away with what was in flight.
LEMMA ClientDropsStep ==
    ASSUME DaemonInv, StreamInv, ClientDrops
    PROVE  StreamInv'
  <1>1. /\ out' = << >> /\ reading' = FALSE /\ UNCHANGED <<client, hist>>
        /\ client \in Store /\ out \in Seq(Msgs)
    BY DEF ClientDrops, DaemonInv, TypeOK
  <1>2. Coherent(client, hist)
    BY <1>1 DEF StreamInv, Replays
  <1>3. \E g : Replays(g, << >>, client', hist')
    BY <1>1, <1>2, ReplaysEmpty
  <1> QED BY <1>1, <1>3 DEF StreamInv

\* Every step keeps the stream's invariant.
LEMMA StreamStep ==
    ASSUME DaemonInv, StreamInv, [Next]_vars
    PROVE  StreamInv'
  <1>a. /\ handler \in HandlerStates /\ forwarder \in ForwarderStates
        /\ store.rev \in Nat /\ TypeOK /\ Flow
    BY DEF DaemonInv, TypeOK, Store
  <1>b. Extends(hist, hist') /\ store'.rev >= store.rev
    BY CacheStep DEF DaemonInv
  <1>c. store'.rev \in Nat
    BY <1>a, TypeStep DEF TypeOK, Store
  <1>d. Plain(handler.reply) \in PlainMsgs /\ Plain("HelloAck") \in PlainMsgs
          /\ Plain("Status") \in PlainMsgs
    BY <1>a DEF Plain, PlainMsgs, HandlerStates
  \* A step of a task whose client is gone: nothing is sent.
  <1>e. ASSUME ~reading, UNCHANGED <<out, client, reading>>
        PROVE  StreamInv'
    BY <1>b, <1>e, QuietStep
  <1>1. CASE HandleHello
    <2>1. store' = store /\ handler'.emit = handler.emit
      BY <1>a, <1>1 DEF HandleHello, HandlerFails, Flow, HandlerStates
    <2> QED BY <1>1, <1>b, <2>1, IdleStep DEF HandleHello
  <1>2. CASE SendHelloAck
    <2>1. handler'.emit = handler.emit
      BY <1>a, <1>2 DEF SendHelloAck, HandlerFails, HandlerStates
    <2> QED BY <1>2, <1>d, <1>e, <2>1, AnswerStep DEF SendHelloAck
  <1>3. CASE HandleSubscribe
    <2>1. handler'.emit = handler.emit \/ forwarder.pc = "off"
      BY <1>a, <1>3 DEF HandleSubscribe, HandlerFails, Flow, HandlerStates
    <2> QED BY <1>3, <1>b, <2>1, IdleStep DEF HandleSubscribe
  <1>4. CASE HandleActionRequest \/ HandleReadArtifactOrPing \/ InboundFails
               \/ ReadCachedState \/ CaptureForAction \/ CloseSession
    <2>1. handler'.emit = handler.emit /\ UNCHANGED <<out, client, reading, store, forwarder>>
      BY <1>a, <1>4 DEF HandleActionRequest, HandleReadArtifactOrPing, InboundFails,
         ReadCachedState, CaptureForAction, CloseSession, HandlerFails, HandlerStates
    <2> QED BY <1>b, <2>1, IdleStep
  <1>5. CASE SendReply
    <2>1. handler'.emit = handler.emit
      BY <1>a, <1>5 DEF SendReply, HandlerFails, HandlerStates
    <2> QED BY <1>5, <1>d, <1>e, <2>1, AnswerStep DEF SendReply
  <1>6. CASE SendStatus
    <2>1. handler'.emit = handler.emit
      BY <1>a, <1>6 DEF SendStatus, HandlerStates
    <2> QED BY <1>6, <1>d, <1>e, <2>1, AnswerStep DEF SendStatus
  <1>7. CASE InboundEnds
    <2>1. /\ handler'.emit = handler.emit /\ forwarder'.pc = forwarder.pc
          /\ forwarder'.msg = forwarder.msg
          /\ forwarder'.refresh_failed = forwarder.refresh_failed
      BY <1>a, <1>7 DEF InboundEnds, HandlerStates, ForwarderStates
    <2> QED BY <1>7, <1>b, <2>1, IdleStep DEF InboundEnds
  <1>8. CASE OpenBackendSession
    BY <1>8, <1>b, <1>c, OpenBackendSessionStep
  <1>9. CASE SendInitialSnapshot
    <2>1. CASE reading
      BY <1>9, <2>1, SendInitialSnapshotStep
    <2>2. CASE ~reading
      BY <1>9, <1>e, <2>2 DEF SendInitialSnapshot, Send, CanSend
    <2> QED BY <2>1, <2>2
  <1>10. CASE BackendEvent
    <2>1. CASE ForwardWarning
      <3>1. /\ forwarder.pc = "recv" /\ forwarder'.pc = "send_warning"
            /\ forwarder'.msg = Plain("Warning")
            /\ forwarder'.refresh_failed = forwarder.refresh_failed
            /\ UNCHANGED <<handler, store, out, reading, client>>
        BY <1>a, <2>1 DEF ForwardWarning, TakeEvent, ForwarderStates
      <3>2. ASSUME NEW tip \in Store, InStep(tip, forwarder, handler.emit, store)
            PROVE  InStep(tip, forwarder', handler'.emit, store')
        BY <3>1, <3>2 DEF InStep, EmitStep, Level
      <3> QED BY <1>b, <3>1, <3>2, QuietStep
    <2> QED BY <1>10, <1>b, <2>1, BackendDiffType, ForwardDiffStep DEF BackendEvent
  <1>11. CASE RecordResync
    <2>1. /\ forwarder.pc = "resync"
          /\ UNCHANGED <<handler, store, out, reading, client>>
          /\ handler.emit => /\ forwarder'.pc = "send_signal"
                             /\ forwarder'.msg = DiffBatch(store.rev, store.rev + 1, ResyncSignal)
          /\ ~handler.emit => forwarder'.pc = "capture"
      BY <1>a, <1>11 DEF RecordResync, ForwarderStates
    <2>2. ASSUME NEW tip \in Store, InStep(tip, forwarder, handler.emit, store)
          PROVE  InStep(tip, forwarder', handler'.emit, store')
      BY <2>1, <2>2 DEF InStep, EmitStep, Level
    <2> QED BY <1>b, <2>1, <2>2, QuietStep
  <1>12. CASE Recapture
    BY <1>12, <1>b, RecaptureStep
  <1>13. CASE ForwarderSends
    <2>1. CASE reading
      BY <1>13, <2>1, ForwarderSendsStep
    <2>2. CASE ~reading
      BY <1>13, <1>e, <2>2 DEF ForwarderSends, Send, CanSend
    <2> QED BY <2>1, <2>2
  <1>14. CASE ForwarderStops
    <2>1. /\ forwarder.pc # "off" /\ forwarder'.pc = "done"
          /\ UNCHANGED <<handler, store, out, reading, client>>
      BY <1>a, <1>14 DEF ForwarderStops, ForwarderStates
    <2>2. ASSUME NEW tip \in Store, InStep(tip, forwarder, handler.emit, store)
          PROVE  InStep(tip, forwarder', handler'.emit, store')
      BY <2>1, <2>2 DEF InStep, EmitStep, Level
    <2> QED BY <1>b, <2>1, <2>2, QuietStep
  <1>15. CASE ClientReceives
    BY <1>15, ClientReceivesStep
  <1>16. CASE ClientDrops
    BY <1>16, ClientDropsStep
  <1>17. CASE UNCHANGED vars
    BY <1>17, <1>b, IdleStep DEF vars
  <1> QED BY <1>1, <1>2, <1>3, <1>4, <1>5, <1>6, <1>7, <1>8, <1>9, <1>10, <1>11, <1>12,
             <1>13, <1>14, <1>15, <1>16, <1>17
       DEF Next, HandlerStep, ClientRequest, ForwarderStep

\* The initial stream is empty, and so is the replica.
LEMMA StreamInit == Init => StreamInv
  <1> SUFFICES ASSUME Init PROVE StreamInv
    OBVIOUS
  <1>1. /\ out = << >> /\ client = EmptyStore /\ client \in Store
        /\ forwarder.pc = "off" /\ forwarder.msg = Plain("Pong") /\ store = EmptyStore
    BY DEF Init, EmptyStore, Store, MaybeContent
  <1>2. Coherent(client, hist)
    BY <1>1 DEF Coherent, EmptyStore
  <1>3. PICK f : Replays(f, << >>, client, hist)
    BY <1>1, <1>2, ReplaysEmpty
  <1>4. f[Len(out)] = EmptyStore
    BY <1>1, <1>3 DEF Replays
  <1>5. InStep(EmptyStore, forwarder, handler.emit, store)
    BY <1>1 DEF InStep, EmitStep, EmptyStore, Level
  <1> QED BY <1>1, <1>3, <1>4, <1>5 DEF StreamInv

\* The inductive invariant of the session, cache and stream together.
THEOREM SessionInvariant == Spec => [](DaemonInv /\ StreamInv)
  <1>1. Init => StreamInv
    BY StreamInit
  <1>2. DaemonInv /\ StreamInv /\ [Next]_vars => StreamInv'
    BY StreamStep
  <1> QED BY <1>1, <1>2, DaemonInvariant, PTL DEF Spec

(***************************************************************************)
(* A client whose replica is not marked holds exactly what the daemon's    *)
(* cache committed under that revision: for every backend, every capacity  *)
(* of the channel and every interleaving of the handler, the forwarder and *)
(* the reader.                                                             *)
(***************************************************************************)
THEOREM ReplicaIsCoherent == Spec => []ClientReplicaCoherent
  <1>1. DaemonInv /\ StreamInv => ClientReplicaCoherent
    <2> SUFFICES ASSUME DaemonInv, StreamInv PROVE Coherent(client, hist)
      BY DEF ClientReplicaCoherent
    <2>1. out \in Seq(Msgs)
      BY DEF DaemonInv, TypeOK
    <2> QED BY <2>1 DEF StreamInv, Replays
  <1> QED BY <1>1, SessionInvariant, PTL

(***************************************************************************)
(* reader_loop may ignore the result of apply_diff: a diff that reaches an *)
(* unmarked replica applies, whatever else was in flight when it was sent. *)
(***************************************************************************)
THEOREM DiffsApply == Spec => []DeliveredDiffApplies
  <1>1. DaemonInv /\ StreamInv => DeliveredDiffApplies
    <2> SUFFICES ASSUME DaemonInv, StreamInv, out # << >> PROVE Deliverable(client, Head(out))
      BY DEF DeliveredDiffApplies, Deliverable
    <2>1. out \in Seq(Msgs)
      BY DEF DaemonInv, TypeOK
    <2> QED BY <2>1, ReplaysTail DEF StreamInv
  <1> QED BY <1>1, SessionInvariant, PTL

(***************************************************************************)
(* The cache's and the replica's revisions never go back: a snapshot taken *)
(* in a recovery is numbered above the resync signal sent before it.       *)
(***************************************************************************)
THEOREM RevisionsAreMonotone == Spec => RevisionsNeverDecrease
  <1> DEFINE A == /\ session = "active" => store'.rev >= store.rev
                  /\ client'.rev >= client.rev
  <1>1. DaemonInv /\ StreamInv /\ [Next]_vars => [A]_<<store, client>>
    <2> SUFFICES ASSUME DaemonInv, StreamInv, [Next]_vars PROVE A
      OBVIOUS
    <2>1. store'.rev >= store.rev
      BY CacheStep DEF DaemonInv
    <2>2. client' = client \/ ClientReceives
      BY DEF Next, HandlerStep, ClientRequest, BackendEvent, ForwarderStep, HandleHello,
         SendHelloAck, HandleSubscribe, OpenBackendSession, SendInitialSnapshot,
         HandleActionRequest, ReadCachedState, CaptureForAction, HandleReadArtifactOrPing,
         SendReply, InboundEnds, CloseSession, InboundFails, SendStatus, ForwardDiff,
         RecordResync, Recapture, ForwardWarning, ForwarderSends, ForwarderStops,
         ClientDrops, vars
    <2>3. client.rev \in Nat
      BY DEF DaemonInv, TypeOK, Store
    <2>4. client'.rev >= client.rev
      BY <2>2, <2>3, ClientReceivesStep
    <2> QED BY <2>1, <2>4
  <1> QED BY <1>1, SessionInvariant, PTL DEF Spec, RevisionsNeverDecrease

(***************************************************************************)
(* A client that asked for diffs and has read everything that was sent     *)
(* holds the daemon's own cache, its mark included, whenever the forwarder *)
(* waits for the next event, unless a recapture has failed.                *)
(***************************************************************************)
THEOREM DrainedClientIsCaughtUp == Spec => []DrainedClientCaughtUp
  <1>1. DaemonInv /\ StreamInv => DrainedClientCaughtUp
    <2> SUFFICES ASSUME StreamInv, forwarder.pc = "recv", handler.emit, reading,
                        out = << >>, ~forwarder.refresh_failed
                 PROVE  client = store
      BY DEF DrainedClientCaughtUp
    <2>1. PICK f : Replays(f, out, client, hist) /\ InStep(f[Len(out)], forwarder, TRUE, store)
      BY DEF StreamInv
    <2>2. f[Len(out)] = client
      BY <2>1 DEF Replays
    <2> QED BY <2>1, <2>2 DEF InStep, EmitStep, Level
  <1> QED BY <1>1, SessionInvariant, PTL

-----------------------------------------------------------------------------
(***************************************************************************)
(* DaemonSession implements VersionedReplica: for every backend, channel   *)
(* capacity and interleaving, the client follows the versions of the       *)
(* session's cache or knows that it does not.                              *)
(***************************************************************************)

\* The replica of VersionedReplica.
Replica(c) ==
    [rev |-> c.rev, content |-> IF c.resync THEN NoSnapshot ELSE c.snapshot]

\* A commit above all earlier revisions is a new version.
LEMMA CommitIsVersion ==
    ASSUME NEW rev \in Nat, NEW content \in Content,
           hist' = Commit(hist, rev, content),
           \A r \in DOMAIN hist : r < rev,
           UNCHANGED client
    PROVE  Versions!NewVersion
  <1>1. hist' = [r \in DOMAIN hist \cup {rev} |-> IF r = rev THEN content ELSE hist[r]]
    BY DEF Commit
  <1>2. rev \in DOMAIN hist' /\ hist'[rev] = content /\ content # NoSnapshot
    BY <1>1, ContentAssumption
  <1>3. Versions!Adds(rev, hist'[rev])
    BY <1>1, <1>2 DEF Versions!Adds
  <1> QED BY <1>2, <1>3 DEF Versions!NewVersion

\* The steps that write to the history add one version.
LEMMA CacheMapping ==
    ASSUME DaemonInv, [Next]_vars, UNCHANGED client
    PROVE  Versions!NewVersion \/ UNCHANGED hist
  <1>1. /\ store \in Store /\ store.rev \in Nat
        /\ \A r \in DOMAIN hist : r \in Nat /\ r <= store.rev
        /\ TypeOK /\ Flow
    BY DEF DaemonInv, TypeOK, CacheInv, Store, InitialSnapshot, SnapshotMsgs
  <1>2. CASE OpenBackendSession
    <2>1. DOMAIN hist = {}
      BY <1>1, <1>2 DEF OpenBackendSession, Flow
    <2> QED BY <1>2, <2>1, CommitIsVersion, BackendAssumption DEF OpenBackendSession
  <1>3. ASSUME NEW d \in DiffMsgs, ForwardDiff(d)
        PROVE  Versions!NewVersion \/ UNCHANGED hist
    <2>1. CASE apply_diff(store, d).ok
      <3>1. /\ d.new \in Nat /\ d.new > store.rev
            /\ apply_diff(store, d).store.snapshot \in Content
        BY <1>1, <2>1, ApplyDiffOk DEF DiffMsgs
      <3>2. hist' = Commit(hist, d.new, apply_diff(store, d).store.snapshot)
        BY <1>3, <2>1 DEF ForwardDiff
      <3>3. \A r \in DOMAIN hist : r < d.new
        BY <1>1, <3>1
      <3> QED BY <3>1, <3>2, <3>3, CommitIsVersion
    <2>2. CASE ~apply_diff(store, d).ok
      BY <1>3, <2>2 DEF ForwardDiff
    <2> QED BY <2>1, <2>2
  <1>4. CASE Recapture
    <2>1. ASSUME NEW rev \in SnapshotRevs, NEW content \in Captures,
                 hist' = Commit(hist, normalize_snapshot_revision(rev, store.rev), content)
          PROVE  Versions!NewVersion
      <3> DEFINE new == normalize_snapshot_revision(rev, store.rev)
      <3>1. rev \in Nat /\ content \in Content
        BY BackendAssumption
      <3>2. new \in Nat /\ new > store.rev
        BY <1>1, <3>1 DEF normalize_snapshot_revision
      <3>3. \A r \in DOMAIN hist : r < new
        BY <1>1, <3>2
      <3>4. hist' = Commit(hist, new, content)
        BY <2>1
      <3> HIDE DEF new
      <3> QED BY <3>1, <3>2, <3>3, <3>4, CommitIsVersion
    <2> QED BY <1>4, <2>1 DEF Recapture
  <1> QED BY <1>1, <1>2, <1>3, <1>4, CacheWriters

\* Reading a message moves the replica to a version, leaves it, or marks it.
LEMMA ReadingMapping ==
    ASSUME DaemonInv, StreamInv, ClientReceives, DaemonInv', StreamInv'
    PROVE  \/ Versions!Follow
           \/ Versions!FallOutOfStep
           \/ UNCHANGED <<hist, Replica(client)>>
  <1>1. /\ hist' = hist /\ client'.rev >= client.rev
        /\ client.rev \in Nat /\ client'.rev \in Nat
        /\ client \in Store /\ client' \in Store
    BY ClientReceivesStep DEF ClientReceives, DaemonInv, TypeOK, Store
  <1>2. Coherent(client, hist) /\ Coherent(client', hist)
    <2>1. out \in Seq(Msgs) /\ out' \in Seq(Msgs)
      BY DEF DaemonInv, TypeOK
    <2> QED BY <1>1, <2>1 DEF StreamInv, Replays
  <1>3. CASE Replica(client').content = NoSnapshot
    <2>1. Replica(client') = [rev |-> Replica(client').rev, content |-> NoSnapshot]
      BY <1>3 DEF Replica
    <2>2. Versions!FallOutOfStep
      BY <1>1, <2>1 DEF Versions!FallOutOfStep, Replica
    <2> QED BY <2>2
  <1>4. CASE Replica(client').content # NoSnapshot
    <2>1. /\ ~client'.resync /\ client'.rev \in DOMAIN hist
          /\ Replica(client') = [rev |-> client'.rev, content |-> hist[client'.rev]]
      BY <1>2, <1>4 DEF Replica, Coherent, Committed
    <2>2. CASE client'.rev > client.rev \/ Replica(client).content = NoSnapshot
      <3>1. \/ client'.rev > client.rev
            \/ client'.rev = client.rev /\ Replica(client).content = NoSnapshot
        BY <1>1, <2>2
      <3> QED BY <1>1, <2>1, <3>1 DEF Versions!Follow, Replica
    <2>3. CASE client'.rev = client.rev /\ Replica(client).content # NoSnapshot
      <3>1. Replica(client) = [rev |-> client.rev, content |-> hist[client.rev]]
        BY <1>2, <2>3 DEF Replica, Coherent, Committed
      <3> QED BY <1>1, <2>1, <2>3, <3>1 DEF Replica
    <2> QED BY <1>1, <2>2, <2>3
  <1> QED BY <1>3, <1>4

\* Who changes the replica.
LEMMA ClientWriters ==
    ASSUME [Next]_vars
    PROVE  client' = client \/ ClientReceives
  BY DEF Next, HandlerStep, ClientRequest, BackendEvent, ForwarderStep, HandleHello,
     SendHelloAck, HandleSubscribe, OpenBackendSession, SendInitialSnapshot,
     HandleActionRequest, ReadCachedState, CaptureForAction, HandleReadArtifactOrPing,
     SendReply, InboundEnds, CloseSession, InboundFails, SendStatus, ForwardDiff,
     RecordResync, Recapture, ForwardWarning, ForwarderSends, ForwarderStops,
     ClientDrops, vars

(***************************************************************************)
(* The session implements VersionedReplica: whatever the backend sends,    *)
(* however full the channel is and however the handler, the forwarder and  *)
(* the reader interleave, an unmarked replica only ever moves from one     *)
(* version of the cache to a later one.                                    *)
(***************************************************************************)
THEOREM SessionImplementsVersions == Spec => ImplementsVersions
  <1>1. Init => Versions!Init
    BY DEF Init, Versions!Init, Versions!NoVersions, EmptyStore
  <1>2. DaemonInv /\ StreamInv /\ DaemonInv' /\ StreamInv' /\ [Next]_vars
            => [Versions!Next]_<<hist, Replica(client)>>
    <2> SUFFICES ASSUME DaemonInv, StreamInv, DaemonInv', StreamInv', [Next]_vars
                 PROVE  [Versions!Next]_<<hist, Replica(client)>>
      OBVIOUS
    <2>1. CASE ClientReceives
      BY <2>1, ReadingMapping DEF Versions!Next
    <2>2. CASE client' = client
      BY <2>2, CacheMapping DEF Versions!Next, Replica
    <2> QED BY <2>1, <2>2, ClientWriters
  <1> QED BY <1>1, <1>2, SessionInvariant, PTL DEF Spec, ImplementsVersions, Versions!Spec, Replica

=============================================================================
