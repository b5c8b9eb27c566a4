--------------------------- MODULE McpWorkerProofs ---------------------------
(***************************************************************************)
(* Proofs about McpWorker, for any calls, links and updates.  The          *)
(* invariant has four independent parts: types, the life of a mutating     *)
(* request, what is known of a loss of continuity, and, as long as an      *)
(* aborted reader does not get through, one stream with one request.       *)
(***************************************************************************)
EXTENDS McpWorker, SequenceTheorems, TLAPS

-----------------------------------------------------------------------------
(* The inductive invariant.                                                *)

\* The action results under way to the reader of a link, and the one it has in hand.
Results(c) == {i \in DOMAIN link[c].msgs : link[c].msgs[i].type = "ActionResult"}

HandsResult(c) == reader[c].pc = "got" /\ reader[c].hand.type = "ActionResult"

\* No request and no result is under way on a link.
Quiet(c) == link[c].reqs = << >> /\ Results(c) = {} /\ ~HandsResult(c)

\* A reader that may still change the worker's state.
Live(c) == reader[c].pc \in {"loop", "got", "leaving"} /\ ~reader[c].aborted

NotSentYet(k) == call[k].pc \in {"new", "lock", "check", "register", "send"}

\* A request is sent when it has not been yet, waits in one place, and is executed there.
AtMost(k) ==
    /\ call[k].attempt = 0 /\ call[k].pc \notin {"connect", "handshake"}
    /\ NotSentYet(k) => sent[k] = 0
    /\ sent[k] <= 1 /\ executed[k] <= sent[k]
    /\ \A c \in Links : \A i \in DOMAIN link[c].reqs :
         link[c].reqs[i] = k =>
           /\ sent[k] = 1 /\ executed[k] = 0
           /\ \A d \in Links : \A j \in DOMAIN link[d].reqs :
                link[d].reqs[j] = k => c = d /\ i = j

AtMostOnce == \A k \in Calls \cap MutatingTools : AtMost(k)

\* Whoever has heard of another link than the first knows that continuity is lost.
Continuity ==
    /\ \A c \in Links : c # 1 /\ reader[c].pc # "off" => worker.invalidated
    /\ \A k \in Calls : call[k].chan.kind = "ok" /\ call[k].chan.link # 1 => worker.invalidated
    /\ ContinuityReported

\* A link that nobody reads yet.
Fresh(c) == Quiet(c) /\ reader[c].pc = "off"

\* The next link is fresh, and so is one that is being shaken hands on.
Opening ==
    /\ \A c \in Links : c > opened => Fresh(c)
    /\ opener = "new" => opened = 0
    /\ opener = "handshake" => opened >= 1 /\ Fresh(1)
    /\ opener # "listed" => \A k \in Calls : call[k].pc = "new"
    /\ \A k \in Calls :
         call[k].pc = "handshake" =>
           call[k].link \in Links /\ call[k].link <= opened /\ Fresh(call[k].link)

\* action_lock.
Locked == \A k, j \in Calls : HoldsLock(k) /\ HoldsLock(j) => k = j

\* The worker's stream is the only one with a reader that has not been aborted.
Streams ==
    /\ worker.outbound = worker.reader
    /\ worker.connected => worker.outbound # 0 /\ worker.replica = worker.outbound
    /\ worker.outbound <= opened
    /\ worker.outbound = 0 => worker.pending = NoAttempt
    /\ \A c \in Links : Live(c) => worker.reader = c

\* At most one request is under way on a stream, and pending_action says so.
OneUnderWay(c) ==
    /\ Len(link[c].reqs) <= 1
    /\ link[c].reqs # << >> => Results(c) = {} /\ ~HandsResult(c)
    /\ HandsResult(c) => Results(c) = {}
    /\ \A i, j \in Results(c) : i = j
    /\ worker.pending = NoAttempt => Quiet(c)

Line == worker.outbound # 0 => OneUnderWay(worker.outbound)

\* Whatever is under way is the request of call k, or its result.
OnlyOf(c, k) ==
    /\ \A i \in DOMAIN link[c].reqs : link[c].reqs[i] = k
    /\ \A i \in Results(c) : link[c].msgs[i].call = k
    /\ HandsResult(c) => reader[c].hand.call = k

Mine(k) == [call |-> k, attempt |-> call[k].attempt]

\* A call that waits is what the stream is about; what it gets is its own.
AskingOf(k) ==
    /\ call[k].pc \in {"send", "await"} /\ worker.outbound # 0 => call[k].link = worker.outbound
    /\ call[k].pc = "send" => call[k].link <= opened
    /\ call[k].pc = "send" /\ worker.outbound # 0 =>
         worker.pending = Mine(k) /\ Quiet(worker.outbound)
    /\ call[k].pc = "await" /\ worker.outbound # 0 /\ worker.pending = Mine(k) =>
         OnlyOf(worker.outbound, k)
    /\ call[k].chan.kind = "ok" => call[k].chan.of = k
    /\ call[k].outcome.kind = "ok" => call[k].outcome.of = k

Asking == \A k \in Calls : AskingOf(k)

\* While no aborted reader gets a message through (`raced` is FALSE).
Orderly == Opening /\ Locked /\ Streams /\ Line /\ Asking
-----------------------------------------------------------------------------
(* Types.                                                                  *)

LEMMA LinkNumbers ==
    /\ 0 \in LinkOr0 /\ Links \subseteq LinkOr0 /\ 1 \in Links
    /\ \A c \in LinkOr0 : c # 0 => c \in Links
    /\ \A c \in Links : c # 0 /\ c \in Nat
  BY BoundsAssumption DEF LinkOr0, Links

LEMMA NamesTyped ==
    /\ Update \in Messages /\ Recovered \in Messages
    /\ NoAttempt \in AttemptOr0
    /\ Nothing \in Replies /\ ErrorReply \in Replies /\ Closed \in Replies
    /\ \A of \in Calls \cup {"none"}, c \in Links : Answer(of, c) \in Replies
    /\ \A k \in Calls : ResultOf(k) \in Messages
    /\ NoOutcome \in Outcomes
  BY BoundsAssumption DEF Update, Recovered, Messages, NoAttempt, AttemptOr0, Nothing, ErrorReply,
    Closed, Replies, Answer, ResultOf, NoOutcome, Outcomes, LinkOr0, Links

Reasons == {"unknown_session", "retry_needed", "not_connected", "interrupted",
            "already_pending", "no_artifact"}

LEMMA RefusedTyped == \A why \in Reasons : Refused(why) \in Outcomes
  BY NamesTyped DEF Refused, NoOutcome, Outcomes, Reasons

LEMMA IdleTyped == Idle \in CallType
  BY NamesTyped, BoundsAssumption DEF Idle, CallType, LinkOr0

LEMMA OverTyped == \A o \in Outcomes : Over(o) \in CallType
  BY IdleTyped DEF Over, Idle, CallType

\* A call that moves on keeps its type.
LEMMA MovedTyped ==
    ASSUME NEW c \in CallType, NEW dialled \in LinkOr0, NEW chan \in Replies
    PROVE  /\ [c EXCEPT !.pc = "handshake", !.link = dialled] \in CallType
           /\ [c EXCEPT !.pc = c.next, !.reconnected = TRUE] \in CallType
           /\ [c EXCEPT !.pc = "send", !.chan = chan, !.link = dialled] \in CallType
           /\ [c EXCEPT !.pc = "connect", !.next = "register"] \in CallType
           /\ [c EXCEPT !.pc = "register"] \in CallType
  <1>1. c.next \in {"register", "check"}
    BY DEF CallType
  <1>2. [c EXCEPT !.pc = "handshake", !.link = dialled] \in CallType
    BY DEF CallType
  <1>3. [c EXCEPT !.pc = c.next, !.reconnected = TRUE] \in CallType
    <2> DEFINE next == c.next
    <2>1. next \in {"register", "check"}
      BY <1>1
    <2> HIDE DEF next
    <2>2. [c EXCEPT !.pc = next, !.reconnected = TRUE] \in CallType
      BY <2>1 DEF CallType
    <2> QED BY <2>2 DEF next
  <1>4. [c EXCEPT !.pc = "send", !.chan = chan, !.link = dialled] \in CallType
    BY DEF CallType
  <1>5. [c EXCEPT !.pc = "connect", !.next = "register"] \in CallType
    BY DEF CallType
  <1>6. [c EXCEPT !.pc = "register"] \in CallType
    BY DEF CallType
  <1> QED BY <1>2, <1>3, <1>4, <1>5, <1>6

LEMMA FailsTyped ==
    ASSUME NEW k \in Calls, call \in [Calls -> CallType], NEW why \in Reasons, Fails(k, call, why)
    PROVE  call' \in [Calls -> CallType]
  <1>1. Over(Refused(why)) \in CallType
    BY OverTyped, RefusedTyped
  <1>2. [call[k] EXCEPT !.pc = "connect", !.next = "check", !.attempt = 1] \in CallType
    BY DEF CallType
  <1> QED BY <1>1, <1>2 DEF Fails

LEMMA FinishTyped ==
    ASSUME NEW k \in Calls, call \in [Calls -> CallType], NEW o \in Outcomes, Finish(k, o)
    PROVE  call' \in [Calls -> CallType]
  BY OverTyped DEF Finish

LEMMA DeliverTyped ==
    ASSUME call \in [Calls -> CallType], NEW r \in Replies
    PROVE  Deliver(call, r) \in [Calls -> CallType]
  <1>1. CASE ~Waiting(worker.pending)
    BY <1>1 DEF Deliver
  <1>2. CASE Waiting(worker.pending)
    <2>1. worker.pending.call \in Calls
      BY <1>2 DEF Waiting
    <2>2. [call[worker.pending.call] EXCEPT !.chan = r] \in CallType
      BY <2>1 DEF CallType
    <2> QED BY <1>2, <2>1, <2>2 DEF Deliver
  <1> QED BY <1>1, <1>2

\* What is done to a link keeps its type.
LEMMA QueuesTyped ==
    /\ [up |-> FALSE, reqs |-> << >>, msgs |-> << >>] \in LinkType
    /\ \A l \in LinkType :
         /\ [l EXCEPT !.up = TRUE] \in LinkType
         /\ [l EXCEPT !.up = FALSE, !.reqs = << >>] \in LinkType
         /\ \A k \in Calls : [l EXCEPT !.reqs = Append(@, k)] \in LinkType
         /\ \A m \in Messages :
              /\ [l EXCEPT !.msgs = Append(@, m)] \in LinkType
              /\ l.reqs # << >> =>
                   [l EXCEPT !.reqs = Tail(@), !.msgs = Append(@, m)] \in LinkType
  <1>1. << >> \in Seq(Calls) /\ << >> \in Seq(Messages)
    OBVIOUS
  <1>2. [up |-> FALSE, reqs |-> << >>, msgs |-> << >>] \in LinkType
    BY <1>1 DEF LinkType
  <1>3. ASSUME NEW l \in LinkType
        PROVE  /\ [l EXCEPT !.up = TRUE] \in LinkType
               /\ [l EXCEPT !.up = FALSE, !.reqs = << >>] \in LinkType
    BY <1>1, <1>3 DEF LinkType
  <1>4. ASSUME NEW l \in LinkType, NEW k \in Calls
        PROVE  [l EXCEPT !.reqs = Append(@, k)] \in LinkType
    <2>1. Append(l.reqs, k) \in Seq(Calls)
      BY DEF LinkType
    <2> QED BY <2>1 DEF LinkType
  <1>5. ASSUME NEW l \in LinkType, NEW m \in Messages
        PROVE  /\ [l EXCEPT !.msgs = Append(@, m)] \in LinkType
               /\ l.reqs # << >> =>
                    [l EXCEPT !.reqs = Tail(@), !.msgs = Append(@, m)] \in LinkType
    <2>1. Append(l.msgs, m) \in Seq(Messages)
      BY DEF LinkType
    <2>2. l.reqs # << >> => Tail(l.reqs) \in Seq(Calls)
      BY HeadTailProperties DEF LinkType
    <2> QED BY <2>1, <2>2 DEF LinkType
  <1> QED BY <1>2, <1>3, <1>4, <1>5

LEMMA InstallTyped ==
    ASSUME TypeOK, NEW c \in Links, NEW again \in BOOLEAN, Install(c, again)
    PROVE  worker' \in WorkerType /\ reader' \in [Links -> ReaderType]
  <1>1. c \in LinkOr0
    BY LinkNumbers
  <1>2. worker' \in WorkerType
    <2> DEFINE n == IF again THEN worker.reconnects + 1 ELSE worker.reconnects
    <2> DEFINE i == worker.invalidated \/ again
    <2>1. n \in Nat /\ i \in BOOLEAN
      BY DEF TypeOK, WorkerType
    <2>2. worker' = [worker EXCEPT !.connected = TRUE, !.outbound = c, !.reader = c,
                                   !.replica = c, !.reconnects = n, !.invalidated = i]
      BY DEF Install
    <2> HIDE DEF n, i
    <2> QED BY <1>1, <2>1, <2>2 DEF TypeOK, WorkerType
  <1>3. worker.reader # 0 => worker.reader \in Links
    BY BoundsAssumption DEF TypeOK, WorkerType, LinkOr0, Links
  <1>4. (IF worker.reader = 0 THEN reader ELSE Abort(worker.reader)) \in [Links -> ReaderType]
    BY <1>3, BoundsAssumption DEF TypeOK, Abort, ReaderType
  <1>5. \A r \in [Links -> ReaderType] : Started(r, c) \in [Links -> ReaderType]
    BY DEF Started, ReaderType
  <1> QED BY <1>2, <1>4, <1>5 DEF Install

LEMMA OpenLinkTyped ==
    ASSUME TypeOK, OpenLink
    PROVE  opened' \in LinkOr0 /\ link' \in [Links -> LinkType] /\ opened + 1 \in Links
  <1>1. opened + 1 \in Links /\ opened + 1 \in LinkOr0
    BY BoundsAssumption DEF TypeOK, OpenLink, LinkOr0, Links
  <1>2. [link[opened + 1] EXCEPT !.up = TRUE] \in LinkType
    BY <1>1 DEF TypeOK, LinkType
  <1> QED BY <1>1, <1>2 DEF OpenLink, TypeOK

\* A call that shakes hands or sends has a link.
Dialled == \A k \in Calls : call[k].pc \in {"handshake", "send"} => call[k].link \in Links

LEMMA TypeInit == Init => TypeOK
  <1> SUFFICES ASSUME Init PROVE TypeOK
    OBVIOUS
  <1>1. worker \in WorkerType
    BY LinkNumbers, NamesTyped DEF Init, WorkerType
  <1>3. call \in [Calls -> CallType] /\ sent \in [Calls -> Nat] /\ executed \in [Calls -> Nat]
    BY IdleTyped DEF Init
  <1>4. opened \in LinkOr0 /\ updates \in 0 .. MaxUpdates
    BY LinkNumbers, BoundsAssumption DEF Init
  <1>2. link \in [Links -> LinkType] /\ reader \in [Links -> ReaderType]
    BY NamesTyped DEF Init, LinkType, ReaderType
  <1> QED BY <1>1, <1>2, <1>3, <1>4 DEF Init, TypeOK

LEMMA TypeStep == TypeOK /\ Dialled /\ [Next]_vars => TypeOK'
  <1> SUFFICES ASSUME TypeOK, Dialled, [Next]_vars
               PROVE  TypeOK'
    OBVIOUS
  <1> USE DEF TypeOK
  <1>1. CASE OpenSession
    BY <1>1, OpenLinkTyped DEF OpenSession
  <1>2. CASE OpenCompletes
    <2>1. 1 \in Links
      BY BoundsAssumption DEF Links
    <2> QED BY <1>2, <2>1, InstallTyped DEF OpenCompletes
  <1>3. CASE ListSession
    BY <1>3 DEF ListSession
  <1>4. CASE ResolveClose
    BY <1>4 DEF ResolveClose
  <1>5. CASE CloseWorker
    <2>1. worker' \in WorkerType
      BY <1>5, NamesTyped, LinkNumbers DEF CloseWorker, WorkerType
    <2>2. call' \in [Calls -> CallType]
      BY <1>5, NamesTyped, DeliverTyped DEF CloseWorker
    <2>3. worker.reader # 0 => worker.reader \in Links
      BY BoundsAssumption DEF WorkerType, LinkOr0, Links
    <2>4. reader' \in [Links -> ReaderType]
      BY <1>5, <2>3 DEF CloseWorker, Abort, ReaderType
    <2> QED BY <1>5, <2>1, <2>2, <2>4 DEF CloseWorker
  <1>6. CASE RemoveSession
    BY <1>6 DEF RemoveSession
  <1>7. ASSUME NEW k \in Calls, CallNext(k)
        PROVE  TypeOK'
    <2>1. CASE ResolveSession(k)
      <3>1. CASE Finish(k, Refused("unknown_session"))
        <4>1. Refused("unknown_session") \in Outcomes
          BY RefusedTyped DEF Reasons
        <4> QED BY <2>1, <3>1, <4>1, FinishTyped DEF ResolveSession
      <3>2. ASSUME NEW pc \in {"artifact", "lock"}, GoTo(k, pc)
            PROVE  call' \in [Calls -> CallType]
        <4>1. [call[k] EXCEPT !.pc = pc] \in CallType
          BY DEF CallType
        <4> QED BY <3>2, <4>1 DEF GoTo
      <3>3. call' \in [Calls -> CallType]
        BY <2>1, <3>1, <3>2 DEF ResolveSession
      <3> QED BY <2>1, <3>3 DEF ResolveSession
    <2>2. CASE AcquireActionLock(k)
      <3>1. [call[k] EXCEPT !.pc = "check"] \in CallType
        BY DEF CallType
      <3> QED BY <2>2, <3>1 DEF AcquireActionLock, GoTo
    <2>3. CASE CheckConnected(k)
      <3>0. call[k] \in CallType /\ 0 \in LinkOr0 /\ Nothing \in Replies
        BY NamesTyped, LinkNumbers
      <3>1. CASE GoTo(k, "register")
        <4>1. [call[k] EXCEPT !.pc = "register"] \in CallType
          BY <3>0, MovedTyped
        <4> QED BY <2>3, <3>1, <4>1 DEF CheckConnected, GoTo
      <3>2. CASE Finish(k, Refused("retry_needed"))
        <4>1. Refused("retry_needed") \in Outcomes
          BY RefusedTyped DEF Reasons
        <4> QED BY <2>3, <3>2, <4>1, FinishTyped DEF CheckConnected
      <3>3. CASE call' = [call EXCEPT ![k].pc = "connect", ![k].next = "register"]
        <4>1. [call[k] EXCEPT !.pc = "connect", !.next = "register"] \in CallType
          BY <3>0, MovedTyped
        <4> QED BY <2>3, <3>3, <4>1 DEF CheckConnected
      <3> QED BY <2>3, <3>1, <3>2, <3>3 DEF CheckConnected
    <2>4. CASE ConnectOpens(k)
      <3>1. CASE OpenLink /\ call' = [call EXCEPT ![k].pc = "handshake", ![k].link = opened + 1]
        <4>1. opened + 1 \in LinkOr0
          BY <3>1, OpenLinkTyped, BoundsAssumption DEF Links, LinkOr0
        <4>2. call' \in [Calls -> CallType]
          <5>1. [call[k] EXCEPT !.pc = "handshake", !.link = opened + 1] \in CallType
            <6>1. call[k] \in CallType /\ Nothing \in Replies
              BY NamesTyped
            <6> QED BY <4>1, <6>1, MovedTyped
          <5> QED BY <3>1, <5>1
        <4> QED BY <2>4, <3>1, <4>2, OpenLinkTyped DEF ConnectOpens
      <3>2. CASE Finish(k, Refused("not_connected")) /\ UNCHANGED <<opened, link>>
        BY <2>4, <3>2, FinishTyped, RefusedTyped DEF ConnectOpens, Reasons
      <3> QED BY <2>4, <3>1, <3>2 DEF ConnectOpens
    <2>5. CASE ConnectCompletes(k)
      <3>1. CASE link[call[k].link].up /\ Install(call[k].link, TRUE)
                 /\ call' = [call EXCEPT ![k].pc = call[k].next, ![k].reconnected = TRUE]
        <4>1. call[k].link \in Links
          BY <2>5 DEF ConnectCompletes, At, Dialled
        <4>2. call' \in [Calls -> CallType]
          <5>1. [call[k] EXCEPT !.pc = call[k].next, !.reconnected = TRUE] \in CallType
            <6>1. call[k] \in CallType /\ 0 \in LinkOr0 /\ Nothing \in Replies
              BY NamesTyped, LinkNumbers
            <6> QED BY <6>1, MovedTyped
          <5> QED BY <3>1, <5>1
        <4> QED BY <2>5, <3>1, <4>1, <4>2, InstallTyped DEF ConnectCompletes
      <3>2. CASE Finish(k, Refused("not_connected")) /\ UNCHANGED <<worker, reader>>
        BY <2>5, <3>2, FinishTyped, RefusedTyped DEF ConnectCompletes, Reasons
      <3> QED BY <2>5, <3>1, <3>2 DEF ConnectCompletes
    <2>6. CASE RegisterPending(k)
      <3>1. CASE worker.outbound = 0
        BY <2>6, <3>1, FailsTyped DEF RegisterPending, Reasons
      <3>2. CASE worker.outbound # 0
        <4>1. [call |-> k, attempt |-> call[k].attempt] \in AttemptOr0
          BY DEF AttemptOr0, CallType
        <4>2. worker' = [worker EXCEPT !.pending = [call |-> k, attempt |-> call[k].attempt]]
          BY <2>6, <3>2 DEF RegisterPending
        <4>3. worker' \in WorkerType
          BY <4>1, <4>2 DEF WorkerType
        <4>4. [call[k] EXCEPT !.pc = "send", !.chan = Nothing, !.link = worker.outbound]
                \in CallType
          <5>1. Nothing \in Replies /\ worker.outbound \in LinkOr0
            BY NamesTyped DEF WorkerType
          <5>2. call[k] \in CallType
            OBVIOUS
          <5> QED BY <5>1, <5>2, MovedTyped
        <4>5. call' \in [Calls -> CallType]
          BY <2>6, <3>2, <4>4, FailsTyped DEF RegisterPending, Reasons
        <4> QED BY <2>6, <4>3, <4>5 DEF RegisterPending
      <3> QED BY <3>1, <3>2
    <2>7. CASE SendRequest(k)
      <3> DEFINE c == call[k].link
      <3>1. c \in Links
        BY <2>7 DEF SendRequest, At, Dialled
      <3>2. [link[c] EXCEPT !.reqs = Append(@, k)] \in LinkType
        BY <3>1, QueuesTyped
      <3>3. link' \in [Links -> LinkType]
        BY <2>7, <3>1, <3>2 DEF SendRequest
      <3>4. worker' \in WorkerType
        BY <2>7, NamesTyped DEF SendRequest, WorkerType
      <3>5. call' \in [Calls -> CallType]
        <4>1. [call[k] EXCEPT !.pc = "await"] \in CallType
          BY DEF CallType
        <4> QED BY <2>7, <4>1, FailsTyped DEF SendRequest, Reasons, GoTo
      <3>6. sent' \in [Calls -> Nat]
        BY <2>7 DEF SendRequest
      <3> QED BY <2>7, <3>3, <3>4, <3>5, <3>6 DEF SendRequest
    <2>8. CASE ReceiveReply(k)
      <3>1. CASE call[k].chan.kind = "ok"
        <4> DEFINE o == [kind |-> "ok", of |-> call[k].chan.of, link |-> call[k].chan.link,
                         reconnected |-> call[k].reconnected,
                         invalidated |-> worker.invalidated]
        <4>1. o \in Outcomes
          BY DEF CallType, Replies, Outcomes, WorkerType
        <4>2. Returns(k, o)
          BY <2>8, <3>1 DEF ReceiveReply
        <4> HIDE DEF o
        <4>3. Over(o) \in CallType /\ [Over(o) EXCEPT !.pc = "artifact"] \in CallType
          BY <4>1, OverTyped DEF CallType
        <4> QED BY <2>8, <4>2, <4>3 DEF ReceiveReply, Returns
      <3>2. CASE call[k].chan.kind # "ok"
        BY <2>8, <3>2, FailsTyped DEF ReceiveReply, Reasons
      <3> QED BY <3>1, <3>2
    <2>9. CASE TimeOut(k)
      BY <2>9, FailsTyped DEF TimeOut, Reasons
    <2>10. CASE ReadArtifact(k)
      <3>1. call[k].outcome \in Outcomes
        BY DEF CallType
      <3> QED BY <2>10, <3>1, FinishTyped, RefusedTyped DEF ReadArtifact, Reasons
    <2> QED BY <1>7, <2>1, <2>2, <2>3, <2>4, <2>5, <2>6, <2>7, <2>8, <2>9, <2>10 DEF CallNext
  <1>8. ASSUME NEW c \in Links, ReaderNext(c)
        PROVE  TypeOK'
    <2> USE NamesTyped
    <2>1. CASE ReaderTakes(c)
      <3>1. Head(link[c].msgs) \in Messages /\ Tail(link[c].msgs) \in Seq(Messages)
        BY <2>1, HeadTailProperties DEF ReaderTakes, LinkType
      <3>2. [link[c] EXCEPT !.msgs = Tail(@)] \in LinkType
        BY <3>1 DEF LinkType
      <3>3. [reader[c] EXCEPT !.pc = "got", !.hand = Head(link[c].msgs)] \in ReaderType
        BY <3>1 DEF ReaderType
      <3> QED BY <2>1, <3>2, <3>3 DEF ReaderTakes
    <2>2. CASE ReaderHandles(c)
      <3>1. c \in LinkOr0
        BY LinkNumbers
      <3>2. worker' \in WorkerType
        BY <2>2, <3>1 DEF ReaderHandles, WorkerType
      <3>3. reader[c].hand.call \in Calls \cup {"none"}
        BY DEF ReaderType, Messages
      <3>4. call' \in [Calls -> CallType]
        BY <2>2, <3>3, DeliverTyped DEF ReaderHandles
      <3>5. reader' \in [Links -> ReaderType]
        BY <2>2 DEF ReaderHandles, ReaderType
      <3>6. raced' \in BOOLEAN
        BY <2>2 DEF ReaderHandles
      <3> QED BY <2>2, <3>2, <3>4, <3>5, <3>6 DEF ReaderHandles
    <2>3. CASE ReaderLeaves(c)
      BY <2>3, QueuesTyped DEF ReaderLeaves, ReaderType
    <2>4. CASE ReaderExits(c)
      <3>1. worker' \in WorkerType
        BY <2>4, LinkNumbers DEF ReaderExits, WorkerType
      <3>2. call' \in [Calls -> CallType]
        BY <2>4, DeliverTyped DEF ReaderExits
      <3>3. reader' \in [Links -> ReaderType]
        BY <2>4 DEF ReaderExits, ReaderType
      <3>4. raced' \in BOOLEAN
        BY <2>4 DEF ReaderExits
      <3> QED BY <2>4, <3>1, <3>2, <3>3, <3>4 DEF ReaderExits
    <2>5. CASE ReaderCancelled(c)
      <3>1. [reader[c] EXCEPT !.pc = "done", !.hand = Update] \in ReaderType
        BY DEF ReaderType
      <3> QED BY <2>5, <3>1, QueuesTyped DEF ReaderCancelled
    <2> QED BY <1>8, <2>1, <2>2, <2>3, <2>4, <2>5 DEF ReaderNext
  <1>9. ASSUME NEW c \in Links, DaemonExecutes(c)
        PROVE  TypeOK'
    <2> DEFINE k == Head(link[c].reqs)
    <2>1. k \in Calls /\ Tail(link[c].reqs) \in Seq(Calls)
      BY <1>9, HeadTailProperties DEF DaemonExecutes, LinkType
    <2>2. /\ [link[c] EXCEPT !.reqs = Tail(@), !.msgs = Append(@, ResultOf(k))] \in LinkType
          /\ [link[c] EXCEPT !.up = FALSE, !.reqs = << >>] \in LinkType
      <3>1. ResultOf(k) \in Messages /\ link[c] \in LinkType /\ link[c].reqs # << >>
        BY <1>9, <2>1, NamesTyped DEF DaemonExecutes
      <3> QED BY <3>1, QueuesTyped
    <2>3. link' \in [Links -> LinkType]
      BY <1>9, <2>2 DEF DaemonExecutes
    <2>4. executed' \in [Calls -> Nat]
      <3>1. executed' = [executed EXCEPT ![k] = @ + 1]
        BY <1>9 DEF DaemonExecutes
      <3>2. executed \in [Calls -> Nat]
        OBVIOUS
      <3> HIDE DEF TypeOK, k
      <3> QED BY <2>1, <3>1, <3>2
    <2> QED BY <1>9, <2>3, <2>4 DEF DaemonExecutes
  <1>10. ASSUME NEW c \in Links, DaemonSends(c)
         PROVE  TypeOK'
    <2>1. PICK m \in {Update, Recovered} : link' = [link EXCEPT ![c].msgs = Append(@, m)]
      BY <1>10 DEF DaemonSends
    <2>2. [link[c] EXCEPT !.msgs = Append(@, m)] \in LinkType
      BY NamesTyped, QueuesTyped
    <2>3. link' \in [Links -> LinkType]
      BY <2>1, <2>2
    <2> QED BY <1>10, <2>3, BoundsAssumption DEF DaemonSends
  <1>11. ASSUME NEW c \in Links, LinkBreaks(c)
         PROVE  TypeOK'
    <2>1. [link[c] EXCEPT !.up = FALSE, !.reqs = << >>] \in LinkType
      BY QueuesTyped
    <2> QED BY <1>11, <2>1, QueuesTyped DEF LinkBreaks
  <1>12. CASE UNCHANGED vars
    BY <1>12 DEF vars
  <1> QED BY <1>1, <1>2, <1>3, <1>4, <1>5, <1>6, <1>7, <1>8, <1>9, <1>10, <1>11, <1>12 DEF Next

-----------------------------------------------------------------------------
(* What the steps of a call and of a reader leave alone.                   *)

LEMMA DeliverOnlyFills ==
    ASSUME call \in [Calls -> CallType], NEW r \in Replies, NEW k \in Calls,
           call' = Deliver(call, r)
    PROVE  /\ call'[k].pc = call[k].pc /\ call'[k].attempt = call[k].attempt
           /\ call'[k].link = call[k].link /\ call'[k].outcome = call[k].outcome
           /\ \/ call'[k].chan = call[k].chan
              \/ /\ Waiting(worker.pending) /\ worker.pending.call = k
                 /\ call'[k].chan = r
  <1>1. CASE ~Waiting(worker.pending)
    BY <1>1 DEF Deliver
  <1>2. CASE Waiting(worker.pending)
    <2>1. worker.pending.call \in Calls
      BY <1>2 DEF Waiting
    <2>2. call' = [call EXCEPT ![worker.pending.call] =
                       [call[worker.pending.call] EXCEPT !.chan = r]]
      BY <1>2 DEF Deliver
    <2> QED BY <1>2, <2>1, <2>2 DEF CallType
  <1> QED BY <1>1, <1>2

LEMMA FailsStops ==
    ASSUME call \in [Calls -> CallType], NEW k \in Calls, NEW why \in Reasons, Fails(k, call, why)
    PROVE  /\ \A j \in Calls \ {k} : call'[j] = call[j]
           /\ \/ /\ call[k].attempt = 0 /\ k \notin MutatingTools
                 /\ call'[k].pc = "connect" /\ call'[k].attempt = 1
                 /\ call'[k].chan = call[k].chan /\ call'[k].outcome = call[k].outcome
              \/ call'[k] = Over(Refused(why))
  BY DEF Fails, CallType

LEMMA OverIs ==
    \A o \in Outcomes :
        /\ Over(o).pc = "done" /\ Over(o).attempt = 0 /\ Over(o).outcome = o
        /\ Over(o).chan.kind = "empty" /\ Over(o).link = 0
  BY DEF Over, Idle, Nothing

LEMMA RefusedIs == \A why \in Reasons : Refused(why).kind = why /\ why # "ok"
  BY DEF Refused, NoOutcome, Reasons

\* A step of one call is a step of no other, and takes the call to one of these places.
LEMMA CallMoves ==
    ASSUME TypeOK, Dialled, NEW k \in Calls, CallNext(k)
    PROVE  /\ \A j \in Calls \ {k} : call'[j] = call[j]
           /\ (k \in MutatingTools /\ call[k].attempt = 0
                 /\ call[k].pc \notin {"connect", "handshake"})
                => /\ call'[k].attempt = 0 /\ call'[k].pc \notin {"connect", "handshake"}
                   /\ NotSentYet(k)' => NotSentYet(k)
  <1> USE DEF TypeOK
  <1>1. CASE ResolveSession(k)
    BY <1>1, OverIs, RefusedTyped
    DEF ResolveSession, At, GoTo, Finish, NotSentYet, Reasons, CallType
  <1>2. CASE AcquireActionLock(k)
    BY <1>2 DEF AcquireActionLock, At, GoTo, NotSentYet, CallType
  <1>3. CASE CheckConnected(k)
    BY <1>3, OverIs, RefusedTyped
    DEF CheckConnected, At, GoTo, Finish, NotSentYet, Reasons, CallType
  <1>4. CASE ConnectOpens(k)
    BY <1>4 DEF ConnectOpens, At, Finish
  <1>5. CASE ConnectCompletes(k)
    BY <1>5 DEF ConnectCompletes, At, Finish
  <1>6. CASE RegisterPending(k)
    <2>1. CASE worker.outbound # 0 /\ worker.pending = NoAttempt
      BY <1>6, <2>1 DEF RegisterPending, At, NotSentYet, CallType
    <2>2. CASE ~(worker.outbound # 0 /\ worker.pending = NoAttempt)
      <3>1. PICK why \in Reasons : Fails(k, call, why)
        BY <1>6, <2>2 DEF RegisterPending, Reasons
      <3> QED BY <1>6, <3>1, FailsStops, OverIs, RefusedTyped DEF NotSentYet
    <2> QED BY <2>1, <2>2
  <1>7. CASE SendRequest(k)
    <2>1. CASE GoTo(k, "await")
      BY <2>1 DEF GoTo, NotSentYet, CallType
    <2>2. CASE Fails(k, call, "interrupted")
      BY <2>2, FailsStops, OverIs, RefusedTyped DEF NotSentYet, Reasons
    <2> QED BY <1>7, <2>1, <2>2 DEF SendRequest
  <1>8. CASE ReceiveReply(k)
    <2>1. CASE Fails(k, call, "interrupted")
      BY <2>1, FailsStops, OverIs, RefusedTyped DEF NotSentYet, Reasons
    <2>2. CASE call[k].chan.kind = "ok"
      <3> DEFINE o == [kind |-> "ok", of |-> call[k].chan.of, link |-> call[k].chan.link,
                       reconnected |-> call[k].reconnected,
                       invalidated |-> worker.invalidated]
      <3>1. Returns(k, o)
        BY <1>8, <2>2 DEF ReceiveReply
      <3> HIDE DEF o
      <3>2. /\ Over(o).pc = "done" /\ Over(o).attempt = 0
            /\ [Over(o) EXCEPT !.pc = "artifact"].pc = "artifact"
            /\ [Over(o) EXCEPT !.pc = "artifact"].attempt = 0
        BY DEF Over, Idle
      <3> QED BY <3>1, <3>2 DEF Returns, NotSentYet
    <2> QED BY <1>8, <2>1, <2>2 DEF ReceiveReply
  <1>9. CASE TimeOut(k)
    BY <1>9, FailsStops, OverIs, RefusedTyped DEF TimeOut, NotSentYet, Reasons
  <1>10. CASE ReadArtifact(k)
    <2>1. \A o : Over(o).pc = "done" /\ Over(o).attempt = 0
      BY DEF Over, Idle
    <2> QED BY <1>10, <2>1 DEF ReadArtifact, Finish, NotSentYet
  <1> QED BY <1>1, <1>2, <1>3, <1>4, <1>5, <1>6, <1>7, <1>8, <1>9, <1>10 DEF CallNext

-----------------------------------------------------------------------------
(* A mutating request is sent and executed at most once.                   *)

\* Nothing happens to its requests, or a stream with its requests is lost.
LEMMA AtMostKept ==
    ASSUME NEW k \in Calls, AtMost(k),
           call'[k].attempt = 0, call'[k].pc \notin {"connect", "handshake"},
           NotSentYet(k)' => NotSentYet(k),
           sent'[k] = sent[k], executed'[k] = executed[k],
           \A c \in Links : link'[c].reqs \in {link[c].reqs, << >>}
    PROVE  AtMost(k)'
  BY DEF AtMost

\* Append and Tail by their indexes.
LEMMA AppendIndexes ==
    ASSUME NEW S, NEW q \in Seq(S), NEW x \in S
    PROVE  /\ DOMAIN Append(q, x) = 1 .. Len(q) + 1 /\ Len(q) \in Nat /\ DOMAIN q = 1 .. Len(q)
           /\ Append(q, x)[Len(q) + 1] = x
           /\ \A i \in DOMAIN Append(q, x) :
                \/ i \in DOMAIN q /\ Append(q, x)[i] = q[i]
                \/ i = Len(q) + 1 /\ i \notin DOMAIN q /\ Append(q, x)[i] = x
  <1>1. Append(q, x) \in Seq(S) /\ Len(Append(q, x)) = Len(q) + 1
    BY AppendProperties
  <1>2. DOMAIN Append(q, x) = 1 .. Len(q) + 1 /\ Len(q) \in Nat /\ DOMAIN q = 1 .. Len(q)
    BY <1>1
  <1> QED BY <1>2, AppendProperties

LEMMA TailIndexes ==
    ASSUME NEW S, NEW q \in Seq(S), q # << >>
    PROVE  /\ 1 \in DOMAIN q /\ Head(q) = q[1] /\ DOMAIN q = 1 .. Len(q) /\ Len(q) \in Nat
           /\ DOMAIN Tail(q) = 1 .. Len(q) - 1
           /\ \A i \in DOMAIN Tail(q) :
                i \in Nat \ {0} /\ i + 1 \in DOMAIN q /\ Tail(q)[i] = q[i + 1]
  OBVIOUS

LEMMA AtMostSends ==
    ASSUME TypeOK, Dialled, NEW k \in Calls, AtMost(k), NEW j \in Calls, SendRequest(j),
           j = k => call'[k].attempt = 0 /\ call'[k].pc \notin {"connect", "handshake"},
           j # k => call'[k] = call[k],
           NotSentYet(k)' => NotSentYet(k)
    PROVE  AtMost(k)'
  <1> DEFINE c == call[j].link
  <1>1. c \in Links /\ call[j].pc = "send"
    BY DEF SendRequest, At, Dialled
  <1>2. call'[k].attempt = 0 /\ call'[k].pc \notin {"connect", "handshake"}
    BY DEF AtMost
  <1>3. executed' = executed
    BY DEF SendRequest
  <1>4. CASE j # k
    <2>1. sent'[k] = sent[k]
      BY <1>4 DEF TypeOK, SendRequest
    <2>2. CASE link' = link
      BY <1>2, <1>3, <2>1, <2>2, AtMostKept
    <2>3. CASE link' = [link EXCEPT ![c].reqs = Append(@, j)]
      <3>1. link[c].reqs \in Seq(Calls)
        BY <1>1 DEF TypeOK, LinkType
      <3>2. /\ link'[c].reqs = Append(link[c].reqs, j)
            /\ \A d \in Links \ {c} : link'[d].reqs = link[d].reqs
        BY <1>1, <2>3 DEF TypeOK, LinkType
      <3>3. \A i \in DOMAIN link'[c].reqs :
               link'[c].reqs[i] = k => i \in DOMAIN link[c].reqs /\ link[c].reqs[i] = k
        <4>1. \A i \in DOMAIN Append(link[c].reqs, j) :
                 \/ i \in DOMAIN link[c].reqs /\ Append(link[c].reqs, j)[i] = link[c].reqs[i]
                 \/ Append(link[c].reqs, j)[i] = j
          BY <3>1, AppendIndexes
        <4> QED BY <1>4, <3>2, <4>1
      <3>4. \A d \in Links : \A i \in DOMAIN link'[d].reqs :
               link'[d].reqs[i] = k => i \in DOMAIN link[d].reqs /\ link[d].reqs[i] = k
        BY <3>2, <3>3
      <3> QED BY <1>2, <1>3, <2>1, <3>4 DEF AtMost
    <2> QED BY <2>2, <2>3 DEF SendRequest
  <1>5. CASE j = k
    <2>1. sent[k] = 0 /\ executed[k] = 0
      BY <1>1, <1>5 DEF TypeOK, AtMost, NotSentYet
    <2>2. \A d \in Links : \A i \in DOMAIN link[d].reqs : link[d].reqs[i] # k
      BY <2>1 DEF AtMost
    <2>3. CASE Fails(k, call, "interrupted")
      <3>1. UNCHANGED <<link, sent>>
        <4>1. "interrupted" \in Reasons /\ Refused("interrupted") \in Outcomes
          BY RefusedTyped DEF Reasons
        <4>2. call'[k].pc \in {"connect", "done"}
          BY <2>3, <4>1, FailsStops, OverIs DEF TypeOK
        <4>3. ~GoTo(k, "await")
          BY <4>2 DEF TypeOK, GoTo, CallType
        <4> QED BY <1>5, <4>3 DEF SendRequest
      <3> QED BY <1>2, <1>3, <3>1, AtMostKept
    <2>4. CASE GoTo(k, "await") /\ sent' = [sent EXCEPT ![k] = @ + 1] /\ link' = link
      <3>1. sent'[k] = 1 /\ ~NotSentYet(k)'
        BY <2>1, <2>4 DEF TypeOK, GoTo, NotSentYet, CallType
      <3> QED BY <1>2, <1>3, <2>1, <2>2, <2>4, <3>1 DEF AtMost
    <2>5. CASE GoTo(k, "await") /\ sent' = [sent EXCEPT ![k] = @ + 1]
               /\ link' = [link EXCEPT ![c].reqs = Append(@, k)]
      <3>1. sent'[k] = 1 /\ ~NotSentYet(k)'
        BY <2>1, <2>5 DEF TypeOK, GoTo, NotSentYet, CallType
      <3>2. link[c].reqs \in Seq(Calls)
        BY <1>1 DEF TypeOK, LinkType
      <3>3. /\ link'[c].reqs = Append(link[c].reqs, k)
            /\ \A d \in Links \ {c} : link'[d].reqs = link[d].reqs
        BY <1>1, <2>5 DEF TypeOK, LinkType
      <3>4. \A i \in DOMAIN link'[c].reqs :
               link'[c].reqs[i] = k => i = Len(link[c].reqs) + 1
        BY <1>1, <2>2, <3>2, <3>3, AppendIndexes
      <3>5. \A d \in Links : \A i \in DOMAIN link'[d].reqs :
               link'[d].reqs[i] = k => d = c /\ i = Len(link[c].reqs) + 1
        BY <2>2, <3>3, <3>4
      <3>6. executed'[k] = 0
        BY <1>3, <2>1
      <3>7. \A x \in Links : \A y \in DOMAIN link'[x].reqs :
               link'[x].reqs[y] = k =>
                 /\ sent'[k] = 1 /\ executed'[k] = 0
                 /\ \A d \in Links : \A i \in DOMAIN link'[d].reqs :
                      link'[d].reqs[i] = k => x = d /\ y = i
        <4> HIDE DEF c
        <4> QED BY <3>1, <3>5, <3>6
      <3>8. sent'[k] <= 1 /\ executed'[k] <= sent'[k]
        BY <3>1, <3>6
      <3> QED BY <1>2, <3>1, <3>7, <3>8 DEF AtMost
    <2> QED BY <1>5, <2>3, <2>4, <2>5 DEF SendRequest
  <1> QED BY <1>4, <1>5

LEMMA AtMostExecutes ==
    ASSUME TypeOK, NEW k \in Calls, AtMost(k), NEW c \in Links, DaemonExecutes(c)
    PROVE  AtMost(k)'
  <1> DEFINE j == Head(link[c].reqs)
  <1>1. link[c].reqs \in Seq(Calls) /\ link[c].reqs # << >> /\ j \in Calls
    BY HeadTailProperties DEF TypeOK, DaemonExecutes, LinkType
  <1>2. 1 \in DOMAIN link[c].reqs /\ j = link[c].reqs[1]
    BY <1>1
  <1>3. UNCHANGED <<call, sent>> /\ executed' = [executed EXCEPT ![j] = @ + 1]
    BY DEF DaemonExecutes
  <1>4. /\ link'[c].reqs \in {Tail(link[c].reqs), << >>}
        /\ \A d \in Links \ {c} : link'[d].reqs = link[d].reqs
    BY DEF TypeOK, DaemonExecutes, LinkType
  <1>5. \A i \in DOMAIN link'[c].reqs :
           i + 1 \in DOMAIN link[c].reqs /\ link'[c].reqs[i] = link[c].reqs[i + 1]
           /\ i \in Nat \ {0}
    <2>1. CASE link'[c].reqs = << >>
      BY <2>1
    <2>2. CASE link'[c].reqs = Tail(link[c].reqs)
      BY <1>1, <2>2, TailIndexes
    <2> QED BY <1>4, <2>1, <2>2
  <1>6. CASE j = k
    <2>1. sent[k] = 1 /\ executed[k] = 0
      BY <1>2, <1>6 DEF AtMost
    <2>2. executed'[k] = 1
      BY <1>3, <1>6, <2>1 DEF TypeOK
    <2>3. \A d \in Links : \A i \in DOMAIN link[d].reqs :
             link[d].reqs[i] = k => d = c /\ i = 1
      BY <1>2, <1>6 DEF AtMost
    <2>4. \A d \in Links : \A i \in DOMAIN link'[d].reqs : link'[d].reqs[i] # k
      <3>1. ASSUME NEW i \in DOMAIN link'[c].reqs PROVE link'[c].reqs[i] # k
        BY <1>5, <2>3
      <3>2. ASSUME NEW d \in Links \ {c}, NEW i \in DOMAIN link'[d].reqs
            PROVE  link'[d].reqs[i] # k
        BY <1>4, <2>3
      <3> QED BY <3>1, <3>2
    <2> QED BY <1>3, <2>1, <2>2, <2>4 DEF AtMost, NotSentYet
  <1>7. CASE j # k
    <2>1. executed'[k] = executed[k]
      BY <1>3, <1>7
    <2>2. \A d \in Links \ {c} : \A i \in DOMAIN link'[d].reqs :
             link'[d].reqs[i] = k => i \in DOMAIN link[d].reqs /\ link[d].reqs[i] = k
      BY <1>4
    <2>3. ASSUME NEW x \in Links, NEW y \in DOMAIN link'[x].reqs, link'[x].reqs[y] = k
          PROVE  /\ sent[k] = 1 /\ executed[k] = 0
                 /\ \A d \in Links : \A i \in DOMAIN link'[d].reqs :
                      link'[d].reqs[i] = k => x = d /\ y = i
      <3> DEFINE At1(d, i) == IF d = c THEN i + 1 ELSE i
      <3>1. \A d \in Links : \A i \in DOMAIN link'[d].reqs :
               link'[d].reqs[i] = k =>
                 At1(d, i) \in DOMAIN link[d].reqs /\ link[d].reqs[At1(d, i)] = k
        BY <1>5, <2>2
      <3>2. sent[k] = 1 /\ executed[k] = 0
        BY <2>3, <3>1 DEF AtMost
      <3>3. ASSUME NEW d \in Links, NEW i \in DOMAIN link'[d].reqs, link'[d].reqs[i] = k
            PROVE  x = d /\ y = i
        <4>1. x = d /\ At1(x, y) = At1(d, i)
          BY <2>3, <3>1, <3>3 DEF AtMost
        <4>2. CASE d = c
          BY <1>5, <2>3, <3>3, <4>1, <4>2
        <4> QED BY <4>1, <4>2
      <3> QED BY <3>2, <3>3
    <2> QED BY <1>3, <2>1, <2>3 DEF AtMost, NotSentYet
  <1> QED BY <1>6, <1>7

LEMMA AtMostStep == TypeOK /\ Dialled /\ AtMostOnce /\ [Next]_vars => AtMostOnce'
  <1> SUFFICES ASSUME TypeOK, Dialled, AtMostOnce, [Next]_vars, NEW k \in Calls \cap MutatingTools
               PROVE  AtMost(k)'
    BY DEF AtMostOnce
  <1> USE DEF TypeOK
  <1>0. AtMost(k) /\ call[k].attempt = 0 /\ call[k].pc \notin {"connect", "handshake"}
    BY DEF AtMostOnce, AtMost
  <1> DEFINE Idles == /\ call'[k].attempt = call[k].attempt /\ call'[k].pc = call[k].pc
                      /\ sent' = sent /\ executed' = executed
                      /\ \A c \in Links : link'[c].reqs \in {link[c].reqs, << >>}
  <1>1. CASE Idles
    BY <1>0, <1>1, AtMostKept DEF NotSentYet
  <1> HIDE DEF Idles
  <1>2. ASSUME OpenLink PROVE \A c \in Links : link'[c].reqs = link[c].reqs
    BY <1>2, OpenLinkTyped DEF OpenLink, LinkType
  <1>3. CASE OpenSession \/ OpenCompletes \/ ListSession \/ ResolveClose \/ RemoveSession
    BY <1>1, <1>2, <1>3
    DEF Idles, OpenSession, OpenCompletes, ListSession, ResolveClose, RemoveSession
  <1>4. CASE CloseWorker
    BY <1>1, <1>4, NamesTyped, DeliverOnlyFills DEF Idles, CloseWorker
  <1>5. ASSUME NEW j \in Calls, CallNext(j)
        PROVE  AtMost(k)'
    <2>1. /\ call'[k].attempt = 0 /\ call'[k].pc \notin {"connect", "handshake"}
          /\ NotSentYet(k)' => NotSentYet(k)
          /\ j # k => call'[k] = call[k]
      <3>1. CASE j = k
        BY <1>0, <1>5, <3>1, CallMoves
      <3>2. CASE j # k
        BY <1>0, <1>5, <3>2, CallMoves DEF NotSentYet
      <3> QED BY <3>1, <3>2
    <2>2. CASE SendRequest(j)
      BY <1>0, <2>1, <2>2, AtMostSends
    <2>3. CASE ~SendRequest(j)
      <3>1. sent' = sent /\ executed' = executed
            /\ \A c \in Links : link'[c].reqs = link[c].reqs
        BY <1>2, <1>5, <2>3
        DEF CallNext, ResolveSession, AcquireActionLock, CheckConnected, ConnectOpens,
            ConnectCompletes, RegisterPending, ReceiveReply, TimeOut, ReadArtifact
      <3> QED BY <1>0, <2>1, <3>1, AtMostKept
    <2> QED BY <2>2, <2>3
  <1>6. ASSUME NEW c \in Links, ReaderNext(c)
        PROVE  AtMost(k)'
    <2>1. CASE ReaderTakes(c)
      BY <1>1, <2>1 DEF Idles, ReaderTakes, LinkType
    <2>2. CASE ReaderHandles(c)
      <3>1. reader[c].hand.call \in Calls \cup {"none"}
        BY DEF ReaderType, Messages
      <3>2. call'[k].attempt = call[k].attempt /\ call'[k].pc = call[k].pc
        <4>1. CASE call' = Deliver(call, Answer(reader[c].hand.call, c))
          BY <3>1, <4>1, NamesTyped, DeliverOnlyFills
        <4> QED BY <2>2, <4>1 DEF ReaderHandles
      <3> QED BY <1>1, <2>2, <3>2 DEF Idles, ReaderHandles
    <2>3. CASE ReaderLeaves(c)
      BY <1>1, <2>3 DEF Idles, ReaderLeaves
    <2>4. CASE ReaderExits(c)
      BY <1>1, <2>4, NamesTyped, DeliverOnlyFills DEF Idles, ReaderExits
    <2>5. CASE ReaderCancelled(c)
      BY <1>1, <2>5 DEF Idles, ReaderCancelled
    <2> QED BY <1>6, <2>1, <2>2, <2>3, <2>4, <2>5 DEF ReaderNext
  <1>7. ASSUME NEW c \in Links, DaemonExecutes(c)
        PROVE  AtMost(k)'
    BY <1>0, <1>7, AtMostExecutes
  <1>8. ASSUME NEW c \in Links, DaemonSends(c) \/ LinkBreaks(c)
        PROVE  AtMost(k)'
    <2>1. \A d \in Links : link'[d].reqs \in {link[d].reqs, << >>}
      <3>1. CASE DaemonSends(c)
        <4>1. PICK m \in {Update, Recovered} : link' = [link EXCEPT ![c].msgs = Append(@, m)]
          BY <3>1 DEF DaemonSends
        <4> QED BY <4>1 DEF LinkType
      <3>2. CASE LinkBreaks(c)
        <4>1. CASE link' = [link EXCEPT ![c].up = FALSE, ![c].reqs = << >>]
          <5>1. link'[c].reqs = << >> /\ \A d \in Links \ {c} : link'[d] = link[d]
            BY <4>1 DEF LinkType
          <5> QED BY <5>1
        <4>2. CASE link' = [link EXCEPT ![c] = [up |-> FALSE, reqs |-> << >>, msgs |-> << >>]]
          BY <4>2
        <4> QED BY <3>2, <4>1, <4>2 DEF LinkBreaks
      <3> QED BY <1>8, <3>1, <3>2
    <2> QED BY <1>1, <1>8, <2>1 DEF Idles, DaemonSends, LinkBreaks
  <1>9. CASE UNCHANGED vars
    BY <1>1, <1>9 DEF Idles, vars
  <1> QED BY <1>3, <1>4, <1>5, <1>6, <1>7, <1>8, <1>9 DEF Next

-----------------------------------------------------------------------------
(* Links, answers and streams: what a step makes of them.                  *)

\* What a step of a call makes of its channel and its outcome, and of its link.
LEMMA CallAnswers ==
    ASSUME TypeOK, Dialled, NEW k \in Calls, CallNext(k)
    PROVE  /\ call'[k].chan.kind = "ok" => call'[k].chan = call[k].chan
           /\ call'[k].outcome.kind = "ok" =>
                \/ call'[k].outcome = call[k].outcome
                \/ /\ call[k].chan.kind = "ok"
                   /\ call'[k].outcome.of = call[k].chan.of
                   /\ call'[k].outcome.link = call[k].chan.link
                   /\ call'[k].outcome.invalidated = worker.invalidated
           /\ call'[k].pc \in {"handshake", "send"} => call'[k].link \in Links
  <1> USE DEF TypeOK
  <1>0. /\ \A o \in Outcomes :
             Over(o).chan.kind # "ok" /\ Over(o).outcome = o /\ Over(o).pc = "done"
        /\ \A why \in Reasons : Refused(why) \in Outcomes /\ Refused(why).kind # "ok"
        /\ Nothing.kind # "ok"
    BY OverIs, RefusedIs, RefusedTyped DEF Nothing
  <1>f. ASSUME NEW why \in Reasons, Fails(k, call, why)
        PROVE  /\ call'[k].chan.kind = "ok" => call'[k].chan = call[k].chan
               /\ call'[k].outcome.kind = "ok" => call'[k].outcome = call[k].outcome
               /\ call'[k].pc \notin {"handshake", "send"}
    BY <1>0, <1>f, FailsStops
  <1>1. CASE ResolveSession(k)
    BY <1>1, <1>0 DEF ResolveSession, At, GoTo, Finish, Reasons, CallType
  <1>2. CASE AcquireActionLock(k)
    BY <1>2 DEF AcquireActionLock, At, GoTo, CallType
  <1>3. CASE CheckConnected(k)
    BY <1>3, <1>0 DEF CheckConnected, At, GoTo, Finish, Reasons, CallType
  <1>4. CASE ConnectOpens(k)
    <2>1. CASE Finish(k, Refused("not_connected"))
      BY <2>1, <1>0 DEF Finish, Reasons
    <2>2. CASE OpenLink /\ call' = [call EXCEPT ![k].pc = "handshake", ![k].link = opened + 1]
      BY <2>2, OpenLinkTyped DEF CallType
    <2> QED BY <1>4, <2>1, <2>2 DEF ConnectOpens
  <1>5. CASE ConnectCompletes(k)
    <2>1. CASE Finish(k, Refused("not_connected"))
      BY <2>1, <1>0 DEF Finish, Reasons
    <2>2. CASE call' = [call EXCEPT ![k].pc = call[k].next, ![k].reconnected = TRUE]
      <3>1. call[k].next \in {"register", "check"}
        BY DEF CallType
      <3> QED BY <2>2, <3>1 DEF CallType
    <2> QED BY <1>5, <2>1, <2>2 DEF ConnectCompletes
  <1>6. CASE RegisterPending(k)
    <2>1. CASE worker.outbound # 0 /\ worker.pending = NoAttempt
      <3>1. worker.outbound \in Links
        BY <2>1, LinkNumbers DEF WorkerType
      <3> QED BY <1>6, <2>1, <3>1, <1>0 DEF RegisterPending, CallType
    <2>2. CASE ~(worker.outbound # 0 /\ worker.pending = NoAttempt)
      <3>1. PICK why \in Reasons : Fails(k, call, why)
        BY <1>6, <2>2 DEF RegisterPending, Reasons
      <3> QED BY <3>1, <1>f
    <2> QED BY <2>1, <2>2
  <1>7. CASE SendRequest(k)
    <2>1. CASE GoTo(k, "await")
      BY <2>1 DEF GoTo, CallType
    <2>2. CASE Fails(k, call, "interrupted")
      BY <2>2, <1>f DEF Reasons
    <2> QED BY <1>7, <2>1, <2>2 DEF SendRequest
  <1>8. CASE ReceiveReply(k)
    <2>1. CASE Fails(k, call, "interrupted")
      BY <2>1, <1>f DEF Reasons
    <2>2. CASE call[k].chan.kind = "ok"
      <3> DEFINE o == [kind |-> "ok", of |-> call[k].chan.of, link |-> call[k].chan.link,
                       reconnected |-> call[k].reconnected,
                       invalidated |-> worker.invalidated]
      <3>1. Returns(k, o)
        BY <1>8, <2>2 DEF ReceiveReply
      <3>2. o \in Outcomes
        BY DEF CallType, Replies, Outcomes, WorkerType
      <3>3. /\ o.of = call[k].chan.of /\ o.link = call[k].chan.link
            /\ o.invalidated = worker.invalidated
        OBVIOUS
      <3> HIDE DEF o
      <3>4. /\ Over(o).outcome = o /\ Over(o).chan.kind # "ok" /\ Over(o).pc = "done"
            /\ [Over(o) EXCEPT !.pc = "artifact"].outcome = o
            /\ [Over(o) EXCEPT !.pc = "artifact"].chan.kind # "ok"
            /\ [Over(o) EXCEPT !.pc = "artifact"].pc = "artifact"
        BY <1>0, <3>2, OverTyped DEF CallType
      <3> QED BY <2>2, <3>1, <3>3, <3>4 DEF Returns
    <2> QED BY <1>8, <2>1, <2>2 DEF ReceiveReply
  <1>9. CASE TimeOut(k)
    BY <1>9, <1>f DEF TimeOut, Reasons
  <1>10. CASE ReadArtifact(k)
    <2>1. call[k].outcome \in Outcomes
      BY DEF CallType
    <2> QED BY <1>10, <2>1, <1>0 DEF ReadArtifact, Finish, Reasons
  <1> QED BY <1>1, <1>2, <1>3, <1>4, <1>5, <1>6, <1>7, <1>8, <1>9, <1>10 DEF CallNext

LEMMA InstallMoves ==
    ASSUME TypeOK, NEW c \in Links, NEW again \in BOOLEAN, Install(c, again)
    PROVE  /\ worker'.connected = TRUE /\ worker'.outbound = c /\ worker'.reader = c
           /\ worker'.replica = c /\ worker'.pending = worker.pending
           /\ worker'.invalidated = (worker.invalidated \/ again)
           /\ reader'[c].pc = "loop"
           /\ \A d \in Links : d # c => reader'[d].pc = reader[d].pc
           /\ \A d \in Links : reader'[d].hand = reader[d].hand
           /\ \A d \in Links : reader'[d].aborted = (reader[d].aborted \/ d = worker.reader)
  <1> USE DEF TypeOK
  <1>1. worker.reader # 0 => worker.reader \in Links
    BY LinkNumbers DEF WorkerType
  <1>2. \A d \in Links : d # 0 /\ reader[d].aborted \in BOOLEAN
    BY LinkNumbers DEF ReaderType
  <1>3. /\ worker'.connected = TRUE /\ worker'.outbound = c /\ worker'.reader = c
        /\ worker'.replica = c /\ worker'.pending = worker.pending
        /\ worker'.invalidated = (worker.invalidated \/ again)
    BY DEF Install, WorkerType
  <1>4. CASE worker.reader = 0
    <2>1. reader' = [reader EXCEPT ![c].pc = "loop"]
      BY <1>4 DEF Install, Started
    <2> QED BY <1>2, <1>3, <1>4, <2>1 DEF ReaderType
  <1>5. CASE worker.reader # 0
    <2> DEFINE q == Abort(worker.reader)
    <2>1. /\ q \in [Links -> ReaderType]
          /\ \A d \in Links : q[d].pc = reader[d].pc /\ q[d].hand = reader[d].hand
          /\ \A d \in Links : q[d].aborted = (reader[d].aborted \/ d = worker.reader)
      BY <1>1, <1>2, <1>5 DEF Abort, ReaderType
    <2>2. reader' = [q EXCEPT ![c].pc = "loop"]
      BY <1>5 DEF Install, Started
    <2> HIDE DEF q
    <2> QED BY <1>3, <2>1, <2>2 DEF ReaderType
  <1> QED BY <1>4, <1>5

LEMMA DialledStep == TypeOK /\ Dialled /\ [Next]_vars => Dialled'
  <1> SUFFICES ASSUME TypeOK, Dialled, [Next]_vars, NEW k \in Calls,
                      call'[k].pc \in {"handshake", "send"}
               PROVE  call'[k].link \in Links
    BY DEF Dialled
  <1> USE DEF TypeOK
  <1>1. CASE call'[k].pc = call[k].pc /\ call'[k].link = call[k].link
    BY <1>1 DEF Dialled
  <1>2. ASSUME NEW r \in Replies, call' = Deliver(call, r)
        PROVE  call'[k].link \in Links
    BY <1>1, <1>2, DeliverOnlyFills
  <1>3. CASE call' = call
    BY <1>1, <1>3
  <1>4. CASE CloseWorker
    BY <1>2, <1>4, NamesTyped DEF CloseWorker
  <1>5. ASSUME NEW j \in Calls, CallNext(j)
        PROVE  call'[k].link \in Links
    <2>1. CASE j = k
      BY <1>5, <2>1, CallAnswers
    <2>2. CASE j # k
      BY <1>1, <1>5, <2>2, CallMoves
    <2> QED BY <2>1, <2>2
  <1>6. ASSUME NEW c \in Links, ReaderNext(c)
        PROVE  call'[k].link \in Links
    <2>1. \/ call' = call
          \/ call' = Deliver(call, ErrorReply)
          \/ call' = Deliver(call, Answer(reader[c].hand.call, c))
      BY <1>6 DEF ReaderNext, ReaderTakes, ReaderHandles, ReaderLeaves, ReaderExits, ReaderCancelled
    <2>2. reader[c].hand.call \in Calls \cup {"none"}
      BY DEF ReaderType, Messages
    <2> QED BY <1>2, <1>3, <2>1, <2>2, NamesTyped
  <1>7. ASSUME NEW c \in Links, DaemonExecutes(c) \/ DaemonSends(c) \/ LinkBreaks(c)
        PROVE  call'[k].link \in Links
    BY <1>3, <1>7 DEF DaemonExecutes, DaemonSends, LinkBreaks
  <1>8. CASE OpenSession \/ OpenCompletes \/ ListSession \/ ResolveClose \/ RemoveSession
             \/ UNCHANGED vars
    BY <1>3, <1>8
    DEF OpenSession, OpenCompletes, ListSession, ResolveClose, RemoveSession, vars
  <1> QED BY <1>4, <1>5, <1>6, <1>7, <1>8 DEF Next

-----------------------------------------------------------------------------
(* Continuity.                                                             *)

LEMMA ContinuityKept ==
    ASSUME Continuity, worker.invalidated => worker'.invalidated,
           \A c \in Links : c # 1 /\ reader'[c].pc # "off" =>
               reader[c].pc # "off" \/ worker'.invalidated,
           \A k \in Calls : call'[k].chan.kind = "ok" /\ call'[k].chan.link # 1 =>
               call'[k].chan = call[k].chan \/ worker'.invalidated,
           \A k \in Calls : call'[k].outcome.kind = "ok" /\ call'[k].outcome.link # 1 =>
               call'[k].outcome = call[k].outcome \/ call'[k].outcome.invalidated
    PROVE  Continuity'
  BY DEF Continuity, ContinuityReported

LEMMA ContinuityStep == TypeOK /\ Dialled /\ Continuity /\ [Next]_vars => Continuity'
  <1> SUFFICES ASSUME TypeOK, Dialled, Continuity, [Next]_vars
               PROVE  Continuity'
    OBVIOUS
  <1> USE DEF TypeOK
  <1> DEFINE Told == worker.invalidated => worker'.invalidated
             SameReaders == \A c \in Links : reader'[c].pc = "off" <=> reader[c].pc = "off"
  <1>1. CASE Told /\ SameReaders /\ call' = call
    BY <1>1, ContinuityKept
  <1>2. ASSUME NEW r \in Replies, call' = Deliver(call, r), Told, SameReaders,
               r.kind = "ok" /\ r.link # 1 => worker'.invalidated
        PROVE  Continuity'
    <2>1. \A k \in Calls : call'[k].outcome = call[k].outcome
                            /\ (call'[k].chan = call[k].chan \/ call'[k].chan = r)
      BY <1>2, DeliverOnlyFills
    <2> QED BY <1>2, <2>1, ContinuityKept
  <1>3. CASE OpenCompletes
    <2>1. CASE Install(1, FALSE)
      <3>1. Told /\ \A c \in Links : c # 1 => reader'[c].pc = reader[c].pc
        BY <2>1, LinkNumbers, InstallMoves
      <3> QED BY <1>3, <3>1, ContinuityKept DEF OpenCompletes
    <2>2. CASE UNCHANGED <<worker, reader>>
      BY <1>1, <1>3, <2>2 DEF OpenCompletes
    <2> QED BY <1>3, <2>1, <2>2 DEF OpenCompletes
  <1>4. CASE CloseWorker
    <2>1. Told
      BY <1>4 DEF CloseWorker, WorkerType
    <2>2. SameReaders
      <3>1. worker.reader # 0 => worker.reader \in Links
        BY LinkNumbers DEF WorkerType
      <3> QED BY <1>4, <3>1 DEF CloseWorker, Abort, ReaderType
    <2>3. Closed.kind # "ok"
      BY DEF Closed
    <2> QED BY <1>2, <1>4, <2>1, <2>2, <2>3, NamesTyped DEF CloseWorker
  <1>5. ASSUME NEW k \in Calls, CallNext(k)
        PROVE  Continuity'
    <2>1. /\ \A j \in Calls \ {k} : call'[j] = call[j]
          /\ call'[k].chan.kind = "ok" => call'[k].chan = call[k].chan
          /\ call'[k].outcome.kind = "ok" =>
                \/ call'[k].outcome = call[k].outcome
                \/ /\ call[k].chan.kind = "ok"
                   /\ call'[k].outcome.link = call[k].chan.link
                   /\ call'[k].outcome.invalidated = worker.invalidated
      BY <1>5, CallMoves, CallAnswers
    <2>2. /\ Told
          /\ \A c \in Links : c # 1 /\ reader'[c].pc # "off" =>
                reader[c].pc # "off" \/ worker'.invalidated
      <3>1. CASE ConnectCompletes(k)
        <4>1. call[k].link \in Links
          BY <3>1 DEF ConnectCompletes, At, Dialled
        <4>2. CASE Install(call[k].link, TRUE)
          BY <4>1, <4>2, InstallMoves
        <4>3. CASE UNCHANGED <<worker, reader>>
          BY <4>3
        <4> QED BY <3>1, <4>2, <4>3 DEF ConnectCompletes
      <3>2. CASE RegisterPending(k) \/ SendRequest(k)
        BY <3>2 DEF RegisterPending, SendRequest, WorkerType
      <3>3. CASE \/ ResolveSession(k) \/ AcquireActionLock(k) \/ CheckConnected(k)
                 \/ ConnectOpens(k) \/ ReceiveReply(k) \/ TimeOut(k) \/ ReadArtifact(k)
        BY <3>3 DEF ResolveSession, AcquireActionLock, CheckConnected, ConnectOpens,
                    ReceiveReply, TimeOut, ReadArtifact
      <3> QED BY <1>5, <3>1, <3>2, <3>3 DEF CallNext
    <2>3. call[k].chan.kind = "ok" /\ call[k].chan.link # 1 => worker.invalidated
      BY DEF Continuity
    <2>4. \A j \in Calls : call'[j].outcome.kind = "ok" /\ call'[j].outcome.link # 1 =>
               call'[j].outcome = call[j].outcome \/ call'[j].outcome.invalidated
      BY <2>1, <2>3
    <2> QED BY <2>1, <2>2, <2>4, ContinuityKept
  <1>6. ASSUME NEW c \in Links, ReaderNext(c)
        PROVE  Continuity'
    <2>1. CASE ReaderTakes(c)
      BY <1>1, <2>1 DEF ReaderTakes, ReaderType
    <2>2. CASE ReaderHandles(c)
      <3>1. SameReaders
        BY <2>2 DEF ReaderHandles, ReaderType
      <3>2. Told
        BY <2>2 DEF ReaderHandles, WorkerType
      <3>3. CASE call' = call
        BY <1>1, <3>1, <3>2, <3>3
      <3>4. CASE call' = Deliver(call, Answer(reader[c].hand.call, c))
        <4>1. reader[c].hand.call \in Calls \cup {"none"}
          BY DEF ReaderType, Messages
        <4>2. c # 1 => worker'.invalidated
          BY <2>2, <3>2 DEF ReaderHandles, Continuity
        <4>3. Answer(reader[c].hand.call, c).link = c
          BY DEF Answer
        <4> QED BY <1>2, <3>1, <3>2, <3>4, <4>1, <4>2, <4>3, NamesTyped
      <3> QED BY <2>2, <3>3, <3>4 DEF ReaderHandles
    <2>3. CASE ReaderLeaves(c)
      BY <1>1, <2>3 DEF ReaderLeaves, ReaderType
    <2>4. CASE ReaderExits(c)
      <3>1. SameReaders
        BY <2>4 DEF ReaderExits, ReaderType
      <3>2. Told
        BY <2>4 DEF ReaderExits, WorkerType
      <3>3. ErrorReply.kind # "ok"
        BY DEF ErrorReply
      <3> QED BY <1>2, <2>4, <3>1, <3>2, <3>3, NamesTyped DEF ReaderExits
    <2>5. CASE ReaderCancelled(c)
      BY <1>1, <2>5 DEF ReaderCancelled, ReaderType
    <2> QED BY <1>6, <2>1, <2>2, <2>3, <2>4, <2>5 DEF ReaderNext
  <1>7. ASSUME NEW c \in Links, DaemonExecutes(c) \/ DaemonSends(c) \/ LinkBreaks(c)
        PROVE  Continuity'
    BY <1>1, <1>7 DEF DaemonExecutes, DaemonSends, LinkBreaks
  <1>8. CASE OpenSession \/ ListSession \/ ResolveClose \/ RemoveSession \/ UNCHANGED vars
    BY <1>1, <1>8 DEF OpenSession, ListSession, ResolveClose, RemoveSession, vars
  <1> QED BY <1>3, <1>4, <1>5, <1>6, <1>7, <1>8 DEF Next

-----------------------------------------------------------------------------
(* One stream, one request under way: what keeps each part of Orderly.     *)

\* Nothing new is under way on a link.
NoNews(c) ==
    /\ link'[c].reqs \in {link[c].reqs, << >>}
    /\ \A i \in Results(c)' : i \in Results(c) /\ link'[c].msgs[i] = link[c].msgs[i]
    /\ HandsResult(c)' => HandsResult(c) /\ reader'[c].hand = reader[c].hand

LEMMA QuietKept ==
    ASSUME NEW c \in Links, Quiet(c), NoNews(c)
    PROVE  Quiet(c)'
  BY DEF Quiet, NoNews

LEMMA SameIsNoNews ==
    ASSUME NEW c \in Links, link'[c].reqs = link[c].reqs, link'[c].msgs = link[c].msgs,
           \/ reader'[c].pc = reader[c].pc /\ reader'[c].hand = reader[c].hand
           \/ reader'[c].pc # "got"
    PROVE  NoNews(c)
  BY DEF NoNews, Results, HandsResult

LEMMA OpeningKept ==
    ASSUME Opening, opened' = opened, opener' = opener,
           \A c \in Links : Fresh(c) => Fresh(c)',
           \A k \in Calls : call'[k].pc = "handshake" =>
               call[k].pc = "handshake" /\ call'[k].link = call[k].link,
           \A k \in Calls : opener # "listed" => call'[k].pc = call[k].pc
    PROVE  Opening'
  BY LinkNumbers DEF Opening

LEMMA LockedKept ==
    ASSUME Locked, \A k \in Calls : HoldsLock(k)' => HoldsLock(k)
    PROVE  Locked'
  BY DEF Locked

LEMMA StreamsKept ==
    ASSUME Streams, opened \in Nat, opened' >= opened, opened' \in Nat, worker.outbound \in Nat,
           worker'.outbound = worker.outbound, worker'.reader = worker.reader,
           worker'.connected = worker.connected, worker'.replica = worker.replica,
           worker.outbound = 0 => worker'.pending = NoAttempt,
           \A c \in Links : Live(c)' => Live(c)
    PROVE  Streams'
  BY DEF Streams

LEMMA LineKept ==
    ASSUME TypeOK, Line, worker'.outbound = worker.outbound,
           worker.outbound # 0 => NoNews(worker.outbound),
           worker'.pending = NoAttempt => worker.pending = NoAttempt
    PROVE  Line'
  <1> SUFFICES ASSUME worker.outbound # 0
               PROVE  OneUnderWay(worker.outbound)'
    BY DEF Line
  <1> DEFINE c == worker.outbound
  <1>1. c \in Links /\ OneUnderWay(c) /\ NoNews(c)
    BY LinkNumbers DEF TypeOK, WorkerType, Line
  <1>2. link'[c].reqs # << >> => link'[c].reqs = link[c].reqs
    BY <1>1 DEF NoNews
  <1>3. \A i \in Results(c)' : i \in Results(c)
    BY <1>1 DEF NoNews
  <1>4. HandsResult(c)' => HandsResult(c)
    BY <1>1 DEF NoNews
  <1>5. Len(link'[c].reqs) <= 1
    BY <1>1 DEF NoNews, OneUnderWay
  <1>6. worker'.pending = NoAttempt => Quiet(c)'
    BY <1>1, QuietKept DEF OneUnderWay
  <1>7. Results(c) = {} => Results(c)' = {}
    BY <1>3
  <1>8. \A i, j \in Results(c)' : i = j
    BY <1>1, <1>3 DEF OneUnderWay
  <1>9. OneUnderWay(c)'
    BY <1>1, <1>2, <1>4, <1>5, <1>6, <1>7, <1>8 DEF OneUnderWay
  <1> QED BY <1>9

LEMMA LineUnchanged ==
    ASSUME TypeOK, Line, UNCHANGED <<worker, link, reader>>
    PROVE  Line'
  <1>1. \A c \in Links : NoNews(c)
    BY SameIsNoNews
  <1>2. worker.outbound # 0 => worker.outbound \in Links
    BY LinkNumbers DEF TypeOK, WorkerType
  <1> QED BY <1>1, <1>2, LineKept

LEMMA LineQuiet ==
    ASSUME (worker.outbound # 0 => Quiet(worker.outbound))'
    PROVE  Line'
  BY DEF Line, OneUnderWay, Quiet

\* A call that has not changed, on a stream without news.
LEMMA AskingKept ==
    ASSUME TypeOK, NEW k \in Calls, AskingOf(k),
           call'[k].pc = call[k].pc, call'[k].link = call[k].link,
           call'[k].attempt = call[k].attempt, call'[k].outcome = call[k].outcome,
           call'[k].chan.kind = "ok" => call'[k].chan.of = k,
           opened' \in Nat, opened' >= opened,
           \/ worker'.outbound = 0
           \/ /\ worker'.outbound = worker.outbound /\ worker'.pending = worker.pending
              /\ NoNews(worker.outbound)
    PROVE  AskingOf(k)'
  <1>1. opened \in Nat /\ (call[k].link \in Nat)
    BY BoundsAssumption DEF TypeOK, LinkOr0, CallType
  <1>2. Mine(k)' = Mine(k)
    BY DEF Mine
  <1>3. CASE worker'.outbound = 0
    BY <1>1, <1>3 DEF AskingOf
  <1>4. CASE worker'.outbound = worker.outbound /\ worker'.pending = worker.pending
             /\ NoNews(worker.outbound) /\ worker.outbound # 0
    <2>1. PICK c \in Links : c = worker.outbound
      BY <1>4, LinkNumbers DEF TypeOK, WorkerType
    <2>2. Quiet(c) => Quiet(c)'
      BY <1>4, <2>1, QuietKept
    <2>3. OnlyOf(c, k) => OnlyOf(c, k)'
      <3> SUFFICES ASSUME OnlyOf(c, k) PROVE OnlyOf(c, k)'
        OBVIOUS
      <3>0. NoNews(c)
        BY <1>4, <2>1
      <3>1. \A i \in DOMAIN link'[c].reqs : link'[c].reqs[i] = k
        BY <3>0 DEF OnlyOf, NoNews
      <3>2. \A i \in Results(c)' : link'[c].msgs[i].call = k
        BY <3>0 DEF OnlyOf, NoNews
      <3>3. HandsResult(c)' => reader'[c].hand.call = k
        BY <3>0 DEF OnlyOf, NoNews
      <3> QED BY <3>1, <3>2, <3>3 DEF OnlyOf
    <2>4. c = worker.outbound /\ c = worker'.outbound
      BY <1>4, <2>1
    <2>5. (call[k].pc \in {"send", "await"} /\ worker.outbound # 0 =>
             call[k].link = worker.outbound)'
      BY <1>4 DEF AskingOf
    <2>6. (call[k].pc = "send" => call[k].link <= opened)'
      BY <1>1 DEF AskingOf
    <2>7. (call[k].pc = "send" /\ worker.outbound # 0 =>
             worker.pending = Mine(k) /\ Quiet(worker.outbound))'
      <3> SUFFICES ASSUME call[k].pc = "send"
                   PROVE  worker'.pending = Mine(k)' /\ Quiet(worker.outbound)'
        OBVIOUS
      <3>1. worker.pending = Mine(k) /\ Quiet(c)
        BY <1>4, <2>4 DEF AskingOf
      <3>2. Quiet(c)'
        BY <2>2, <3>1
      <3> QED BY <1>2, <1>4, <2>4, <3>1, <3>2
    <2>8. (call[k].pc = "await" /\ worker.outbound # 0 /\ worker.pending = Mine(k) =>
             OnlyOf(worker.outbound, k))'
      <3> SUFFICES ASSUME call[k].pc = "await", worker'.pending = Mine(k)'
                   PROVE  OnlyOf(worker.outbound, k)'
        OBVIOUS
      <3>1. OnlyOf(c, k)
        BY <1>2, <1>4, <2>4 DEF AskingOf
      <3>2. OnlyOf(c, k)'
        BY <2>3, <3>1
      <3> QED BY <2>4, <3>2
    <2> QED BY <2>5, <2>6, <2>7, <2>8 DEF AskingOf
  <1> QED BY <1>3, <1>4

\* A call that is not waiting.
LEMMA AskingIdle ==
    ASSUME NEW k \in Calls, AskingOf(k), call'[k].pc \notin {"send", "await"},
           call'[k].chan.kind = "ok" => call'[k].chan.of = k,
           call'[k].outcome.kind = "ok" => call'[k].outcome.of = k
    PROVE  AskingOf(k)'
  BY DEF AskingOf

LEMMA AskingAnswers ==
    ASSUME TypeOK, Dialled, NEW k \in Calls, AskingOf(k), CallNext(k)
    PROVE  /\ call'[k].chan.kind = "ok" => call'[k].chan.of = k
           /\ call'[k].outcome.kind = "ok" => call'[k].outcome.of = k
  BY CallAnswers DEF AskingOf

-----------------------------------------------------------------------------
(* The steps of links and readers.                                         *)

\* What is under way on a link stays as orderly as it is.
Turns(c) ==
    /\ Quiet(c) => Quiet(c)'
    /\ OneUnderWay(c) => OneUnderWay(c)'
    /\ \A k \in Calls : OnlyOf(c, k) => OnlyOf(c, k)'

LEMMA NoNewsTurns ==
    ASSUME NEW c \in Links, NoNews(c), worker'.pending = worker.pending
    PROVE  Turns(c)
  <1>1. Quiet(c) => Quiet(c)'
    BY QuietKept
  <1>2. ASSUME OneUnderWay(c) PROVE OneUnderWay(c)'
    <2>1. link'[c].reqs # << >> => link'[c].reqs = link[c].reqs
      BY DEF NoNews
    <2>2. \A i \in Results(c)' : i \in Results(c)
      BY DEF NoNews
    <2>3. Results(c) = {} => Results(c)' = {}
      BY <2>2
    <2>4. HandsResult(c)' => HandsResult(c)
      BY DEF NoNews
    <2>5. Len(link'[c].reqs) <= 1
      BY <1>2 DEF NoNews, OneUnderWay
    <2>6. \A i, j \in Results(c)' : i = j
      BY <1>2, <2>2 DEF OneUnderWay
    <2> QED BY <1>1, <1>2, <2>1, <2>3, <2>4, <2>5, <2>6 DEF OneUnderWay
  <1>3. \A k \in Calls : OnlyOf(c, k) => OnlyOf(c, k)'
    BY DEF OnlyOf, NoNews
  <1> QED BY <1>1, <1>2, <1>3 DEF Turns

LEMMA AskingTurns ==
    ASSUME TypeOK, NEW k \in Calls, AskingOf(k), call' = call, opened' = opened,
           worker'.outbound = worker.outbound, worker'.pending = worker.pending,
           worker.outbound # 0 => Turns(worker.outbound)
    PROVE  AskingOf(k)'
  <1>1. Mine(k)' = Mine(k)
    BY DEF Mine
  <1>2. CASE worker.outbound = 0
    BY <1>2 DEF AskingOf
  <1>3. CASE worker.outbound # 0
    <2>1. PICK c \in Links : c = worker.outbound
      BY <1>3, LinkNumbers DEF TypeOK, WorkerType
    <2>2. (Quiet(c) => Quiet(c)') /\ (OnlyOf(c, k) => OnlyOf(c, k)')
      BY <1>3, <2>1 DEF Turns
    <2>3. c = worker.outbound /\ c = worker'.outbound
      BY <2>1
    <2>4. /\ call[k].pc = "send" => worker.pending = Mine(k) /\ Quiet(c)
          /\ call[k].pc = "await" /\ worker.pending = Mine(k) => OnlyOf(c, k)
      BY <1>3, <2>3 DEF AskingOf
    <2>5. /\ call'[k].pc = "send" => worker'.pending = Mine(k)' /\ Quiet(c)'
          /\ call'[k].pc = "await" /\ worker'.pending = Mine(k)' => OnlyOf(c, k)'
      BY <1>1, <2>2, <2>4
    <2> QED BY <2>3, <2>5 DEF AskingOf
  <1> QED BY <1>2, <1>3

LEMMA LinksOnly ==
    ASSUME TypeOK, Orderly, UNCHANGED <<opener, opened, call>>,
           worker'.outbound = worker.outbound, worker'.reader = worker.reader,
           worker'.connected = worker.connected, worker'.pending = worker.pending,
           worker'.replica = worker.replica \/ worker'.replica = worker'.outbound,
           \A c \in Links : Turns(c) /\ (Live(c)' => Live(c))
                           /\ (reader[c].pc = "off" => reader'[c].pc = "off")
    PROVE  Orderly'
  <1> USE DEF Orderly
  <1>1. Opening'
    <2>1. \A c \in Links : Fresh(c) => Fresh(c)'
      BY DEF Fresh, Turns
    <2> QED BY <2>1, OpeningKept
  <1>2. Locked'
    BY LockedKept DEF HoldsLock
  <1>3. Streams'
    BY DEF Streams
  <1>4. worker.outbound # 0 => worker.outbound \in Links
    BY LinkNumbers DEF TypeOK, WorkerType
  <1>5. Line'
    <2> SUFFICES ASSUME worker.outbound # 0
                 PROVE  OneUnderWay(worker.outbound)'
      BY DEF Line
    <2>1. PICK c \in Links : c = worker.outbound
      BY <1>4
    <2>2. OneUnderWay(c)'
      BY <2>1 DEF Line, Turns
    <2>3. c = worker'.outbound
      BY <2>1
    <2> QED BY <2>2, <2>3
  <1>6. Asking'
    BY <1>4, AskingTurns DEF Asking
  <1> QED BY <1>1, <1>2, <1>3, <1>5, <1>6

LEMMA TakesTurns ==
    ASSUME TypeOK, NEW c \in Links, ReaderTakes(c)
    PROVE  Turns(c)
  <1> DEFINE msgs == link[c].msgs
  <1>1. msgs \in Seq(Messages) /\ msgs # << >>
    BY DEF TypeOK, ReaderTakes, LinkType
  <1>2. /\ link'[c].reqs = link[c].reqs /\ link'[c].msgs = Tail(msgs)
        /\ reader'[c].pc = "got" /\ reader'[c].hand = Head(msgs) /\ ~HandsResult(c)
    BY DEF TypeOK, ReaderTakes, LinkType, ReaderType, HandsResult
  <1>3. \A i \in Results(c)' :
           i \in Nat \ {0} /\ i + 1 \in Results(c) /\ link'[c].msgs[i] = msgs[i + 1]
    BY <1>1, <1>2, TailIndexes DEF Results
  <1>4. HandsResult(c)' => 1 \in Results(c) /\ reader'[c].hand = msgs[1]
    BY <1>1, <1>2, TailIndexes DEF Results, HandsResult
  <1>5. Results(c) = {} => Results(c)' = {} /\ ~HandsResult(c)'
    BY <1>3, <1>4
  <1>6. Quiet(c) => Quiet(c)'
    BY <1>2, <1>5 DEF Quiet
  <1>7. ASSUME OneUnderWay(c) PROVE OneUnderWay(c)'
    <2>1. HandsResult(c)' => Results(c)' = {}
      BY <1>3, <1>4, <1>7 DEF OneUnderWay
    <2>2. ASSUME NEW i \in Results(c)', NEW j \in Results(c)' PROVE i = j
      <3>1. i \in Nat /\ j \in Nat /\ i + 1 = j + 1
        BY <1>3, <1>7, <2>2 DEF OneUnderWay
      <3> QED BY <3>1
    <2>3. worker' = worker
      BY DEF ReaderTakes
    <2> QED BY <1>2, <1>5, <1>6, <1>7, <2>1, <2>2, <2>3 DEF OneUnderWay
  <1>8. \A k \in Calls : OnlyOf(c, k) => OnlyOf(c, k)'
    BY <1>2, <1>3, <1>4 DEF OnlyOf
  <1> QED BY <1>6, <1>7, <1>8 DEF Turns

LEMMA ExecutesTurns ==
    ASSUME TypeOK, NEW c \in Links, DaemonExecutes(c)
    PROVE  Turns(c)
  <1> DEFINE k == Head(link[c].reqs)
             msgs == link[c].msgs
  <1>1. /\ link[c].reqs \in Seq(Calls) /\ link[c].reqs # << >>
        /\ msgs \in Seq(Messages)
    BY DEF TypeOK, DaemonExecutes, LinkType
  <1>2. UNCHANGED <<worker, reader>>
    BY DEF DaemonExecutes
  <1>3. CASE link' = [link EXCEPT ![c].up = FALSE, ![c].reqs = << >>]
    <2>1. link'[c].reqs = << >> /\ link'[c].msgs = link[c].msgs
      BY <1>3 DEF TypeOK, LinkType
    <2>2. NoNews(c)
      BY <1>2, <2>1 DEF NoNews, Results, HandsResult
    <2> QED BY <1>2, <2>2, NoNewsTurns
  <1>4. CASE link' = [link EXCEPT ![c].reqs = Tail(@), ![c].msgs = Append(@, ResultOf(k))]
    <2>1. /\ link'[c].reqs = Tail(link[c].reqs) /\ link'[c].msgs = Append(msgs, ResultOf(k))
          /\ HandsResult(c)' = HandsResult(c)
      BY <1>2, <1>4 DEF TypeOK, LinkType, HandsResult
    <2>2. ResultOf(k) \in Messages /\ ResultOf(k).call = k /\ k = link[c].reqs[1]
      BY <1>1, HeadTailProperties, TailIndexes, NamesTyped DEF ResultOf
    <2>3. \A i \in Results(c)' :
             \/ i \in Results(c) /\ link'[c].msgs[i] = msgs[i]
             \/ i = Len(msgs) + 1 /\ link'[c].msgs[i] = ResultOf(k)
      <3>1. \A i \in DOMAIN Append(msgs, ResultOf(k)) :
               \/ i \in DOMAIN msgs /\ Append(msgs, ResultOf(k))[i] = msgs[i]
               \/ i = Len(msgs) + 1 /\ Append(msgs, ResultOf(k))[i] = ResultOf(k)
        BY <1>1, <2>2, AppendIndexes
      <3> QED BY <2>1, <3>1 DEF Results
    <2>4. ~Quiet(c)
      BY <1>1 DEF Quiet
    <2>5. ASSUME OneUnderWay(c) PROVE OneUnderWay(c)'
      <3>1. Len(link[c].reqs) = 1 /\ Results(c) = {} /\ ~HandsResult(c)
        <4>1. Len(link[c].reqs) \in Nat \ {0}
          BY <1>1, EmptySeq
        <4>2. Len(link[c].reqs) <= 1 /\ (link[c].reqs # << >> => Results(c) = {} /\ ~HandsResult(c))
          BY <2>5 DEF OneUnderWay
        <4>3. link[c].reqs # << >>
          BY <1>1
        <4>4. \A n \in Nat \ {0} : n <= 1 => n = 1
          OBVIOUS
        <4>5. Len(link[c].reqs) = 1
          BY <4>1, <4>2, <4>4
        <4> QED BY <4>2, <4>3, <4>5
      <3>2. link'[c].reqs = << >> /\ Len(link'[c].reqs) = 0
        <4>1. Tail(link[c].reqs) \in Seq(Calls) /\ Len(Tail(link[c].reqs)) = 0
          BY <1>1, <3>1, HeadTailProperties
        <4>2. Tail(link[c].reqs) = << >>
          BY <4>1, EmptySeq
        <4> QED BY <2>1, <4>1, <4>2
      <3>3. worker.pending # NoAttempt
        BY <2>4, <2>5 DEF OneUnderWay
      <3>4. \A i, j \in Results(c)' : i = j
        BY <2>3, <3>1
      <3>5. Len(link'[c].reqs) <= 1
        BY <3>2
      <3>6. worker'.pending # NoAttempt /\ ~HandsResult(c)'
        BY <1>2, <2>1, <3>1, <3>3
      <3> QED BY <3>2, <3>4, <3>5, <3>6 DEF OneUnderWay
    <2>6. ASSUME NEW j \in Calls, OnlyOf(c, j) PROVE OnlyOf(c, j)'
      <3>1. 1 \in DOMAIN link[c].reqs
        BY <1>1, TailIndexes
      <3>2. k = j
        BY <2>2, <2>6, <3>1 DEF OnlyOf
      <3>3. \A i \in DOMAIN link'[c].reqs : link'[c].reqs[i] = j
        BY <1>1, <2>1, <2>6, TailIndexes DEF OnlyOf
      <3>4. \A i \in Results(c)' : link'[c].msgs[i].call = j
        BY <2>2, <2>3, <2>6, <3>2 DEF OnlyOf
      <3> QED BY <1>2, <2>1, <2>6, <3>3, <3>4 DEF OnlyOf
    <2> QED BY <2>4, <2>5, <2>6 DEF Turns
  <1> QED BY <1>3, <1>4 DEF DaemonExecutes

\* A message in hand, while no reader that was aborted gets through.
LEMMA HandlesOrderly ==
    ASSUME TypeOK, Orderly, NEW c \in Links, ReaderHandles(c), ~raced'
    PROVE  Orderly'
  <1> USE DEF TypeOK
  <1>1. Live(c) /\ worker.outbound = c /\ worker.reader = c /\ c # 0
    BY LinkNumbers DEF ReaderHandles, Live, Orderly, Streams, ReaderType
  <1>2. /\ reader'[c].pc = "loop" /\ reader[c].pc = "got" /\ reader'[c].aborted = reader[c].aborted
        /\ \A d \in Links \ {c} : reader'[d] = reader[d]
        /\ UNCHANGED <<opener, opened, link>>
    BY DEF ReaderHandles, ReaderType
  <1>3. \A d \in Links : (Live(d)' => Live(d)) /\ (reader[d].pc = "off" => reader'[d].pc = "off")
    BY <1>2 DEF Live
  <1>4. \A d \in Links : NoNews(d)
    BY <1>2, SameIsNoNews
  <1>5. CASE reader[c].hand.type # "ActionResult"
    <2>1. /\ call' = call
          /\ worker'.outbound = worker.outbound /\ worker'.reader = worker.reader
          /\ worker'.connected = worker.connected /\ worker'.pending = worker.pending
          /\ worker'.replica = worker.replica \/ worker'.replica = worker'.outbound
      BY <1>1, <1>5 DEF ReaderHandles, WorkerType
    <2> QED BY <1>2, <1>3, <1>4, <2>1, NoNewsTurns, LinksOnly
  <1>6. CASE reader[c].hand.type = "ActionResult"
    <2> DEFINE r == Answer(reader[c].hand.call, c)
    <2>1. /\ call' = Deliver(call, r) /\ r \in Replies
          /\ worker'.outbound = c /\ worker'.reader = c /\ worker'.pending = NoAttempt
          /\ worker'.connected = worker.connected /\ worker'.replica = worker.replica
      <3>1. reader[c].hand.call \in Calls \cup {"none"}
        BY DEF ReaderType, Messages
      <3> QED BY <1>1, <1>6, <3>1, NamesTyped DEF ReaderHandles, WorkerType
    <2>2. HandsResult(c)
      BY <1>2, <1>6 DEF HandsResult
    <2>3. Quiet(c)'
      <3>1. link[c].reqs = << >> /\ Results(c) = {}
        BY <1>1, <2>2 DEF Orderly, Line, OneUnderWay
      <3>2. Results(c)' = Results(c) /\ ~HandsResult(c)' /\ link'[c].reqs = link[c].reqs
        BY <1>2 DEF Results, HandsResult
      <3> QED BY <3>1, <3>2 DEF Quiet
    <2>4. \A k \in Calls : /\ call'[k].pc = call[k].pc /\ call'[k].attempt = call[k].attempt
                           /\ call'[k].link = call[k].link /\ call'[k].outcome = call[k].outcome
      BY <2>1, DeliverOnlyFills
    <2>5. Opening'
      <3>1. \A d \in Links : Fresh(d) => Fresh(d)'
        BY <1>3, <1>4, QuietKept DEF Fresh
      <3> QED BY <1>2, <2>4, <3>1, OpeningKept DEF Orderly
    <2>6. Locked'
      BY <2>4, LockedKept DEF Orderly, HoldsLock
    <2>7. Streams'
      BY <1>1, <1>2, <1>3, <2>1 DEF Orderly, Streams
    <2>8. Line'
      BY <2>1, <2>3, LineQuiet
    <2>9. ASSUME NEW k \in Calls PROVE AskingOf(k)'
      <3>1. AskingOf(k) /\ call[k].pc # "send"
        BY <1>1, <2>2 DEF Orderly, Asking, AskingOf, Quiet
      <3>2. NoAttempt # Mine(k)'
        BY CallsAssumption DEF NoAttempt, Mine, ReadTools, JsonTools, WaitTools, BundleTools,
                               MutatingTools, ArtifactTools
      <3>3. call'[k].chan.kind = "ok" => call'[k].chan.of = k
        <4>1. CASE call'[k].chan = call[k].chan
          BY <3>1, <4>1 DEF AskingOf
        <4>2. CASE Waiting(worker.pending) /\ worker.pending.call = k /\ call'[k].chan = r
          <5>1. worker.pending = Mine(k) /\ call[k].pc = "await"
            BY <3>1, <4>2 DEF Waiting, Mine, WorkerType, AttemptOr0
          <5>2. reader[c].hand.call = k
            BY <1>1, <2>2, <3>1, <5>1 DEF AskingOf, OnlyOf
          <5> QED BY <4>2, <5>2 DEF Answer
        <4> QED BY <2>1, <4>1, <4>2, DeliverOnlyFills
      <3> QED BY <1>1, <2>1, <2>4, <3>1, <3>2, <3>3 DEF AskingOf
    <2> QED BY <2>5, <2>6, <2>7, <2>8, <2>9 DEF Orderly, Asking
  <1> QED BY <1>5, <1>6

\* The worker gives up its stream: session_close, or the stream's reader at its end.
LEMMA GivesUpOrderly ==
    ASSUME TypeOK, Orderly, NEW r \in Replies, r.kind # "ok", call' = Deliver(call, r),
           UNCHANGED <<opener, opened, link>>,
           worker'.connected = FALSE, worker'.outbound = 0, worker'.reader = 0,
           worker'.pending = NoAttempt,
           \A d \in Links : (Live(d)' => Live(d) /\ d # worker.reader)
                           /\ (reader[d].pc = "off" => reader'[d].pc = "off")
                           /\ (HandsResult(d)' => HandsResult(d) /\ reader'[d].hand = reader[d].hand)
    PROVE  Orderly'
  <1> USE DEF Orderly
  <1>1. \A k \in Calls : /\ call'[k].pc = call[k].pc /\ call'[k].attempt = call[k].attempt
                         /\ call'[k].link = call[k].link /\ call'[k].outcome = call[k].outcome
                         /\ call'[k].chan \in {call[k].chan, r}
    BY DeliverOnlyFills DEF TypeOK
  <1>2. \A d \in Links : NoNews(d)
    BY DEF NoNews, Results
  <1>3. Opening'
    <2>1. \A d \in Links : Fresh(d) => Fresh(d)'
      BY <1>2, QuietKept DEF Fresh
    <2> QED BY <1>1, <2>1, OpeningKept
  <1>4. Locked'
    BY <1>1, LockedKept DEF HoldsLock
  <1>5. Streams'
    BY BoundsAssumption DEF Streams, TypeOK, LinkOr0
  <1>6. Line'
    BY LineQuiet
  <1>7. Asking'
    <2> SUFFICES ASSUME NEW k \in Calls PROVE AskingOf(k)'
      BY DEF Asking
    <2>1. AskingOf(k) /\ opened \in Nat
      BY BoundsAssumption DEF Asking, TypeOK, LinkOr0
    <2>2. call'[k].chan.kind = "ok" => call'[k].chan.of = k
      BY <1>1, <2>1 DEF AskingOf
    <2> QED BY <1>1, <2>1, <2>2, AskingKept
  <1> QED BY <1>3, <1>4, <1>5, <1>6, <1>7

LEMMA ExitsOrderly ==
    ASSUME TypeOK, Orderly, NEW c \in Links, ReaderExits(c), ~raced'
    PROVE  Orderly'
  <1> USE DEF TypeOK
  <1>1. worker.reader = c
    BY DEF ReaderExits, Live, Orderly, Streams, ReaderType
  <1>2. /\ worker'.connected = FALSE /\ worker'.outbound = 0 /\ worker'.reader = 0
        /\ worker'.pending = NoAttempt
    BY DEF ReaderExits, WorkerType
  <1>3. /\ reader'[c].pc = "done" /\ reader[c].pc = "leaving"
        /\ \A d \in Links \ {c} : reader'[d] = reader[d]
    BY DEF ReaderExits, ReaderType
  <1>4. \A d \in Links : (Live(d)' => Live(d) /\ d # worker.reader)
                         /\ (reader[d].pc = "off" => reader'[d].pc = "off")
                         /\ (HandsResult(d)' => HandsResult(d) /\ reader'[d].hand = reader[d].hand)
    BY <1>1, <1>3 DEF Live, HandsResult
  <1>5. ErrorReply \in Replies /\ ErrorReply.kind # "ok"
    BY NamesTyped DEF ErrorReply
  <1> QED BY <1>2, <1>4, <1>5, GivesUpOrderly DEF ReaderExits

LEMMA ClosesOrderly ==
    ASSUME TypeOK, Orderly, CloseWorker
    PROVE  Orderly'
  <1> USE DEF TypeOK
  <1>1. /\ worker'.connected = FALSE /\ worker'.outbound = 0 /\ worker'.reader = 0
        /\ worker'.pending = NoAttempt
    BY DEF CloseWorker, WorkerType
  <1>2. \A d \in Links : /\ reader'[d].pc = reader[d].pc /\ reader'[d].hand = reader[d].hand
                         /\ reader'[d].aborted = (reader[d].aborted \/ d = worker.reader)
    <2>1. worker.reader # 0 => worker.reader \in Links
      BY LinkNumbers DEF WorkerType
    <2>2. \A d \in Links : d # 0 /\ reader[d].aborted \in BOOLEAN
      BY LinkNumbers DEF ReaderType
    <2> QED BY <2>1, <2>2 DEF CloseWorker, Abort, ReaderType
  <1>3. \A d \in Links : (Live(d)' => Live(d) /\ d # worker.reader)
                         /\ (reader[d].pc = "off" => reader'[d].pc = "off")
                         /\ (HandsResult(d)' => HandsResult(d) /\ reader'[d].hand = reader[d].hand)
    BY <1>2 DEF Live, HandsResult
  <1>4. Closed \in Replies /\ Closed.kind # "ok"
    BY NamesTyped DEF Closed
  <1> QED BY <1>1, <1>3, <1>4, GivesUpOrderly DEF CloseWorker

-----------------------------------------------------------------------------
(* The steps of a call.                                                    *)

\* The lock keeps the other calls from waiting.
LEMMA OthersDoNotWait ==
    ASSUME Locked, NEW k \in Calls, HoldsLock(k), NEW j \in Calls, j # k
    PROVE  call[j].pc \notin {"check", "connect", "handshake", "register", "send", "await"}
  BY DEF Locked, HoldsLock

LEMMA OthersIdle ==
    ASSUME TypeOK, Orderly, NEW k \in Calls, HoldsLock(k), NEW j \in Calls, j # k,
           call'[j] = call[j]
    PROVE  AskingOf(j)'
  <1>1. AskingOf(j) /\ call[j].pc \notin {"send", "await"}
    BY OthersDoNotWait DEF Orderly, Asking
  <1> QED BY <1>1, AskingIdle DEF AskingOf

\* A step of call k that changes only the call, and does not send.
LEMMA CallOnly ==
    ASSUME TypeOK, Dialled, Orderly, NEW k \in Calls, CallNext(k), opener = "listed",
           UNCHANGED <<opener, opened, worker, link, reader>>,
           call'[k].pc \notin {"handshake", "send", "await"},
           HoldsLock(k)' => HoldsLock(k) \/ \A j \in Calls : ~HoldsLock(j)
    PROVE  Orderly'
  <1> USE DEF Orderly
  <1>1. \A j \in Calls \ {k} : call'[j] = call[j]
    BY CallMoves
  <1>2. Opening'
    BY <1>1, OpeningKept DEF Fresh, Quiet, Results, HandsResult
  <1>3. Locked'
    BY <1>1 DEF Locked, HoldsLock
  <1>4. Streams' /\ Line'
    <2>1. Streams'
      BY DEF Streams, Live
    <2> QED BY <2>1, LineUnchanged
  <1>5. ASSUME NEW j \in Calls PROVE AskingOf(j)'
    <2>1. AskingOf(j)
      BY DEF Asking
    <2>2. CASE j = k
      BY <2>1, <2>2, AskingIdle, AskingAnswers
    <2>3. CASE j # k
      BY <1>1, <2>1, <2>3
      DEF AskingOf, OnlyOf, Mine, Quiet, Results, HandsResult
    <2> QED BY <2>2, <2>3
  <1> QED BY <1>2, <1>3, <1>4, <1>5 DEF Asking

LEMMA ListedWhenCalled ==
    ASSUME Orderly, NEW k \in Calls, call[k].pc # "new"
    PROVE  opener = "listed"
  BY DEF Orderly, Opening

LEMMA ConnectOpensOrderly ==
    ASSUME TypeOK, Dialled, Orderly, NEW k \in Calls, ConnectOpens(k)
    PROVE  Orderly'
  <1> USE DEF TypeOK
  <1>0. CallNext(k) /\ call[k].pc = "connect" /\ HoldsLock(k) /\ opener = "listed"
    BY ListedWhenCalled DEF CallNext, ConnectOpens, At, HoldsLock
  <1>1. CASE Finish(k, Refused("not_connected")) /\ UNCHANGED <<opened, link>>
    <2>1. call'[k].pc = "done"
      BY <1>1, OverIs, RefusedTyped DEF Finish, Reasons
    <2> QED BY <1>0, <1>1, <2>1, CallOnly DEF ConnectOpens, HoldsLock
  <1>2. CASE OpenLink /\ call' = [call EXCEPT ![k].pc = "handshake", ![k].link = opened + 1]
    <2>1. PICK c \in Links : c = opened + 1
      BY <1>2, OpenLinkTyped
    <2>2. /\ opened \in Nat /\ opened' = opened + 1
          /\ call'[k].pc = "handshake" /\ call'[k].link = c
          /\ \A j \in Calls \ {k} : call'[j] = call[j]
      BY <1>2, <2>1, BoundsAssumption DEF OpenLink, LinkOr0, CallType
    <2>3. UNCHANGED <<opener, worker, reader>>
      BY DEF ConnectOpens
    <2>4. \A d \in Links : NoNews(d)
      <3>1. \A d \in Links : link'[d].reqs = link[d].reqs /\ link'[d].msgs = link[d].msgs
        BY <1>2, <2>1 DEF OpenLink, LinkType
      <3> QED BY <2>3, <3>1, SameIsNoNews
    <2>5. \A d \in Links : Fresh(d) => Fresh(d)'
      BY <2>3, <2>4, QuietKept DEF Fresh
    <2>6. Fresh(c)'
      BY <2>1, <2>2, <2>5, LinkNumbers DEF Orderly, Opening
    <2>7. Opening'
      <3>1. \A d \in Links : d > opened' => Fresh(d)'
        BY <2>2, <2>5, LinkNumbers DEF Orderly, Opening
      <3>2. \A j \in Calls : call'[j].pc = "handshake" => j = k
        BY <1>0, <2>2, OthersDoNotWait DEF Orderly
      <3>3. opener' = "listed" /\ c <= opened'
        BY <1>0, <2>1, <2>2, <2>3
      <3> QED BY <2>2, <2>6, <3>1, <3>2, <3>3 DEF Opening
    <2>8. Locked'
      BY <1>0, <2>2 DEF Orderly, Locked, HoldsLock
    <2>9. Streams'
      BY <2>2, <2>3, StreamsKept, BoundsAssumption DEF Orderly, Streams, Live, WorkerType, LinkOr0
    <2>10. Line'
      BY <2>3, <2>4, LineKept, LinkNumbers DEF Orderly, WorkerType
    <2>11. ASSUME NEW j \in Calls PROVE AskingOf(j)'
      <3>1. CASE j = k
        <4>1. AskingOf(k) /\ call'[k].pc \notin {"send", "await"}
          BY <2>2 DEF Orderly, Asking
        <4> QED BY <1>0, <3>1, <4>1, AskingAnswers, AskingIdle
      <3>2. CASE j # k
        BY <1>0, <2>2, <3>2, OthersIdle
      <3> QED BY <3>1, <3>2
    <2> QED BY <2>7, <2>8, <2>9, <2>10, <2>11 DEF Orderly, Asking
  <1> QED BY <1>1, <1>2 DEF ConnectOpens

\* A stream is installed while no call waits: the fresh one replaces the worker's.
LEMMA InstallOrderly ==
    ASSUME TypeOK, Orderly, NEW c \in Links, NEW again \in BOOLEAN, Install(c, again),
           Fresh(c), c <= opened, UNCHANGED <<opened, link>>,
           opener' = opener \/ opener' \notin {"new", "handshake", "listed"},
           opener' # "listed" => \A k \in Calls : call'[k].pc = "new",
           \A k \in Calls : call'[k].pc \notin {"handshake", "send", "await"},
           Locked',
           \A k \in Calls : call'[k].chan.kind = "ok" => call'[k].chan.of = k,
           \A k \in Calls : call'[k].outcome.kind = "ok" => call'[k].outcome.of = k,
           opener' \notin {"new", "handshake"}
    PROVE  Orderly'
  <1>1. /\ worker'.connected = TRUE /\ worker'.outbound = c /\ worker'.reader = c
        /\ worker'.replica = c /\ worker'.pending = worker.pending
        /\ worker'.invalidated = (worker.invalidated \/ again)
        /\ reader'[c].pc = "loop"
        /\ \A d \in Links : d # c => reader'[d].pc = reader[d].pc
        /\ \A d \in Links : reader'[d].hand = reader[d].hand
        /\ \A d \in Links : reader'[d].aborted = (reader[d].aborted \/ d = worker.reader)
    BY ONLY InstallMoves, TypeOK, c \in Links, again \in BOOLEAN, Install(c, again), Zenon
  <1> USE DEF TypeOK
  <1>2. \A d \in Links : NoNews(d)
    BY <1>1, SameIsNoNews
  <1>3. opened \in Nat /\ \A d \in Links : d \in Nat /\ d # 0
    BY BoundsAssumption, LinkNumbers DEF LinkOr0
  <1>4. Opening'
    <2>1. \A d \in Links : Fresh(d) /\ d # c => Fresh(d)'
      BY <1>1, <1>2, QuietKept DEF Fresh
    <2>2. \A d \in Links : d > opened' => Fresh(d)'
      BY <1>3, <2>1 DEF Orderly, Opening
    <2> QED BY <2>2 DEF Opening
  <1>5. Streams'
    <2>1. \A d \in Links : Live(d)' => d = c
      BY <1>1 DEF Live, Orderly, Streams
    <2> QED BY <1>1, <1>3, <2>1 DEF Streams
  <1>6. Line'
    <2>1. Quiet(c)'
      BY <1>2, QuietKept DEF Fresh
    <2> QED BY <1>1, <2>1, LineQuiet
  <1>7. Asking'
    BY DEF Asking, AskingOf
  <1> QED BY <1>4, <1>5, <1>6, <1>7 DEF Orderly

LEMMA ConnectCompletesOrderly ==
    ASSUME TypeOK, Dialled, Orderly, NEW k \in Calls, ConnectCompletes(k)
    PROVE  Orderly'
  <1> USE DEF TypeOK
  <1>0. CallNext(k) /\ call[k].pc = "handshake" /\ HoldsLock(k) /\ opener = "listed"
    BY ListedWhenCalled DEF CallNext, ConnectCompletes, At, HoldsLock
  <1>1. CASE Finish(k, Refused("not_connected")) /\ UNCHANGED <<worker, reader>>
    <2>1. call'[k].pc = "done"
      BY <1>1, OverIs, RefusedTyped DEF Finish, Reasons
    <2> QED BY <1>0, <1>1, <2>1, CallOnly DEF ConnectCompletes, HoldsLock
  <1>2. CASE Install(call[k].link, TRUE)
             /\ call' = [call EXCEPT ![k].pc = call[k].next, ![k].reconnected = TRUE]
    <2>1. PICK c \in Links : c = call[k].link /\ c <= opened /\ Fresh(c)
      BY <1>0 DEF Orderly, Opening
    <2>2. /\ call'[k].pc \in {"register", "check"}
          /\ \A j \in Calls \ {k} : call'[j] = call[j]
      BY <1>2 DEF CallType
    <2>3. Locked'
      BY <1>0, <2>2 DEF Orderly, Locked, HoldsLock
    <2>4. \A j \in Calls : call'[j].pc \notin {"handshake", "send", "await"}
      BY <1>0, <2>2, OthersDoNotWait DEF Orderly
    <2>5. \A j \in Calls : /\ call'[j].chan.kind = "ok" => call'[j].chan.of = j
                           /\ call'[j].outcome.kind = "ok" => call'[j].outcome.of = j
      BY <1>0, <2>2, AskingAnswers DEF Orderly, Asking, AskingOf
    <2>6. UNCHANGED <<opener, opened, link>>
      BY DEF ConnectCompletes
    <2> QED BY <1>0, <1>2, <2>1, <2>3, <2>4, <2>5, <2>6, InstallOrderly
  <1> QED BY <1>1, <1>2 DEF ConnectCompletes

LEMMA RegisterOrderly ==
    ASSUME TypeOK, Dialled, Orderly, NEW k \in Calls, RegisterPending(k)
    PROVE  Orderly'
  <1> USE DEF TypeOK
  <1>0. CallNext(k) /\ call[k].pc = "register" /\ HoldsLock(k) /\ opener = "listed"
    BY ListedWhenCalled DEF CallNext, RegisterPending, At, HoldsLock
  <1>1. /\ \A j \in Calls \ {k} : call'[j] = call[j]
        /\ UNCHANGED <<opener, opened, link, reader>>
    BY <1>0, CallMoves DEF RegisterPending
  <1>f. ASSUME NEW why \in Reasons, Fails(k, call, why)
        PROVE  call'[k].pc \in {"connect", "done"}
    BY <1>f, FailsStops, OverIs, RefusedTyped
  <1>2. CASE worker.outbound = 0
    <2>1. call'[k].pc \in {"connect", "done"} /\ worker' = worker
      BY <1>2, <1>f DEF RegisterPending, Reasons
    <2> QED BY <1>0, <1>1, <2>1, CallOnly
  <1>3. CASE worker.outbound # 0
    <2>1. PICK c \in Links : c = worker.outbound
      BY <1>3, LinkNumbers DEF WorkerType
    <2>2. /\ worker'.outbound = worker.outbound /\ worker'.reader = worker.reader
          /\ worker'.connected = worker.connected /\ worker'.replica = worker.replica
          /\ worker'.pending = Mine(k)
      BY <1>3 DEF RegisterPending, WorkerType, Mine
    <2>3. Mine(k) # NoAttempt
      BY CallsAssumption DEF NoAttempt, Mine, ReadTools, JsonTools, WaitTools, BundleTools,
                             MutatingTools, ArtifactTools
    <2>4. \A d \in Links : NoNews(d)
      BY <1>1, SameIsNoNews
    <2>5. Streams'
      BY <1>1, <1>3, <2>2 DEF Orderly, Streams, Live
    <2>6. Line'
      BY <2>1, <2>2, <2>3, <2>4, LineKept DEF Orderly
    <2>7. ASSUME NEW j \in Calls, j # k PROVE AskingOf(j)'
      BY <1>0, <1>1, <2>7, OthersIdle
    <2>8. call'[k].pc # "handshake" /\ HoldsLock(k)' => HoldsLock(k)
      BY <1>0
    <2>9. call'[k].pc # "handshake" /\ AskingOf(k)'
      <3>0. AskingOf(k)
        BY DEF Orderly, Asking
      <3>1. CASE worker.pending # NoAttempt
        <4>1. call'[k].pc \in {"connect", "done"}
          BY <1>3, <3>1, <1>f DEF RegisterPending, Reasons
        <4> QED BY <1>0, <3>0, <4>1, AskingAnswers, AskingIdle
      <3>2. CASE worker.pending = NoAttempt
        <4>1. /\ call'[k].pc = "send" /\ call'[k].link = c
              /\ call'[k].attempt = call[k].attempt
          BY <1>3, <2>1, <3>2 DEF RegisterPending, CallType
        <4>2. Mine(k)' = Mine(k)
          BY <4>1 DEF Mine
        <4>3. Quiet(c)
          BY <1>3, <2>1, <3>2 DEF Orderly, Line, OneUnderWay
        <4>4. Quiet(c)'
          BY <2>4, <4>3, QuietKept
        <4>5. c <= opened'
          BY <1>1, <2>1 DEF Orderly, Streams
        <4>6. c = worker'.outbound
          BY <2>1, <2>2
        <4>7. /\ call'[k].chan.kind = "ok" => call'[k].chan.of = k
              /\ call'[k].outcome.kind = "ok" => call'[k].outcome.of = k
          BY <1>0, <3>0, AskingAnswers
        <4> QED BY <2>2, <4>1, <4>2, <4>4, <4>5, <4>6, <4>7 DEF AskingOf
      <3> QED BY <3>1, <3>2
    <2>10. Opening'
      <3>1. \A d \in Links : Fresh(d) => Fresh(d)'
        BY <1>1, <2>4, QuietKept DEF Fresh
      <3> QED BY <1>0, <1>1, <2>9, <3>1, OpeningKept DEF Orderly
    <2>11. Locked'
      BY <1>0, <1>1, LockedKept DEF Orderly, HoldsLock
    <2> QED BY <2>5, <2>6, <2>7, <2>9, <2>10, <2>11 DEF Orderly, Asking
  <1> QED BY <1>2, <1>3

LEMMA SendOrderly ==
    ASSUME TypeOK, Dialled, Orderly, NEW k \in Calls, SendRequest(k)
    PROVE  Orderly'
  <1> USE DEF TypeOK
  <1>0. CallNext(k) /\ call[k].pc = "send" /\ HoldsLock(k) /\ opener = "listed" /\ AskingOf(k)
    BY ListedWhenCalled DEF CallNext, SendRequest, At, HoldsLock, Orderly, Asking
  <1>1. /\ \A j \in Calls \ {k} : call'[j] = call[j]
        /\ UNCHANGED <<opener, opened, reader>>
    BY <1>0, CallMoves DEF SendRequest
  <1>2. PICK c \in Links : c = call[k].link /\ c <= opened
    BY <1>0 DEF Dialled, AskingOf
  <1>3. worker.outbound # 0 => worker.outbound = c /\ worker.pending = Mine(k) /\ Quiet(c)
    BY <1>0, <1>2 DEF AskingOf
  <1>4. Locked'
    BY <1>0, <1>1, LockedKept DEF Orderly, HoldsLock
  <1>5. ASSUME NEW j \in Calls, j # k PROVE AskingOf(j)'
    BY <1>0, <1>1, <1>5, OthersIdle
  <1>6. Mine(k) # NoAttempt
    BY CallsAssumption DEF NoAttempt, Mine, ReadTools, JsonTools, WaitTools, BundleTools,
                           MutatingTools, ArtifactTools
  <1>7. opened \in Nat /\ \A d \in Links : d \in Nat /\ d # 0
    BY BoundsAssumption, LinkNumbers DEF LinkOr0
  <1>8. /\ call'[k].chan.kind = "ok" => call'[k].chan.of = k
        /\ call'[k].outcome.kind = "ok" => call'[k].outcome.of = k
    BY <1>0, AskingAnswers
  \* Nobody shakes hands while the lock is held, so that only the links to come are fresh.
  <1>9. ASSUME \A d \in Links : d # c /\ Fresh(d) => Fresh(d)', call'[k].pc # "handshake"
        PROVE  Opening'
    <2>1. \A d \in Links : d > opened' => Fresh(d)'
      BY <1>1, <1>2, <1>7, <1>9 DEF Orderly, Opening
    <2>2. \A j \in Calls : call'[j].pc # "handshake"
      BY <1>0, <1>1, <1>9, OthersDoNotWait DEF Orderly
    <2> QED BY <1>0, <1>1, <2>1, <2>2 DEF Opening
  <1>10. CASE link' = link /\ worker' = worker /\ GoTo(k, "await")
    <2>1. \A d \in Links : NoNews(d)
      BY <1>1, <1>10, SameIsNoNews
    <2>2. call'[k].pc = "await" /\ call'[k].link = c /\ call'[k].attempt = call[k].attempt
      BY <1>2, <1>10 DEF GoTo, CallType
    <2>3. Opening'
      BY <1>1, <1>9, <2>1, <2>2, QuietKept DEF Fresh
    <2>4. Streams' /\ Line'
      <3>1. Streams'
        BY <1>1, <1>10 DEF Orderly, Streams, Live
      <3>2. Line'
        BY <1>1, <1>10, LineUnchanged DEF Orderly
      <3> QED BY <3>1, <3>2
    <2>5. AskingOf(k)'
      <3>1. worker.outbound # 0 => OnlyOf(c, k)'
        <4>1. Quiet(c) => Quiet(c)'
          BY <2>1, QuietKept
        <4>2. Quiet(c)' => OnlyOf(c, k)'
          BY DEF Quiet, OnlyOf
        <4> QED BY <1>3, <4>1, <4>2
      <3>2. worker'.outbound # 0 => worker'.outbound = c
        BY <1>3, <1>10
      <3> QED BY <1>8, <1>10, <2>2, <3>1, <3>2 DEF AskingOf
    <2> QED BY <1>4, <1>5, <2>3, <2>4, <2>5 DEF Orderly, Asking
  <1>11. CASE /\ link' = [link EXCEPT ![c].reqs = Append(@, k)]
              /\ worker' = worker /\ GoTo(k, "await")
    <2>1. call'[k].pc = "await" /\ call'[k].link = c /\ call'[k].attempt = call[k].attempt
      BY <1>2, <1>11 DEF GoTo, CallType
    <2>2. /\ \A d \in Links \ {c} : link'[d] = link[d]
          /\ link'[c].reqs = Append(link[c].reqs, k) /\ link'[c].msgs = link[c].msgs
      BY <1>11 DEF LinkType
    <2>3. Opening'
      <3>1. \A d \in Links : d # c => NoNews(d)
        BY <1>1, <2>2, SameIsNoNews
      <3> QED BY <1>1, <1>9, <2>1, <3>1, QuietKept DEF Fresh
    <2>4. Streams'
      BY <1>1, <1>11 DEF Orderly, Streams, Live
    <2>5. worker.outbound # 0 => OneUnderWay(c)' /\ OnlyOf(c, k)'
      <3> SUFFICES ASSUME worker.outbound # 0 PROVE OneUnderWay(c)' /\ OnlyOf(c, k)'
        OBVIOUS
      <3>1. link[c].reqs = << >> /\ Results(c) = {} /\ ~HandsResult(c)
        BY <1>3 DEF Quiet
      <3>2. Results(c)' = {} /\ ~HandsResult(c)'
        BY <1>1, <2>2, <3>1 DEF Results, HandsResult
      <3>3. link'[c].reqs = <<k>>
        BY <2>2, <3>1
      <3>4. Len(link'[c].reqs) = 1 /\ \A i \in DOMAIN link'[c].reqs : link'[c].reqs[i] = k
        BY <3>3
      <3>5. worker'.pending # NoAttempt
        BY <1>3, <1>6, <1>11
      <3>6. OneUnderWay(c)'
        BY <3>2, <3>4, <3>5 DEF OneUnderWay
      <3> QED BY <3>2, <3>4, <3>6 DEF OnlyOf
    <2>6. worker'.outbound # 0 => worker'.outbound = c /\ worker.outbound # 0
      BY <1>3, <1>11
    <2>7. Line'
      BY <2>5, <2>6 DEF Line
    <2>8. AskingOf(k)'
      BY <1>8, <2>1, <2>5, <2>6 DEF AskingOf
    <2> QED BY <1>4, <1>5, <2>3, <2>4, <2>7, <2>8 DEF Orderly, Asking
  <1>12. CASE /\ link' = link /\ worker' = [worker EXCEPT !.pending = NoAttempt]
              /\ Fails(k, call, "interrupted")
    <2>1. call'[k].pc \in {"connect", "done"}
      BY <1>12, FailsStops, OverIs, RefusedTyped DEF Reasons
    <2>2. /\ worker'.outbound = worker.outbound /\ worker'.reader = worker.reader
          /\ worker'.connected = worker.connected /\ worker'.replica = worker.replica
          /\ worker'.pending = NoAttempt
      BY <1>12 DEF WorkerType
    <2>3. \A d \in Links : NoNews(d)
      BY <1>1, <1>12, SameIsNoNews
    <2>4. Opening'
      BY <1>1, <1>9, <2>1, <2>3, QuietKept DEF Fresh
    <2>5. Streams'
      BY <1>1, <2>2 DEF Orderly, Streams, Live
    <2>6. Line'
      <3>1. worker.outbound # 0 => Quiet(c)'
        BY <1>3, <2>3, QuietKept
      <3>2. worker'.outbound # 0 => worker'.outbound = c /\ worker.outbound # 0
        BY <1>3, <2>2
      <3> QED BY <3>1, <3>2, LineQuiet
    <2>7. AskingOf(k)'
      BY <1>0, <1>8, <2>1, AskingIdle
    <2> QED BY <1>4, <1>5, <2>4, <2>5, <2>6, <2>7 DEF Orderly, Asking
  <1> QED BY <1>2, <1>10, <1>11, <1>12 DEF SendRequest

LEMMA CallOrderly ==
    ASSUME TypeOK, Dialled, Orderly, NEW k \in Calls, CallNext(k)
    PROVE  Orderly'
  <1> USE DEF TypeOK
  <1>0. \A why \in Reasons : Refused(why) \in Outcomes
    BY RefusedTyped
  <1>1. CASE ResolveSession(k)
    <2>1. call'[k].pc \in {"done", "artifact", "lock"}
      BY <1>0, <1>1, OverIs DEF ResolveSession, Finish, GoTo, CallType, Reasons
    <2> QED BY <1>1, <2>1, CallOnly DEF ResolveSession, HoldsLock
  <1>2. CASE AcquireActionLock(k)
    <2>1. call'[k].pc = "check" /\ opener = "listed"
      BY <1>2, ListedWhenCalled DEF AcquireActionLock, At, GoTo, CallType
    <2> QED BY <1>2, <2>1, CallOnly DEF AcquireActionLock
  <1>3. CASE CheckConnected(k)
    <2>1. call'[k].pc \in {"register", "done", "connect"} /\ HoldsLock(k) /\ opener = "listed"
      BY <1>0, <1>3, OverIs, ListedWhenCalled
      DEF CheckConnected, At, Finish, GoTo, CallType, Reasons, HoldsLock
    <2> QED BY <1>3, <2>1, CallOnly DEF CheckConnected
  <1>4. CASE ReceiveReply(k)
    <2>1. call'[k].pc \in {"connect", "done", "artifact"}
      <3>1. CASE Fails(k, call, "interrupted")
        BY <1>0, <3>1, FailsStops, OverIs DEF Reasons
      <3>2. CASE call[k].chan.kind = "ok"
        <4> DEFINE o == [kind |-> "ok", of |-> call[k].chan.of, link |-> call[k].chan.link,
                         reconnected |-> call[k].reconnected,
                         invalidated |-> worker.invalidated]
        <4>1. Returns(k, o)
          BY <1>4, <3>2 DEF ReceiveReply
        <4> HIDE DEF o
        <4>2. Over(o).pc = "done" /\ [Over(o) EXCEPT !.pc = "artifact"].pc = "artifact"
          BY DEF Over, Idle
        <4> QED BY <4>1, <4>2 DEF Returns
      <3> QED BY <1>4, <3>1, <3>2 DEF ReceiveReply
    <2>2. HoldsLock(k) /\ opener = "listed"
      BY <1>4, ListedWhenCalled DEF ReceiveReply, At, HoldsLock
    <2> QED BY <1>4, <2>1, <2>2, CallOnly DEF ReceiveReply
  <1>5. CASE TimeOut(k)
    <2>1. call'[k].pc \in {"connect", "done"} /\ HoldsLock(k) /\ opener = "listed"
      BY <1>0, <1>5, FailsStops, OverIs, ListedWhenCalled DEF TimeOut, At, HoldsLock, Reasons
    <2> QED BY <1>5, <2>1, CallOnly DEF TimeOut
  <1>6. CASE ReadArtifact(k)
    <2>1. call'[k].pc = "done" /\ opener = "listed"
      <3>1. call[k].outcome \in Outcomes
        BY DEF CallType
      <3> QED BY <1>0, <1>6, <3>1, OverIs, ListedWhenCalled DEF ReadArtifact, At, Finish, Reasons
    <2> QED BY <1>6, <2>1, CallOnly DEF ReadArtifact, HoldsLock
  <1> QED BY <1>1, <1>2, <1>3, <1>4, <1>5, <1>6, ConnectOpensOrderly, ConnectCompletesOrderly,
             RegisterOrderly, SendOrderly DEF CallNext

-----------------------------------------------------------------------------
(* The other steps, and the whole.                                         *)

LEMMA ReaderOrderly ==
    ASSUME TypeOK, Orderly, NEW c \in Links, ReaderNext(c), ~raced'
    PROVE  Orderly'
  <1> USE DEF TypeOK
  <1>1. CASE ReaderTakes(c)
    <2>1. /\ UNCHANGED <<opener, opened, call, worker>> /\ reader[c].pc = "loop"
          /\ reader'[c].pc = "got" /\ reader'[c].aborted = reader[c].aborted
          /\ \A d \in Links \ {c} : reader'[d] = reader[d] /\ link'[d] = link[d]
      BY <1>1 DEF ReaderTakes, ReaderType
    <2>2. \A d \in Links : Turns(d)
      <3>1. Turns(c)
        BY <1>1, TakesTurns
      <3>2. \A d \in Links : d # c => NoNews(d)
        BY <2>1, SameIsNoNews
      <3> QED BY <2>1, <3>1, <3>2, NoNewsTurns
    <2>3. \A d \in Links : (Live(d)' => Live(d)) /\ (reader[d].pc = "off" => reader'[d].pc = "off")
      BY <2>1 DEF Live
    <2> QED BY <2>1, <2>2, <2>3, LinksOnly
  <1>2. CASE ReaderLeaves(c) \/ ReaderCancelled(c)
    <2>1. /\ UNCHANGED <<opener, opened, call, worker>> /\ reader[c].pc # "off"
          /\ reader'[c].pc \in {"leaving", "done"} /\ reader'[c].aborted = reader[c].aborted
          /\ reader'[c].pc = "leaving" => reader[c].pc = "loop"
          /\ \A d \in Links \ {c} : reader'[d] = reader[d] /\ link'[d] = link[d]
          /\ link'[c] = [up |-> FALSE, reqs |-> << >>, msgs |-> << >>]
      <3>1. CASE ReaderLeaves(c)
        BY <3>1 DEF ReaderLeaves, ReaderType
      <3>2. CASE ReaderCancelled(c)
        BY <3>2 DEF ReaderCancelled, ReaderType
      <3> QED BY <1>2, <3>1, <3>2
    <2>2. \A d \in Links : NoNews(d)
      <3>1. NoNews(c)
        BY <2>1 DEF NoNews, Results, HandsResult
      <3>2. \A d \in Links : d # c => NoNews(d)
        BY <2>1, SameIsNoNews
      <3> QED BY <3>1, <3>2
    <2>3. \A d \in Links : (Live(d)' => Live(d)) /\ (reader[d].pc = "off" => reader'[d].pc = "off")
      BY <2>1 DEF Live
    <2> QED BY <2>1, <2>2, <2>3, NoNewsTurns, LinksOnly
  <1> QED BY <1>1, <1>2, HandlesOrderly, ExitsOrderly DEF ReaderNext

LEMMA DaemonOrderly ==
    ASSUME TypeOK, Orderly, NEW c \in Links,
           DaemonExecutes(c) \/ DaemonSends(c) \/ LinkBreaks(c)
    PROVE  Orderly'
  <1> USE DEF TypeOK
  <1>1. UNCHANGED <<opener, opened, call, worker, reader>>
    BY DEF DaemonExecutes, DaemonSends, LinkBreaks
  <1>2. \A d \in Links \ {c} : link'[d] = link[d]
    BY DEF DaemonExecutes, DaemonSends, LinkBreaks
  <1>3. Turns(c)
    <2>1. CASE DaemonExecutes(c)
      BY <2>1, ExecutesTurns
    <2>2. CASE DaemonSends(c)
      <3>1. PICK m \in {Update, Recovered} : link' = [link EXCEPT ![c].msgs = Append(@, m)]
        BY <2>2 DEF DaemonSends
      <3>2. /\ link[c].msgs \in Seq(Messages) /\ link'[c].reqs = link[c].reqs
            /\ link'[c].msgs = Append(link[c].msgs, m)
        BY <3>1 DEF LinkType
      <3>3. m \in Messages /\ m.type # "ActionResult"
        BY NamesTyped DEF Update, Recovered
      <3>4. \A i \in DOMAIN Append(link[c].msgs, m) :
               \/ i \in DOMAIN link[c].msgs /\ Append(link[c].msgs, m)[i] = link[c].msgs[i]
               \/ Append(link[c].msgs, m)[i] = m
        BY <3>2, <3>3, AppendIndexes
      <3>5. NoNews(c)
        BY <1>1, <3>2, <3>3, <3>4 DEF NoNews, Results, HandsResult
      <3> QED BY <1>1, <3>5, NoNewsTurns
    <2>3. CASE LinkBreaks(c)
      <3>1. link'[c].reqs = << >> /\ link'[c].msgs \in {link[c].msgs, << >>}
        BY <2>3 DEF LinkBreaks, LinkType
      <3>2. NoNews(c)
        BY <1>1, <3>1 DEF NoNews, Results, HandsResult
      <3> QED BY <1>1, <3>2, NoNewsTurns
    <2> QED BY <2>1, <2>2, <2>3
  <1>4. \A d \in Links : d # c => NoNews(d)
    BY <1>1, <1>2, SameIsNoNews
  <1>5. \A d \in Links : Turns(d)
    BY <1>1, <1>3, <1>4, NoNewsTurns
  <1> QED BY <1>1, <1>5, LinksOnly DEF Live

LEMMA OpenerOrderly ==
    ASSUME TypeOK, Orderly, OpenSession \/ OpenCompletes \/ ListSession
    PROVE  Orderly'
  <1> USE DEF TypeOK
  <1>0. /\ call' = call /\ opener # "listed" /\ \A k \in Calls : call[k].pc = "new"
    BY DEF OpenSession, OpenCompletes, ListSession, Orderly, Opening
  <1>1. CASE UNCHANGED <<worker, link, reader, opened>> /\ opener' \in {"failed", "listed"}
    <2>1. Opening'
      BY <1>0, <1>1 DEF Orderly, Opening, Fresh, Quiet, Results, HandsResult
    <2>2. Locked' /\ Streams' /\ Line' /\ Asking'
      <3>1. Locked'
        BY <1>0 DEF Orderly, Locked, HoldsLock
      <3>2. Streams'
        BY <1>1 DEF Orderly, Streams, Live
      <3>3. Line'
        BY <1>1, LineUnchanged DEF Orderly
      <3>4. Asking'
        BY <1>0, <1>1
        DEF Orderly, Asking, AskingOf, Mine, OnlyOf, Quiet, Results, HandsResult
      <3> QED BY <3>1, <3>2, <3>3, <3>4
    <2> QED BY <2>1, <2>2 DEF Orderly
  <1>2. CASE OpenSession /\ OpenLink
    <2>1. /\ opened = 0 /\ opened' = 1 /\ opener' = "handshake" /\ UNCHANGED <<worker, reader>>
      BY <1>2 DEF OpenSession, OpenLink, Orderly, Opening
    <2>2. \A d \in Links : NoNews(d)
      <3>1. opened + 1 = 1 /\ 1 \in Links
        BY <2>1, LinkNumbers
      <3>2. \A d \in Links : link'[d].reqs = link[d].reqs /\ link'[d].msgs = link[d].msgs
        BY <1>2, <3>1 DEF OpenLink, LinkType
      <3> QED BY <2>1, <3>2, SameIsNoNews
    <2>3. \A d \in Links : Fresh(d) => Fresh(d)'
      BY <2>1, <2>2, QuietKept DEF Fresh
    <2>4. Opening'
      <3>1. \A d \in Links : d > 0 /\ d \in Nat
        BY LinkNumbers
      <3>2. \A d \in Links : Fresh(d)'
        BY <2>1, <2>3, <3>1 DEF Orderly, Opening
      <3> QED BY <1>0, <2>1, <3>2, LinkNumbers DEF Opening
    <2>5. Locked'
      BY <1>0 DEF Locked, HoldsLock
    <2>6. Streams'
      BY <2>1, StreamsKept, BoundsAssumption DEF Orderly, Streams, Live, WorkerType, LinkOr0
    <2>7. Line'
      BY <2>1, <2>2, LineKept, LinkNumbers DEF Orderly, WorkerType
    <2>8. Asking'
      BY <1>0, AskingIdle DEF Orderly, Asking, AskingOf
    <2> QED BY <2>4, <2>5, <2>6, <2>7, <2>8 DEF Orderly
  <1>3. CASE OpenCompletes /\ Install(1, FALSE) /\ opener' = "connected"
    <2>1. 1 \in Links /\ Fresh(1) /\ opened \in Nat /\ 1 <= opened
      BY <1>3, LinkNumbers, BoundsAssumption DEF OpenCompletes, Orderly, Opening, LinkOr0
    <2>2. UNCHANGED <<opened, link>>
      BY <1>3 DEF OpenCompletes
    <2>3. Locked'
      BY <1>0 DEF Locked, HoldsLock
    <2>4. \A k \in Calls : /\ call'[k].pc = "new"
                           /\ call'[k].chan.kind = "ok" => call'[k].chan.of = k
                           /\ call'[k].outcome.kind = "ok" => call'[k].outcome.of = k
      BY <1>0 DEF Orderly, Asking, AskingOf
    <2> QED BY <1>0, <1>3, <2>1, <2>2, <2>3, <2>4, InstallOrderly
  <1> QED BY <1>0, <1>1, <1>2, <1>3 DEF OpenSession, OpenCompletes, ListSession

WorkerInv ==
    /\ TypeOK /\ Dialled /\ AtMostOnce /\ Continuity
    /\ ~raced => Orderly

LEMMA OrderlyStep ==
    ASSUME TypeOK, Dialled, ~raced => Orderly, [Next]_vars, ~raced'
    PROVE  Orderly'
  <1>1. ~raced
    BY DEF Next, OpenSession, OpenCompletes, ListSession, ResolveClose, CloseWorker, RemoveSession,
      CallNext, ResolveSession, AcquireActionLock, CheckConnected, ConnectOpens, ConnectCompletes,
      RegisterPending, SendRequest, ReceiveReply, TimeOut, ReadArtifact, ReaderNext, ReaderTakes,
      ReaderHandles, ReaderLeaves, ReaderExits, ReaderCancelled, DaemonExecutes, DaemonSends,
      LinkBreaks, vars
  <1>2. Orderly
    BY <1>1
  <1>3. CASE ResolveClose \/ RemoveSession \/ UNCHANGED vars
    <2>1. UNCHANGED <<opener, opened, worker, call, link, reader>>
      BY <1>3 DEF ResolveClose, RemoveSession, vars
    <2>2. \A d \in Links : Turns(d)
      BY <2>1, SameIsNoNews, NoNewsTurns
    <2> QED BY <1>2, <2>1, <2>2, LinksOnly DEF Live
  <1> QED BY <1>2, <1>3, OpenerOrderly, ClosesOrderly, CallOrderly, ReaderOrderly, DaemonOrderly
          DEF Next

LEMMA WorkerInit == Init => WorkerInv
  <1> SUFFICES ASSUME Init PROVE WorkerInv
    OBVIOUS
  <1>1. TypeOK
    BY TypeInit
  <1>2. \A k \in Calls : /\ call[k].pc = "new" /\ call[k].attempt = 0
                         /\ call[k].chan.kind = "empty" /\ call[k].outcome.kind = "none"
                         /\ sent[k] = 0 /\ executed[k] = 0
    BY DEF Init, Idle, Nothing, NoOutcome
  <1>3. \A c \in Links : link[c].reqs = << >> /\ link[c].msgs = << >> /\ reader[c].pc = "off"
    BY DEF Init
  <1>4. AtMostOnce /\ Dialled
    BY <1>2, <1>3 DEF AtMostOnce, AtMost, Dialled
  <1>5. Continuity
    BY <1>2, <1>3 DEF Continuity, ContinuityReported
  <1>6. Orderly
    <2>1. \A c \in Links : Fresh(c)
      BY <1>3 DEF Fresh, Quiet, Results, HandsResult
    <2> QED BY <1>2, <1>3, <2>1
        DEF Init, Orderly, Opening, Locked, HoldsLock, Streams, Live, Line, Asking, AskingOf
  <1> QED BY <1>1, <1>4, <1>5, <1>6 DEF WorkerInv

LEMMA WorkerStep == WorkerInv /\ [Next]_vars => WorkerInv'
  BY TypeStep, DialledStep, AtMostStep, ContinuityStep, OrderlyStep DEF WorkerInv

-----------------------------------------------------------------------------
(* The theorems.                                                           *)

\* The invariant of a worker, its calls, streams and readers.
THEOREM WorkerInvariant == Spec => []WorkerInv
  <1> QED BY WorkerInit, WorkerStep, PTL DEF Spec

\* Every variable of a logical session has its type, whatever breaks.
THEOREM WorkerTypeCorrect == Spec => []TypeOK
  <1>1. WorkerInv => TypeOK
    BY DEF WorkerInv
  <1> QED BY <1>1, WorkerInvariant, PTL

\* A mutating request is sent at most once and executed at most once.
THEOREM MutatingRequestsGoOutOnce == Spec => []MutatingAtMostOnce
  <1>1. WorkerInv => MutatingAtMostOnce
    BY DEF WorkerInv, AtMostOnce, AtMost, MutatingAtMostOnce
  <1> QED BY <1>1, WorkerInvariant, PTL

\* A result over another stream than the first comes with the loss of continuity.
THEOREM ContinuityIsReported == Spec => []ContinuityReported
  <1>1. WorkerInv => ContinuityReported
    BY DEF WorkerInv, Continuity
  <1> QED BY <1>1, WorkerInvariant, PTL

\* As long as no aborted reader gets a message through, a call gets its own result,
\* although nobody compares action ids.
THEOREM AnswersBelongToTheirCalls == Spec => []AnswerBelongsToCall
  <1>1. WorkerInv => AnswerBelongsToCall
    BY DEF WorkerInv, Orderly, Asking, AskingOf, AnswerBelongsToCall
  <1> QED BY <1>1, WorkerInvariant, PTL

\* Likewise, the session keeps one stream, and its replica is that stream's.
THEOREM SessionKeepsOneStream == Spec => []OneStream
  <1>1. WorkerInv => OneStream
    BY DEF WorkerInv, Orderly, Streams, Live, OneStream
  <1> QED BY <1>1, WorkerInvariant, PTL

=============================================================================
