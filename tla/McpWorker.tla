------------------------------ MODULE McpWorker ------------------------------
(***************************************************************************)
(* One logical session of the MCP proxy: the entry in the session map and  *)
(* its DaemonSessionWorker, which owns a gRPC stream ("link") to the       *)
(* daemon and replaces it by a new one when it is lost.  These tasks       *)
(* interleave:                                                             *)
(*                                                                         *)
(*   - the opener and the closer of the session (session_open,             *)
(*     session_close);                                                     *)
(*   - one task per tool call, serialised by the worker's action_lock,     *)
(*     which sends an action and waits for its result for a limited time;  *)
(*     a read-only call that fails reconnects and tries once more;         *)
(*   - one reader per link, which applies what the daemon sends to the     *)
(*     worker's state;                                                     *)
(*   - the daemon at the other end of each link.                           *)
(*                                                                         *)
(* A step ends where the code awaits something another task does.  Links   *)
(* are numbered in the order in which they are opened; 0 is no link.       *)
(***************************************************************************)
EXTENDS Naturals, Sequences, FiniteSets

CONSTANTS
    Calls,      \* the tool calls made on the session, named by their tools
    MaxLinks,   \* bound: links opened during the session's life
    MaxUpdates  \* bound: snapshots, diffs and warnings sent by the daemon

(***************************************************************************)
(* The tools, by what their handlers ask of the worker: a read-only action *)
(* whose JSON artifact is fetched afterwards, a read-only action, a        *)
(* mutating one (`read_only = false`), or an artifact alone.               *)
(***************************************************************************)
JsonTools     == {"list_windows", "get_tree", "runtime_status"}
WaitTools     == {"wait_for"}
BundleTools   == {"collect_diagnostic_bundle", "panel_probe"}
MutatingTools == {"focus_window", "invoke", "click_element", "set_value", "send_keys"}
ArtifactTools == {"artifact_read_json", "artifact_read_text"}
ReadTools     == JsonTools \cup WaitTools \cup BundleTools

ASSUME CallsAssumption ==
    Calls \subseteq ReadTools \cup MutatingTools \cup ArtifactTools

ASSUME BoundsAssumption == MaxLinks \in Nat \ {0} /\ MaxUpdates \in Nat

VARIABLES
    opener,   \* session_open: new, handshake, connected, listed, failed
    closer,   \* session_close: new, resolved, closed, done, refused
    listed,   \* the session is in the proxy's map
    worker,   \* WorkerState
    call,     \* per call: where execute_action is, and what it has so far
    link,     \* per link: is the stream up, requests and messages under way
    reader,   \* per link: reader_loop
    opened,   \* number of links opened
    updates,  \* number of updates sent by the daemon
    sent,     \* history: how often the request of a call was sent
    executed, \* history: how often the daemon executed it
    raced     \* history: an aborted reader has changed the worker's state

vars == <<opener, closer, listed, worker, call, link, reader, opened, updates,
          sent, executed, raced>>

Links     == 1 .. MaxLinks
LinkOr0   == 0 .. MaxLinks
NoAttempt == [call |-> "none", attempt |-> 0]

Update    == [type |-> "Update", call |-> "none"]     \* InitialSnapshot, DiffBatch
Recovered == [type |-> "Recovered", call |-> "none"]  \* session_state_recovered
ResultOf(k) == [type |-> "ActionResult", call |-> k]

\* What the oneshot channel of an attempt holds.
Nothing      == [kind |-> "empty", of |-> "none", link |-> 0]
Answer(k, c) == [kind |-> "ok", of |-> k, link |-> c]
ErrorReply   == [kind |-> "err", of |-> "none", link |-> 0]
Closed       == [kind |-> "closed", of |-> "none", link |-> 0]

NoOutcome == [kind |-> "none", of |-> "none", link |-> 0, reconnected |-> FALSE,
              invalidated |-> FALSE]
Refused(why) == [NoOutcome EXCEPT !.kind = why]

\* A call that is not running: it has no locals, only what it returned.
Idle == [pc |-> "new", attempt |-> 0, reconnected |-> FALSE, link |-> 0,
         next |-> "register", chan |-> Nothing, outcome |-> NoOutcome]
Over(outcome) == [Idle EXCEPT !.pc = "done", !.outcome = outcome]

Init ==
    /\ opener = "new" /\ closer = "new" /\ listed = FALSE
    /\ worker = [connected |-> FALSE, outbound |-> 0, pending |-> NoAttempt,
                 reader |-> 0, replica |-> 0, reconnects |-> 0, invalidated |-> FALSE]
    /\ call = [k \in Calls |-> Idle]
    /\ link = [c \in Links |-> [up |-> FALSE, reqs |-> << >>, msgs |-> << >>]]
    /\ reader = [c \in Links |-> [pc |-> "off", aborted |-> FALSE, hand |-> Update]]
    /\ opened = 0 /\ updates = 0
    /\ sent = [k \in Calls |-> 0]
    /\ executed = [k \in Calls |-> 0]
    /\ raced = FALSE

-----------------------------------------------------------------------------
(* The worker's state and its streams.                                     *)

\* The receiver of an attempt lives until execute_action_once returns.
Waiting(a) ==
    /\ a.call \in Calls
    /\ call[a.call].attempt = a.attempt
    /\ call[a.call].pc \in {"send", "await"}

\* pending_action.take() and the use, or the drop, of the sender.
Deliver(calls, reply) ==
    IF Waiting(worker.pending)
      THEN [calls EXCEPT ![worker.pending.call].chan = reply]
      ELSE calls

\* connect, first half: a new stream; hello and subscribe are sent.
OpenLink ==
    /\ opened < MaxLinks
    /\ opened' = opened + 1
    /\ link' = [link EXCEPT ![opened + 1].up = TRUE]

Abort(c) == [reader EXCEPT ![c].aborted = TRUE]

Started(readers, c) == [readers EXCEPT ![c].pc = "loop"]

\* Mutant: a reconnect does not say that continuity is lost.
MutInstallSilent(c, is_reconnect) ==
    /\ worker' = [worker EXCEPT
                     !.connected = TRUE, !.outbound = c, !.reader = c, !.replica = c,
                     !.reconnects = IF is_reconnect THEN @ + 1 ELSE @]
    /\ reader' = Started(IF worker.reader = 0 THEN reader ELSE Abort(worker.reader), c)

\* Mutant: the old reader goes on.
MutInstallNoAbort(c, is_reconnect) ==
    /\ worker' = [worker EXCEPT
                     !.connected = TRUE, !.outbound = c, !.reader = c, !.replica = c,
                     !.reconnects = IF is_reconnect THEN @ + 1 ELSE @,
                     !.invalidated = @ \/ is_reconnect]
    /\ reader' = Started(reader, c)

(***************************************************************************)
(* connect, second half, under the state lock: the old reader is aborted   *)
(* and everything replaced, except pending_action, which is left alone.    *)
(***************************************************************************)
Install(c, is_reconnect) ==
    /\ worker' = [worker EXCEPT
                     !.connected = TRUE, !.outbound = c, !.reader = c, !.replica = c,
                     !.reconnects = IF is_reconnect THEN @ + 1 ELSE @,
                     !.invalidated = @ \/ is_reconnect]
    /\ reader' = Started(IF worker.reader = 0 THEN reader ELSE Abort(worker.reader), c)

-----------------------------------------------------------------------------
(* session_open and session_close.                                         *)

OpenSession ==
    /\ opener = "new"
    /\ \/ OpenLink /\ opener' = "handshake"
       \/ opener' = "failed" /\ UNCHANGED <<opened, link>>
    /\ UNCHANGED <<closer, listed, worker, call, reader, updates, sent, executed, raced>>

OpenCompletes ==
    /\ opener = "handshake"
    /\ \/ /\ link[1].up
          /\ Install(1, FALSE)
          /\ opener' = "connected"
       \/ /\ ~link[1].up
          /\ opener' = "failed"
          /\ UNCHANGED <<worker, reader>>
    /\ UNCHANGED <<closer, listed, call, link, opened, updates, sent, executed, raced>>

ListSession ==
    /\ opener = "connected"
    /\ opener' = "listed" /\ listed' = TRUE
    /\ UNCHANGED <<closer, worker, call, link, reader, opened, updates, sent, executed, raced>>

ResolveClose ==
    /\ closer = "new" /\ opener = "listed" /\ listed
    /\ closer' = "resolved"
    /\ UNCHANGED <<opener, listed, worker, call, link, reader, opened, updates, sent, executed, raced>>

CloseWorker ==
    /\ closer = "resolved"
    /\ closer' = "closed"
    /\ worker' = [worker EXCEPT !.connected = FALSE, !.outbound = 0,
                                !.pending = NoAttempt, !.reader = 0]
    /\ call' = Deliver(call, Closed)
    /\ reader' = IF worker.reader = 0 THEN reader ELSE Abort(worker.reader)
    /\ UNCHANGED <<opener, listed, link, opened, updates, sent, executed, raced>>

RemoveSession ==
    /\ closer = "closed"
    /\ closer' = "done" /\ listed' = FALSE
    /\ UNCHANGED <<opener, worker, call, link, reader, opened, updates, sent, executed, raced>>

-----------------------------------------------------------------------------
(* A tool call: resolve_session, execute_action, read_artifact_bytes.      *)

At(k, pc) == k \in Calls /\ call[k].pc = pc

GoTo(k, pc) == call' = [call EXCEPT ![k].pc = pc]

Finish(k, outcome) == call' = [call EXCEPT ![k] = Over(outcome)]

\* Refused when the id is unknown, or is left out while other sessions exist.
ResolveSession(k) ==
    /\ At(k, "new") /\ opener = "listed"
    /\ \/ Finish(k, Refused("unknown_session"))
       \/ listed /\ GoTo(k, IF k \in ArtifactTools THEN "artifact" ELSE "lock")
    /\ UNCHANGED <<opener, closer, listed, worker, link, reader, opened, updates, sent, executed, raced>>

\* action_lock is held from here to the end of execute_action.
HoldsLock(k) == call[k].pc \in {"check", "connect", "handshake", "register", "send", "await"}

AcquireActionLock(k) ==
    /\ At(k, "lock")
    /\ \A other \in Calls : ~HoldsLock(other)
    /\ GoTo(k, "check")
    /\ UNCHANGED <<opener, closer, listed, worker, link, reader, opened, updates, sent, executed, raced>>

\* The top of the loop: only a read-only call may replace a lost stream.
CheckConnected(k) ==
    /\ At(k, "check")
    /\ \/ worker.connected /\ GoTo(k, "register")
       \/ ~worker.connected /\ k \in MutatingTools /\ Finish(k, Refused("retry_needed"))
       \/ /\ ~worker.connected /\ k \notin MutatingTools
          /\ call' = [call EXCEPT ![k].pc = "connect", ![k].next = "register"]
    /\ UNCHANGED <<opener, closer, listed, worker, link, reader, opened, updates, sent, executed, raced>>

ConnectOpens(k) ==
    /\ At(k, "connect")
    /\ \/ /\ OpenLink
          /\ call' = [call EXCEPT ![k].pc = "handshake", ![k].link = opened + 1]
       \/ Finish(k, Refused("not_connected")) /\ UNCHANGED <<opened, link>>
    /\ UNCHANGED <<opener, closer, listed, worker, reader, updates, sent, executed, raced>>

\* No timeout: a daemon that stays silent keeps the caller, and the lock, here.
ConnectCompletes(k) ==
    /\ At(k, "handshake")
    /\ \/ /\ link[call[k].link].up
          /\ Install(call[k].link, TRUE)
          /\ call' = [call EXCEPT ![k].pc = call[k].next, ![k].reconnected = TRUE]
       \/ /\ ~link[call[k].link].up
          /\ Finish(k, Refused("not_connected"))
          /\ UNCHANGED <<worker, reader>>
    /\ UNCHANGED <<opener, closer, listed, link, opened, updates, sent, executed, raced>>

\* Mutant: the retry does not ask whether the call is read-only.
MutFails(k, calls, why) ==
    call' = IF calls[k].attempt = 0
              THEN [calls EXCEPT ![k].pc = "connect", ![k].next = "check", ![k].attempt = 1]
              ELSE [calls EXCEPT ![k] = Over(Refused(why))]

\* Mutant: a read-only call is tried three times.
MutFailsThrice(k, calls, why) ==
    call' = IF k \notin MutatingTools /\ calls[k].attempt <= 1
              THEN [calls EXCEPT ![k].pc = "connect", ![k].next = "check", ![k].attempt = @ + 1]
              ELSE [calls EXCEPT ![k] = Over(Refused(why))]

\* execute_action_once returned Err: a read-only call reconnects, once.
Fails(k, calls, why) ==
    call' = IF k \notin MutatingTools /\ calls[k].attempt = 0
              THEN [calls EXCEPT ![k].pc = "connect", ![k].next = "check", ![k].attempt = 1]
              ELSE [calls EXCEPT ![k] = Over(Refused(why))]

\* Mutant: what `replace` returns is ignored.
MutRegisterOverPending(k) ==
    /\ At(k, "register")
    /\ \/ /\ worker.outbound = 0
          /\ Fails(k, call, "interrupted")
          /\ UNCHANGED worker
       \/ /\ worker.outbound # 0
          /\ worker' = [worker EXCEPT !.pending = [call |-> k, attempt |-> call[k].attempt]]
          /\ call' = [call EXCEPT ![k].pc = "send", ![k].chan = Nothing,
                                  ![k].link = worker.outbound]
    /\ UNCHANGED <<opener, closer, listed, link, reader, opened, updates, sent, executed, raced>>

(***************************************************************************)
(* Under the lock: no outbound sender, or a sender left in pending_action  *)
(* (which `replace` has overwritten by then), is an error.                 *)
(***************************************************************************)
RegisterPending(k) ==
    /\ At(k, "register")
    /\ \/ /\ worker.outbound = 0
          /\ Fails(k, call, "interrupted")
          /\ UNCHANGED worker
       \/ /\ worker.outbound # 0
          /\ worker' = [worker EXCEPT !.pending = [call |-> k, attempt |-> call[k].attempt]]
          /\ IF worker.pending # NoAttempt
               THEN Fails(k, call, "already_pending")
               ELSE call' = [call EXCEPT ![k].pc = "send", ![k].chan = Nothing,
                                         ![k].link = worker.outbound]
    /\ UNCHANGED <<opener, closer, listed, link, reader, opened, updates, sent, executed, raced>>

\* A broken stream refuses the request (fail_pending_action) or loses it.
SendRequest(k) ==
    LET c == call[k].link IN
    /\ At(k, "send")
    /\ \/ /\ link[c].up
          /\ link' = [link EXCEPT ![c].reqs = Append(@, k)]
          /\ sent' = [sent EXCEPT ![k] = @ + 1]
          /\ GoTo(k, "await")
          /\ UNCHANGED worker
       \/ /\ ~link[c].up
          /\ sent' = [sent EXCEPT ![k] = @ + 1]
          /\ GoTo(k, "await")
          /\ UNCHANGED <<worker, link>>
       \/ /\ ~link[c].up
          /\ worker' = [worker EXCEPT !.pending = NoAttempt]
          /\ Fails(k, call, "interrupted")
          /\ UNCHANGED <<link, sent>>
    /\ UNCHANGED <<opener, closer, listed, reader, opened, updates, executed, raced>>

\* The JSON tools go on to fetch the artifact the result names.
Returns(k, outcome) ==
    call' = [call EXCEPT ![k] = IF k \in JsonTools THEN [Over(outcome) EXCEPT !.pc = "artifact"]
                                                   ELSE Over(outcome)]

ReceiveReply(k) ==
    LET reply == call[k].chan IN
    /\ At(k, "await") /\ reply.kind # "empty"
    /\ IF reply.kind = "ok"
         THEN Returns(k, [kind |-> "ok", of |-> reply.of, link |-> reply.link,
                          reconnected |-> call[k].reconnected,
                          invalidated |-> worker.invalidated])
         ELSE Fails(k, call, "interrupted")
    /\ UNCHANGED <<opener, closer, listed, worker, link, reader, opened, updates, sent, executed, raced>>

\* Mutant: only mutating calls are timed out.
MutTimeOutMutatingOnly(k) ==
    /\ At(k, "await") /\ call[k].chan.kind = "empty" /\ k \in MutatingTools
    /\ Fails(k, call, "interrupted")
    /\ UNCHANGED <<opener, closer, listed, worker, link, reader, opened, updates, sent, executed, raced>>

\* The timeout looks at the channel first; pending_action stays as it is.
TimeOut(k) ==
    /\ At(k, "await") /\ call[k].chan.kind = "empty"
    /\ Fails(k, call, "interrupted")
    /\ UNCHANGED <<opener, closer, listed, worker, link, reader, opened, updates, sent, executed, raced>>

\* A stream of its own, after the lock; the artifact may be gone by then.
ReadArtifact(k) ==
    /\ At(k, "artifact")
    /\ Finish(k, call[k].outcome) \/ Finish(k, Refused("no_artifact"))
    /\ UNCHANGED <<opener, closer, listed, worker, link, reader, opened, updates, sent, executed, raced>>

-----------------------------------------------------------------------------
(***************************************************************************)
(* reader_loop.  An abort takes effect where the task yields.  The reader  *)
(* yields while it waits for a message.  With a message in hand, or the    *)
(* end of the stream seen, it is stopped if it has to wait for the state   *)
(* lock; on another thread than the one that aborts it, it may as well get *)
(* through before it yields again (`raced`).                               *)
(***************************************************************************)
ReaderTakes(c) ==
    /\ reader[c].pc = "loop" /\ ~reader[c].aborted
    /\ link[c].msgs # << >>
    /\ reader' = [reader EXCEPT ![c].pc = "got", ![c].hand = Head(link[c].msgs)]
    /\ link' = [link EXCEPT ![c].msgs = Tail(@)]
    /\ UNCHANGED <<opener, closer, listed, worker, call, opened, updates, sent, executed, raced>>

ReaderHandles(c) ==
    LET m == reader[c].hand IN
    /\ reader[c].pc = "got"
    /\ raced' = (raced \/ reader[c].aborted)
    /\ reader' = [reader EXCEPT ![c].pc = "loop", ![c].hand = Update]
    /\ \/ /\ m.type = "Update"
          /\ worker' = [worker EXCEPT !.replica = c]
          /\ UNCHANGED call
       \/ /\ m.type = "Recovered"
          /\ worker' = [worker EXCEPT !.invalidated = TRUE]
          /\ UNCHANGED call
       \/ /\ m.type = "ActionResult"
          /\ worker' = [worker EXCEPT !.pending = NoAttempt]
          /\ call' = Deliver(call, Answer(m.call, c))
    /\ UNCHANGED <<opener, closer, listed, link, opened, updates, sent, executed>>

\* The stream ends or fails, or a message does not decode; then it is dropped.
ReaderLeaves(c) ==
    /\ reader[c].pc = "loop" /\ ~reader[c].aborted
    /\ ~link[c].up \/ link[c].msgs # << >>
    /\ reader' = [reader EXCEPT ![c].pc = "leaving"]
    /\ link' = [link EXCEPT ![c] = [up |-> FALSE, reqs |-> << >>, msgs |-> << >>]]
    /\ UNCHANGED <<opener, closer, listed, worker, call, opened, updates, sent, executed, raced>>

ReaderExits(c) ==
    /\ reader[c].pc = "leaving"
    /\ raced' = (raced \/ reader[c].aborted)
    /\ reader' = [reader EXCEPT ![c].pc = "done"]
    /\ worker' = [worker EXCEPT !.connected = FALSE, !.outbound = 0, !.reader = 0,
                                !.pending = NoAttempt]
    /\ call' = Deliver(call, ErrorReply)
    /\ UNCHANGED <<opener, closer, listed, link, opened, updates, sent, executed>>

ReaderCancelled(c) ==
    /\ reader[c].aborted /\ reader[c].pc \in {"loop", "got", "leaving"}
    /\ reader' = [reader EXCEPT ![c].pc = "done", ![c].hand = Update]
    /\ link' = [link EXCEPT ![c] = [up |-> FALSE, reqs |-> << >>, msgs |-> << >>]]
    /\ UNCHANGED <<opener, closer, listed, worker, call, opened, updates, sent, executed, raced>>

-----------------------------------------------------------------------------
(* The daemon's side of a stream.                                          *)

\* A session that fails (any `?` of process_session) ends the stream.
DaemonExecutes(c) ==
    /\ link[c].up /\ link[c].reqs # << >>
    /\ LET k == Head(link[c].reqs) IN
         /\ executed' = [executed EXCEPT ![k] = @ + 1]
         /\ \/ link' = [link EXCEPT ![c].reqs = Tail(@),
                                    ![c].msgs = Append(@, ResultOf(k))]
            \/ link' = [link EXCEPT ![c].up = FALSE, ![c].reqs = << >>]
    /\ UNCHANGED <<opener, closer, listed, worker, call, reader, opened, updates, sent, raced>>

DaemonSends(c) ==
    /\ link[c].up /\ updates < MaxUpdates
    /\ updates' = updates + 1
    /\ \E m \in {Update, Recovered} : link' = [link EXCEPT ![c].msgs = Append(@, m)]
    /\ UNCHANGED <<opener, closer, listed, worker, call, reader, opened, sent, executed, raced>>

\* The network or the daemon fails: unread requests are lost.
LinkBreaks(c) ==
    /\ link[c].up
    /\ \/ link' = [link EXCEPT ![c].up = FALSE, ![c].reqs = << >>]
       \/ link' = [link EXCEPT ![c] = [up |-> FALSE, reqs |-> << >>, msgs |-> << >>]]
    /\ UNCHANGED <<opener, closer, listed, worker, call, reader, opened, updates, sent, executed, raced>>

-----------------------------------------------------------------------------

CallNext(k) ==
    \/ ResolveSession(k) \/ AcquireActionLock(k) \/ CheckConnected(k)
    \/ ConnectOpens(k) \/ ConnectCompletes(k)
    \/ RegisterPending(k) \/ SendRequest(k) \/ ReceiveReply(k) \/ TimeOut(k)
    \/ ReadArtifact(k)

ReaderNext(c) ==
    \/ ReaderTakes(c) \/ ReaderHandles(c) \/ ReaderLeaves(c) \/ ReaderExits(c)
    \/ ReaderCancelled(c)

Next ==
    \/ OpenSession \/ OpenCompletes \/ ListSession
    \/ ResolveClose \/ CloseWorker \/ RemoveSession
    \/ \E k \in Calls : CallNext(k)
    \/ \E c \in Links : ReaderNext(c)
    \/ \E c \in Links : DaemonExecutes(c) \/ DaemonSends(c) \/ LinkBreaks(c)

Spec == Init /\ [][Next]_vars

(***************************************************************************)
(* Tokio runs every task that is not waiting, and a call waits for its     *)
(* result no longer than its timeout.  That a handshake ends               *)
(* (ConnectCompletes is a step of the call) is assumed of the network:     *)
(* connect itself has no timeout.                                          *)
(***************************************************************************)
Fairness == \A k \in Calls : WF_vars(CallNext(k))

FairSpec == Spec /\ Fairness

-----------------------------------------------------------------------------
(* Properties.                                                             *)

AttemptOr0 == [call : Calls \cup {"none"}, attempt : {0, 1}]
Messages   == [type : {"Update", "Recovered", "ActionResult"}, call : Calls \cup {"none"}]
Replies    == [kind : {"empty", "ok", "err", "closed"}, of : Calls \cup {"none"}, link : LinkOr0]
Outcomes   == [kind : {"none", "ok", "unknown_session", "retry_needed", "not_connected",
                       "interrupted", "already_pending", "no_artifact"},
               of : Calls \cup {"none"}, link : LinkOr0, reconnected : BOOLEAN,
               invalidated : BOOLEAN]

WorkerType ==
    [connected : BOOLEAN, outbound : LinkOr0, pending : AttemptOr0, reader : LinkOr0,
     replica : LinkOr0, reconnects : Nat, invalidated : BOOLEAN]
CallType ==
    [pc : {"new", "lock", "check", "connect", "handshake", "register", "send", "await",
           "artifact", "done"},
     attempt : {0, 1}, reconnected : BOOLEAN, link : LinkOr0,
     next : {"register", "check"}, chan : Replies, outcome : Outcomes]
LinkType == [up : BOOLEAN, reqs : Seq(Calls), msgs : Seq(Messages)]
ReaderType ==
    [pc : {"off", "loop", "got", "leaving", "done"}, aborted : BOOLEAN, hand : Messages]

\* Every variable has its type.
TypeOK ==
    /\ opener \in {"new", "handshake", "connected", "listed", "failed"}
    /\ closer \in {"new", "resolved", "closed", "done"}
    /\ listed \in BOOLEAN
    /\ worker \in WorkerType
    /\ call \in [Calls -> CallType]
    /\ link \in [Links -> LinkType]
    /\ reader \in [Links -> ReaderType]
    /\ opened \in LinkOr0 /\ updates \in 0 .. MaxUpdates
    /\ sent \in [Calls -> Nat]
    /\ executed \in [Calls -> Nat]
    /\ raced \in BOOLEAN

(***************************************************************************)
(* mcp-bridge: an interrupted mutating action is never silently retried.   *)
(* Whatever breaks, times out or is closed, its request goes out at most   *)
(* once, and the daemon executes it at most once.                          *)
(***************************************************************************)
MutatingAtMostOnce ==
    \A k \in Calls \cap MutatingTools : sent[k] <= 1 /\ executed[k] <= sent[k]

(***************************************************************************)
(* The result a call returns is the result of its own action, although     *)
(* results carry no reference the proxy looks at, as long as no aborted    *)
(* reader gets its last message through.                                   *)
(***************************************************************************)
AnswerBelongsToCall ==
    ~raced => \A k \in Calls : call[k].outcome.kind = "ok" => call[k].outcome.of = k

(***************************************************************************)
(* A result that came over another stream than the one the session was     *)
(* opened with is reported together with the loss of continuity.           *)
(***************************************************************************)
ContinuityReported ==
    \A k \in Calls :
        call[k].outcome.kind = "ok" /\ call[k].outcome.link # 1 =>
            call[k].outcome.invalidated

(***************************************************************************)
(* One logical session keeps at most one stream that it has not given up,  *)
(* and its replica shows the state sent over the stream the worker uses,   *)
(* likewise.                                                               *)
(***************************************************************************)
OneStream ==
    ~raced =>
        /\ \A c, d \in {l \in Links : reader[l].pc = "loop" /\ ~reader[l].aborted} : c = d
        /\ worker.connected => worker.replica = worker.outbound

\* A call that was accepted ends, however the daemon behaves after a handshake.
CallsEnd == \A k \in Calls : (call[k].pc = "lock") ~> (call[k].pc = "done")

=============================================================================
