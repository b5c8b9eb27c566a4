---------------------------- MODULE UiStateStore ----------------------------
(***************************************************************************)
(* The revisioned UI cache of vmui-core (`UiStateStore`): an optional      *)
(* snapshot, its revision and a "resync required" mark.  The daemon keeps  *)
(* one per session; the MCP proxy keeps one as its replica of the daemon's *)
(* state.  The module is about the revision protocol, so the snapshot's    *)
(* windows and the effect of a batch of diff operations are parameters;    *)
(* module UiTree gives them their meaning (apply_diff_op and its helpers). *)
(***************************************************************************)
EXTENDS Naturals

CONSTANTS
    Content,         \* what a snapshot can show (its windows)
    NoSnapshot,      \* `snapshot: None`
    OpLists,         \* the lists of DiffOp a batch can carry
    ApplyOps(_, _),  \* <<content, ops>> -> [ok, content]: the op loop of apply_diff
    HasResync(_),    \* does the list hold a DiffOp::SnapshotResync ?
    ResyncSignal     \* the one-element list << SnapshotResync >>

ASSUME ContentAssumption ==
    NoSnapshot \notin Content

\* The op loop always stops in some content, whether or not an operation failed.
ASSUME ApplyOpsAssumption ==
    \A c \in Content, ops \in OpLists :
        ApplyOps(c, ops) \in [ok : BOOLEAN, content : Content]

ASSUME HasResyncAssumption ==
    \A ops \in OpLists : HasResync(ops) \in BOOLEAN

\* SnapshotResync itself never fails.
ASSUME ResyncSignalAssumption ==
    /\ ResyncSignal \in OpLists
    /\ HasResync(ResyncSignal)
    /\ \A c \in Content : ApplyOps(c, ResyncSignal).ok

-----------------------------------------------------------------------------

MaybeContent == Content \cup {NoSnapshot}

Store == [snapshot : MaybeContent, rev : Nat, resync : BOOLEAN]

\* UiStateStore::default()
EmptyStore == [snapshot |-> NoSnapshot, rev |-> 0, resync |-> FALSE]

replace_snapshot(rev, content) ==
    [snapshot |-> content, rev |-> rev, resync |-> FALSE]

mark_resync_required(store) == [store EXCEPT !.resync = TRUE]

(***************************************************************************)
(* apply_diff works in place: the operations run one by one and the first  *)
(* one that fails returns with `?`, which keeps the operations already     *)
(* applied and the old revision, and does not set the resync mark.         *)
(***************************************************************************)
apply_diff(store, diff) ==
    LET run    == ApplyOps(store.snapshot, diff.ops)
        marked == store.resync \/ HasResync(diff.ops)
    IN  IF store.snapshot = NoSnapshot THEN
            [ok |-> FALSE, store |-> store]
        ELSE IF diff.base # store.rev \/ diff.new <= diff.base THEN
            [ok |-> FALSE, store |-> mark_resync_required(store)]
        ELSE
            [ok    |-> run.ok,
             store |-> [snapshot |-> run.content,
                        rev      |-> IF run.ok THEN diff.new ELSE store.rev,
                        resync   |-> marked]]

=============================================================================
