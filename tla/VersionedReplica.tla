--------------------------- MODULE VersionedReplica ---------------------------
(***************************************************************************)
(* What a session promises the client that follows it, without the tasks,  *)
(* the channel and the backend that keep the promise: the session's state  *)
(* goes through numbered versions, and the replica shows one of them as it *)
(* was, and never an older one than before, or knows that it does not.     *)
(***************************************************************************)
EXTENDS Naturals

CONSTANT NoSnapshot    \* what a replica shows that is out of step

VARIABLES
    versions,     \* number -> content, of the versions there have been
    replica       \* [rev, content]

NoVersions == [rev \in {} |-> NoSnapshot]

Init ==
    /\ versions = NoVersions
    /\ replica = [rev |-> 0, content |-> NoSnapshot]

Adds(rev, content) ==
    /\ rev \in Nat /\ content # NoSnapshot
    /\ \A r \in DOMAIN versions : r < rev
    /\ versions' = [r \in DOMAIN versions \cup {rev} |-> IF r = rev THEN content ELSE versions[r]]

\* The numbers are free as long as they increase.
NewVersion ==
    /\ \E rev \in DOMAIN versions' : Adds(rev, versions'[rev])
    /\ UNCHANGED replica

\* The replica need not see every version.
Follow ==
    /\ \E rev \in DOMAIN versions :
        /\ rev > replica.rev \/ (rev = replica.rev /\ replica.content = NoSnapshot)
        /\ replica' = [rev |-> rev, content |-> versions[rev]]
    /\ UNCHANGED versions

FallOutOfStep ==
    /\ replica'.rev >= replica.rev
    /\ replica' = [rev |-> replica'.rev, content |-> NoSnapshot]
    /\ UNCHANGED versions

Next == NewVersion \/ Follow \/ FallOutOfStep

Spec == Init /\ [][Next]_<<versions, replica>>

=============================================================================
