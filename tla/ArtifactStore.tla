---------------------------- MODULE ArtifactStore ----------------------------
(***************************************************************************)
(* The daemon's ArtifactStore: artifact files in one directory, a record   *)
(* per file in memory, and a retention policy (count, bytes, age) applied  *)
(* after every write and by a periodic task.  Every operation runs under   *)
(* the write lock of the daemon state, so each one is a single action;     *)
(* what comes between them is the clock, the file system's failures and a  *)
(* restart, which loses the records and keeps the files.                   *)
(***************************************************************************)
EXTENDS Integers, FiniteSetsExt

CONSTANTS
    Ids,       \* artifact ids; fresh ones come in no particular order (UUIDs)
    Sizes,     \* payload sizes
    MaxCount,  \* retention.max_count
    MaxBytes,  \* retention.max_bytes
    MaxAge,    \* retention.max_age_seconds
    MaxNow     \* bound: the clock

ASSUME RetentionAssumption ==
    /\ Ids \subseteq Nat
    /\ Sizes \subseteq Nat
    /\ MaxCount \in Nat /\ MaxBytes \in Nat /\ MaxAge \in Nat /\ MaxNow \in Nat

VARIABLES
    up,           \* the daemon runs
    artifacts,    \* the records: id -> [size, created]
    files,        \* the artifact directory: id -> bytes on disk
    total_bytes,
    metrics,      \* deleted_bytes and last_cleanup_at (-1 for None)
    written,      \* metrics.total_written_bytes
    now,          \* the wall clock
    outcome,      \* result of the last operation
    issued,       \* history: ids recorded since the daemon started
    swept         \* history: bytes the startup sweep deleted

vars == <<up, artifacts, files, total_bytes, metrics, written, now, outcome,
          issued, swept>>

Nothing == [i \in {} |-> 0]

FreshMetrics == [deleted |-> 0, last_at |-> -1]

Only(f, S) == [i \in DOMAIN f \cap S |-> f[i]]

Without(f, S) == [i \in DOMAIN f \ S |-> f[i]]

Put(f, i, v) == [j \in DOMAIN f \cup {i} |-> IF j = i THEN v ELSE f[j]]

Bytes(recs) == MapThenSumSet(LAMBDA i : recs[i].size, DOMAIN recs)

FileBytes(disk) == MapThenSumSet(LAMBDA i : disk[i], DOMAIN disk)

-----------------------------------------------------------------------------
(* cleanup                                                                 *)

\* The order of removal: by age, ties by id.
Older(recs, i, j) ==
    \/ recs[i].created < recs[j].created
    \/ recs[i].created = recs[j].created /\ i < j

OlderThan(recs, i) == { j \in DOMAIN recs : Older(recs, j, i) }

\* Mutant: an artifact expires one second late.
MutExpiredLate(recs) == { i \in DOMAIN recs : recs[i].created + 1 < now - MaxAge }

Expired(recs) == { i \in DOMAIN recs : recs[i].created < now - MaxAge }

\* Mutant: the limits themselves count as exceeded.
MutOverLimitInclusive(recs, total, i) ==
    \/ Cardinality(DOMAIN recs \ OlderThan(recs, i)) >= MaxCount
    \/ total - Bytes(Only(recs, OlderThan(recs, i))) >= MaxBytes

\* With every older record gone, there is still too much.
OverLimit(recs, total, i) ==
    \/ Cardinality(DOMAIN recs \ OlderThan(recs, i)) > MaxCount
    \/ total - Bytes(Only(recs, OlderThan(recs, i))) > MaxBytes

\* Mutant: small artifacts are spared, larger and newer ones make room.
MutToRemoveSparesSmall(recs, total) ==
    { i \in DOMAIN recs :
        i \in Expired(recs) \/ (OverLimit(recs, total, i) /\ recs[i].size > 1) }

\* remove_ids: the expired records, then the oldest until the limits hold.
ToRemove(recs, total) ==
    { i \in DOMAIN recs : i \in Expired(recs) \/ OverLimit(recs, total, i) }

\* Mutant: the sum is not recomputed: the removed bytes stay in the total.
MutCleanupKeepsTotal(recs, total, disk) ==
    LET gone == ToRemove(recs, total) IN
    /\ artifacts' = Without(recs, gone)
    /\ files' = Without(disk, gone)
    /\ total_bytes' = total
    /\ metrics' = [deleted |-> metrics.deleted + Bytes(Only(recs, gone)),
                   last_at |-> now]
    /\ outcome' = "ok"

\* Every file could be deleted: the total is recomputed from the records.
CleanupCompletes(recs, total, disk) ==
    LET gone == ToRemove(recs, total) IN
    /\ artifacts' = Without(recs, gone)
    /\ files' = Without(disk, gone)
    /\ total_bytes' = Bytes(Without(recs, gone))
    /\ metrics' = [deleted |-> metrics.deleted + Bytes(Only(recs, gone)),
                   last_at |-> now]
    /\ outcome' = "ok"

\* Mutant: the file is deleted before its record is removed, and the record
\* of the file that could not be deleted stays behind with those before it.
MutCleanupFilesFirst(recs, total, disk) ==
    /\ \E stuck \in ToRemove(recs, total) :
         /\ artifacts' = recs
         /\ files' = Without(disk, OlderThan(recs, stuck))
    /\ total_bytes' = total
    /\ UNCHANGED metrics
    /\ outcome' = "cleanup_failed"

(***************************************************************************)
(* remove_artifact_path fails on one file.  Its record is gone already, as *)
(* are those before it with their files; the early return leaves the total *)
(* and the metrics as they were.                                           *)
(***************************************************************************)
CleanupFails(recs, total, disk) ==
    /\ \E stuck \in ToRemove(recs, total) :
         /\ artifacts' = Without(recs, OlderThan(recs, stuck) \cup {stuck})
         /\ files' = Without(disk, OlderThan(recs, stuck))
    /\ total_bytes' = total
    /\ UNCHANGED metrics
    /\ outcome' = "cleanup_failed"

-----------------------------------------------------------------------------

Init ==
    /\ up = FALSE
    /\ artifacts = Nothing
    /\ files = Nothing
    /\ total_bytes = 0
    /\ metrics = FreshMetrics
    /\ written = 0
    /\ now = 0
    /\ outcome = "none"
    /\ issued = {}
    /\ swept = 0

\* Mutant: the time of the sweep is not kept.
MutStartupNoTime ==
    /\ ~up
    /\ up' = TRUE
    /\ files' = Nothing
    /\ swept' = FileBytes(files)
    /\ metrics' = [FreshMetrics EXCEPT !.deleted = FileBytes(files)]
    /\ outcome' = "ok"
    /\ UNCHANGED <<artifacts, total_bytes, written, now, issued>>

\* ArtifactStore::new: startup_sweep deletes whatever files it finds.
Startup ==
    /\ ~up
    /\ up' = TRUE
    /\ files' = Nothing
    /\ swept' = FileBytes(files)
    /\ metrics' = IF DOMAIN files = {}
                    THEN FreshMetrics
                    ELSE [deleted |-> FileBytes(files), last_at |-> now]
    /\ outcome' = "ok"
    /\ UNCHANGED <<artifacts, total_bytes, written, now, issued>>

\* A file cannot be deleted: new returns Err and the daemon does not start.
\* The directory is read in no particular order.
StartupFails ==
    /\ ~up
    /\ \E left \in SUBSET DOMAIN files \ {{}} : files' = Only(files, left)
    /\ outcome' = "startup_failed"
    /\ UNCHANGED <<up, artifacts, total_bytes, metrics, written, now, issued, swept>>

\* write_bytes: the file, the record, then cleanup, which may well remove the
\* new artifact; the caller sees Err when the cleanup fails.
WriteBytes ==
    /\ up
    /\ \E i \in Ids \ (issued \cup DOMAIN files), size \in Sizes :
         LET recs  == Put(artifacts, i, [size |-> size, created |-> now])
             total == total_bytes + size
             disk  == Put(files, i, size)
         IN  /\ issued' = issued \cup {i}
             /\ written' = written + size
             /\ \/ CleanupCompletes(recs, total, disk)
                \/ CleanupFails(recs, total, disk)
    /\ UNCHANGED <<up, now, swept>>

\* fs::write fails, with or without part of the file left on disk.
WriteFails ==
    /\ up
    /\ \/ \E i \in Ids \ (issued \cup DOMAIN files), size \in Sizes :
            \E part \in 0 .. size : files' = Put(files, i, part)
       \/ UNCHANGED files
    /\ outcome' = "write_failed"
    /\ UNCHANGED <<up, artifacts, total_bytes, metrics, written, now, issued, swept>>

\* A tick of artifact_cleanup_loop.
PeriodicCleanup ==
    /\ up
    /\ \/ CleanupCompletes(artifacts, total_bytes, files)
       \/ CleanupFails(artifacts, total_bytes, files)
    /\ UNCHANGED <<up, written, now, issued, swept>>

\* The process ends; cut short, an operation leaves the files of a failed one.
Crash ==
    /\ up
    /\ up' = FALSE
    /\ artifacts' = Nothing
    /\ total_bytes' = 0
    /\ metrics' = FreshMetrics
    /\ written' = 0
    /\ outcome' = "none"
    /\ issued' = {}
    /\ swept' = 0
    /\ UNCHANGED <<files, now>>

\* Utc::now is the wall clock: it can be set back as well.
ClockMoves ==
    /\ now' \in 0 .. MaxNow
    /\ UNCHANGED <<up, artifacts, files, total_bytes, metrics, written, outcome,
                   issued, swept>>

Next ==
    \/ Startup \/ StartupFails
    \/ WriteBytes \/ WriteFails \/ PeriodicCleanup
    \/ Crash \/ ClockMoves

Spec == Init /\ [][Next]_vars

-----------------------------------------------------------------------------
(* Properties.                                                             *)

\* Every variable stays in its type; deleted bytes come with a cleanup time.
TypeOK ==
    /\ up \in BOOLEAN
    /\ DOMAIN artifacts \subseteq issued
    /\ \A i \in DOMAIN artifacts : artifacts[i] \in [size : Sizes, created : Nat]
    /\ DOMAIN files \subseteq Ids
    /\ \A i \in DOMAIN files : files[i] \in Nat
    /\ {total_bytes, written, swept, metrics.deleted, now} \subseteq Nat
    /\ metrics.deleted > 0 => metrics.last_at \in Nat
    /\ outcome \in {"none", "ok", "write_failed", "cleanup_failed", "startup_failed"}
    /\ issued \subseteq Ids

(***************************************************************************)
(* A recorded artifact can be read: its file is there, complete, whatever  *)
(* writes and deletions have failed before (read_bytes never fails on a    *)
(* record with ReadFile).                                                  *)
(***************************************************************************)
RecordHasFile ==
    \A i \in DOMAIN artifacts :
        i \in DOMAIN files /\ files[i] = artifacts[i].size

(***************************************************************************)
(* When the last operation on the store succeeded, the number of artifacts *)
(* is within max_count and none of them had expired when it ran, even if   *)
(* earlier cleanups failed half way and the clock was set back.            *)
(***************************************************************************)
RetainedCountAndAge ==
    up /\ outcome = "ok" =>
        /\ Cardinality(DOMAIN artifacts) <= MaxCount
        /\ \A i \in DOMAIN artifacts : artifacts[i].created >= metrics.last_at - MaxAge

(***************************************************************************)
(* So are their bytes, and their accounts: get_runtime_status never        *)
(* reports fewer bytes than are on record, and never counts a byte as      *)
(* deleted twice or as deleted and still stored.  A failed cleanup leaves  *)
(* total_bytes counting artifacts that are gone: it errs on the side of    *)
(* removing too much.                                                      *)
(***************************************************************************)
BytesAccounted ==
    /\ up /\ outcome = "ok" => Bytes(artifacts) <= MaxBytes
    /\ Bytes(artifacts) <= total_bytes
    /\ metrics.deleted + total_bytes <= written + swept

\* Cleanup removes in the order of age: what survives a step of the running
\* daemon, the artifact just written included, is newer than all it removed.
EvictsOldestFirst ==
    [][LET recs == [i \in DOMAIN artifacts \cup DOMAIN artifacts' |->
                      IF i \in DOMAIN artifacts THEN artifacts[i] ELSE artifacts'[i]]
       IN  up /\ up' =>
             \A i \in DOMAIN artifacts \ DOMAIN artifacts', j \in DOMAIN artifacts' :
                 Older(recs, i, j)]_vars

(***************************************************************************)
(* As long as the total is exact, a cleanup that succeeds removes no more  *)
(* than the policy asks for: if artifacts that had not expired make room   *)
(* for others, at least one of them (the newest) could not have been kept  *)
(* within the limits.  (An artifact that is removed by its own write may   *)
(* take older ones with it.)                                               *)
(***************************************************************************)
EvictsOnlyWhatItMust ==
    [][LET evicted == DOMAIN artifacts \ (DOMAIN artifacts' \cup Expired(artifacts))
       IN  /\ up /\ up' /\ outcome' = "ok"
           /\ total_bytes = Bytes(artifacts)
           /\ issued' \ issued \subseteq DOMAIN artifacts'
           /\ evicted # {}
           => \E i \in evicted :
                 \/ Cardinality(DOMAIN artifacts') + 1 > MaxCount
                 \/ Bytes(artifacts') + artifacts[i].size > MaxBytes]_vars

(***************************************************************************)
(* openspec/specs/daemon-runtime-hardening: when artifacts are expired or  *)
(* rotated, "metadata remains consistent with the stored state": of the    *)
(* artifacts stored since the start, those on disk are those on record.    *)
(***************************************************************************)
MetadataConsistent == DOMAIN files \cap issued = DOMAIN artifacts

=============================================================================
