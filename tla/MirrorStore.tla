----------------------------- MODULE MirrorStore -----------------------------
(***************************************************************************)
(* The mirror database of nrm-sidecar for ONE workspace path: its row of   *)
(* the `files` table, its rows of the `save_queue` table, and what each    *)
(* statement or transaction of `impl Mirror` does to them.                 *)
(*                                                                         *)
(* Bytes and their hash are identified (the hash is collision free), so a  *)
(* member of Content stands for a file's bytes and for the hash the code  *)
(* compares.  NoHash is SQL NULL, and also the bytes of a file that        *)
(* does not exist.  A `save_queue` id is its position in the sequence: ids *)
(* are AUTOINCREMENT and no statement deletes a row.                       *)
(***************************************************************************)
EXTENDS Naturals, Sequences

CONSTANTS Content,    \* the file contents that can occur
          NoHash      \* no hash recorded, no file present

ASSUME NoHashAssumption == NoHash \notin Content

Hash == Content \cup {NoHash}

(***************************************************************************)
(* Rows.  `state` of a file is "untracked" when the table has no row.      *)
(* `snapshot` says the snapshot file still holds the saved bytes;          *)
(* `copy` is the saved remote conflict copy: "full" when its bytes hash to *)
(* conflict_actual_hash, "partial" when truncated or read after a change.  *)
(***************************************************************************)
FileRow == [state: {"untracked", "metadata", "hydrated"},
            remote_hash: Hash, local_hash: Hash, dirty: BOOLEAN,
            validation_state: {"unknown", "valid", "stale", "deleted",
                               "dirty", "conflict", "error"}]

SaveRow == [expected_hash: Hash, local_hash: Content, snapshot: BOOLEAN,
            state: {"pending", "failed", "conflict", "applied",
                    "superseded", "resolved_remote"},
            actual_hash: Hash, copy: {"none", "full", "partial"}]

NoFileRow == [state |-> "untracked", remote_hash |-> NoHash, local_hash |-> NoHash,
              dirty |-> FALSE, validation_state |-> "unknown"]

Replayable == {"pending", "failed"}
Unresolved == {"pending", "failed", "conflict"}
Closed == {"applied", "superseded", "resolved_remote"}

-----------------------------------------------------------------------------
(* Queries on the queue. *)

\* Mutant: replay forgets the saves whose first upload failed.
PendingIdsOnly(q) == {i \in DOMAIN q : q[i].state = "pending"}

\* pending_save_entries: ids that replay may upload, in ascending order.
ReplayableIds(q) == {i \in DOMAIN q : q[i].state \in Replayable}

\* latest_unresolved_save_hash / _entry: ORDER BY id DESC LIMIT 1 (no or one row).
LatestReplayable(q) ==
    {i \in ReplayableIds(q) : \A j \in ReplayableIds(q) : j <= i}

\* ensure_no_newer_unresolved_save.
NewerUnresolved(q, id) == {i \in DOMAIN q : i > id /\ q[i].state \in Unresolved}

\* The base a new save is compared with on the remote: the bytes of the latest
\* save still to be uploaded, otherwise the hash the caller recorded.
BaseHashes(q, expected) ==
    IF ReplayableIds(q) = {} THEN {expected}
                             ELSE {q[i].local_hash : i \in LatestReplayable(q)}

-----------------------------------------------------------------------------
(* Statements and transactions. *)

\* upsert_metadata of a scanned entry, which carries no hash (file_meta without
\* include_hash): COALESCE keeps the recorded one, and a hydrated row its state.
UpsertMetadata(f) ==
    IF f.state = "untracked" THEN [f EXCEPT !.state = "metadata"] ELSE f

\* Mutant: two columns of the INSERT swapped.
HydratedColumnsSwapped(hash) ==
    [state |-> "valid", remote_hash |-> hash, local_hash |-> hash,
     dirty |-> FALSE, validation_state |-> "hydrated"]

RecordHydrated(hash) ==
    [state |-> "hydrated", remote_hash |-> hash, local_hash |-> hash,
     dirty |-> FALSE, validation_state |-> "valid"]

\* Mutant: the upsert also overwrites the remote hash of a tracked path.
EnqueueSetsRemoteHash(f, base, bytes) ==
    [state |-> IF f.state = "untracked" THEN "hydrated" ELSE f.state, remote_hash |-> base,
     local_hash |-> bytes, dirty |-> TRUE, validation_state |-> "dirty"]

\* enqueue_save: the files half of its transaction, then the queue half.
EnqueueFile(f, base, bytes) ==
    IF f.state = "untracked"
    THEN [state |-> "hydrated", remote_hash |-> base, local_hash |-> bytes,
          dirty |-> TRUE, validation_state |-> "dirty"]
    ELSE [f EXCEPT !.local_hash = bytes, !.dirty = TRUE, !.validation_state = "dirty"]

EnqueueRow(q, base, bytes) ==
    Append(q, [expected_hash |-> base, local_hash |-> bytes, snapshot |-> TRUE,
               state |-> "pending", actual_hash |-> NoHash, copy |-> "none"])

\* mark_save_applied: UPDATE ... WHERE id=?1 looks at no other column.
MarkAppliedRow(q, id) == [q EXCEPT ![id].state = "applied"]

\* Mutant: the last applied save leaves the dirty flag set.
AppliedStaysDirty(f, q, id, hash) ==
    IF f.state = "untracked" THEN f
    ELSE [f EXCEPT !.remote_hash = hash, !.validation_state = "valid"]

MarkAppliedFile(f, q, id, hash) ==
    IF f.state = "untracked" THEN f
    ELSE IF ReplayableIds(MarkAppliedRow(q, id)) # {}
    THEN [f EXCEPT !.remote_hash = hash, !.validation_state = "dirty"]
    ELSE RecordHydrated(hash)

MarkFailedRow(q, id) == [q EXCEPT ![id].state = "failed"]

\* record_save_conflict.
RecordConflictRow(q, id, actual, copy) ==
    [q EXCEPT ![id] = [@ EXCEPT !.state = "conflict", !.actual_hash = actual, !.copy = copy]]

RecordConflictFile(f, actual) ==
    IF f.state = "untracked" THEN f
    ELSE [f EXCEPT !.remote_hash = actual, !.validation_state = "conflict"]

\* prepare_accept_local_conflict: older unresolved rows are superseded and the
\* row is rebased on the remote hash that caused its conflict.
PrepareAcceptLocal(q, id) ==
    [i \in DOMAIN q |->
        IF i < id /\ q[i].state \in Unresolved THEN [q[i] EXCEPT !.state = "superseded"]
        ELSE IF i = id /\ q[i].state = "conflict"
        THEN [q[i] EXCEPT !.state = "pending", !.expected_hash = q[i].actual_hash,
                          !.actual_hash = NoHash, !.copy = "none"]
        ELSE q[i]]

\* Mutant: the UPDATE of the older rows lacks its state filter.
ResolvesEveryOlderRow(q, id) ==
    [i \in DOMAIN q |-> IF i <= id THEN [q[i] EXCEPT !.state = "resolved_remote"] ELSE q[i]]

\* accept_remote_conflict: its transaction on the queue (the files half is
\* RecordHydrated of the conflict hash).
ResolveRemote(q, id) ==
    [i \in DOMAIN q |->
        IF i <= id /\ q[i].state \in Unresolved
        THEN [q[i] EXCEPT !.state = "resolved_remote"] ELSE q[i]]

\* record_validation: the hash is kept (COALESCE) unless one is passed.
RecordValidation(f, verdict, hash) ==
    [f EXCEPT !.validation_state = verdict,
              !.remote_hash = IF hash = NoHash THEN @ ELSE hash]

\* record_validation_file: the verdict on a remote answer, judged with the
\* entry read before the UPDATE, and the hash that is passed to it.
Verdict(entry, answer) ==
    IF entry.dirty THEN "dirty"
    ELSE IF answer = NoHash THEN "deleted"
    ELSE IF answer = entry.remote_hash THEN "valid" ELSE "stale"

RecordedHash(entry, answer) ==
    IF Verdict(entry, answer) = "valid" THEN answer ELSE NoHash
=============================================================================
