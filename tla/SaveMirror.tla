------------------------------ MODULE SaveMirror ------------------------------
(***************************************************************************)
(* The life of one workspace path: Neovim edits the local mirror file, the *)
(* sidecar snapshots the edit into its save queue, uploads it with a       *)
(* compare-and-swap on the remote hash, and meanwhile hydrates, validates  *)
(* and re-checks the same file on other threads.                           *)
(*                                                                         *)
(* One session runs three threads that touch the mirror, each with its own *)
(* SQLite connection:                                                      *)
(*   "fast"   the request loop: cached opens and the enqueueing half of    *)
(*            flush (FastState::try_open, FastState::prepare_flush);       *)
(*   "read"   the read-lane worker: hydration, prefetch, validation;       *)
(*   "write"  the write-lane worker: every upload, recovery, conflict      *)
(*            resolution.                                                  *)
(* A statement or transaction is one step; so is a read or a write of a    *)
(* file.  What the code does between two of them can be interleaved.       *)
(*                                                                         *)
(* The agent's WriteFileCas is one step: the agent holds the cooperative   *)
(* write lock from its hash check to its rename (writers that do not take  *)
(* the lock are documented as out of its reach).                           *)
(***************************************************************************)
EXTENDS MirrorStore

CONSTANTS EditContent,      \* what Neovim may write to the local mirror file
          ExternalContent,  \* what others write to the remote file
          MaxRows,          \* bound: rows of save_queue
          Budgets           \* bounds: how often each environment event happens

Events == {"edit", "external", "loss", "crash", "hydrate", "validate", "open",
           "recover", "accept", "delete", "damage", "scan"}

ASSUME ContentAssumption == Content = EditContent \cup ExternalContent
ASSUME BoundsAssumption == MaxRows \in Nat /\ Budgets \subseteq [Events -> Nat]

Threads == {"fast", "read", "write"}

VARIABLES
  remote,         \* bytes of the remote file, NoHash when it does not exist
  local_file,     \* bytes of the local mirror file
  file,           \* its row of `files`
  queue,          \* its rows of `save_queue`
  flush_due,      \* Neovim has a flush request outstanding for this path
  jobs,           \* requests waiting on the write lane: flush_queued by row id, 0 for
                  \* a flush or adopt the lane has to enqueue itself
  op,             \* per thread: the integrity check or enqueue in progress
  reader,         \* the read-lane worker
  writer,         \* the write-lane worker
  late,           \* uploads the sidecar gave up on that may still reach the agent
  budget,         \* events the environment may still produce
  seen,           \* history: contents the mirror has saved, hydrated or been shown
  installed,      \* history: contents the remote file has had
  overwritten     \* history: contents (or absence) replaced by an uploaded save

db == <<file, queue>>
workers == <<op, reader, writer, jobs, late>>
history == <<seen, installed, overwritten>>
vars == <<remote, local_file, file, queue, flush_due, jobs, op, reader, writer,
          late, budget, seen, installed, overwritten>>

Upload == [expected_hash: Hash, content: Content]
Op == [pc: {"idle", "restore", "reopen", "read", "content", "base", "commit", "reread"},
       kind: {"flush", "adopt", "sync"}, entry: FileRow, bytes: Hash, base: Hash]
Reader == [pc: {"idle", "check", "fetch", "answered", "target", "rename", "record",
                "verdict"},
           doing: {"hydrate", "validate"}, entry: FileRow, bytes: Hash]
Writer == [pc: {"idle", "wait", "reply", "accept_local", "accept_hash", "accept_remote",
                "accepted"},
           todo: SUBSET Nat, row: Nat,
           outcome: {"none", "applied", "conflict"}, actual: Hash,
           copy: {"none", "full", "partial"}]

IdleOp == [pc |-> "idle", kind |-> "sync", entry |-> NoFileRow,
           bytes |-> NoHash, base |-> NoHash]
IdleReader == [pc |-> "idle", doing |-> "hydrate", entry |-> NoFileRow, bytes |-> NoHash]
IdleWriter == [pc |-> "idle", todo |-> {}, row |-> 0, outcome |-> "none",
               actual |-> NoHash, copy |-> "none"]

\* The type invariant.
TypeOK ==
    /\ remote \in Hash /\ local_file \in Hash
    /\ file \in FileRow
    /\ queue \in Seq(SaveRow)
    /\ flush_due \in BOOLEAN
    /\ jobs \in Seq(Nat)
    /\ op \in [Threads -> Op]
    /\ reader \in Reader
    /\ writer \in Writer
    /\ late \in SUBSET Upload
    /\ budget \in [Events -> Nat]
    /\ seen \in SUBSET Content /\ installed \in SUBSET Content
    /\ overwritten \in SUBSET Hash

\* A path the mirror has not looked at yet, or one it has hydrated.
Init ==
    /\ remote \in ExternalContent \cup {NoHash}
    /\ \/ local_file = NoHash /\ file = NoFileRow /\ seen = {}
       \/ remote # NoHash /\ local_file = remote /\ file = RecordHydrated(remote) /\ seen = {remote}
    /\ queue = <<>>
    /\ flush_due = FALSE
    /\ jobs = <<>>
    /\ op = [t \in Threads |-> IdleOp]
    /\ reader = IdleReader
    /\ writer = IdleWriter
    /\ late = {}
    /\ budget \in Budgets
    /\ installed = {remote} \ {NoHash}
    /\ overwritten = {}

Spend(event) ==
    /\ budget[event] > 0
    /\ budget' = [budget EXCEPT ![event] = @ - 1]

-----------------------------------------------------------------------------
(* The environment. *)

\* Neovim writes the buffer; BufWritePost asks the sidecar to flush it.
EditorWrite ==
    /\ Spend("edit")
    /\ \E c \in EditContent : local_file' = c
    /\ flush_due' = TRUE
    /\ UNCHANGED <<remote, db, workers, history>>

\* Somebody else writes or removes the remote file.
ExternalWrite ==
    /\ Spend("external")
    /\ \E c \in ExternalContent \cup {NoHash} :
         /\ remote' = c
         /\ installed' = installed \cup ({c} \ {NoHash})
    /\ UNCHANGED <<local_file, db, flush_due, workers, seen, overwritten>>

\* The local mirror file is removed behind the sidecar's back.
DeleteLocal ==
    /\ Spend("delete")
    /\ local_file # NoHash
    /\ local_file' = NoHash
    /\ UNCHANGED <<remote, db, flush_due, workers, history>>

\* A snapshot file is lost or damaged on disk.
DamageSnapshot ==
    /\ Spend("damage")
    /\ \E i \in DOMAIN queue :
         /\ queue[i].snapshot
         /\ queue' = [queue EXCEPT ![i].snapshot = FALSE]
    /\ UNCHANGED <<remote, local_file, file, flush_due, workers, history>>

\* The sidecar dies: files, database and remote stay, threads and queued
\* requests are gone.  Neovim defers the flushes it had outstanding, or dies
\* too and forgets them.  An upload on the wire may still reach the agent.
Crash ==
    /\ Spend("crash")
    /\ flush_due' \in BOOLEAN
    /\ jobs' = <<>>
    /\ op' = [t \in Threads |-> IdleOp]
    /\ reader' = IdleReader
    /\ writer' = IdleWriter
    /\ \/ late' = late
       \/ /\ writer.pc = "wait"
          /\ late' = late \cup {[expected_hash |-> queue[writer.row].expected_hash,
                                 content |-> queue[writer.row].local_hash]}
    /\ UNCHANGED <<remote, local_file, db, history>>

-----------------------------------------------------------------------------
(* Integrity check and enqueue, on any of the three threads.               *)
(* sync_cached_file_integrity: the entry the caller read, then the file,   *)
(* then (when it changed) enqueue_save.  enqueue_local_save: the entry,    *)
(* the file, then enqueue_save.  enqueue_save: the base hash is queried    *)
(* and the snapshot written before its transaction starts.                 *)

HasLocalCopy(f) == f.state = "hydrated" /\ local_file # NoHash

Begin(t, kind) == op' = [op EXCEPT ![t] = [IdleOp EXCEPT !.pc = "read", !.kind = kind,
                                                        !.entry = file]]

BeginRestore(t, bytes) == op' = [op EXCEPT ![t] = [IdleOp EXCEPT !.pc = "restore",
                                                                 !.bytes = bytes]]

\* open of a cached file: a missing dirty file is first restored from the
\* snapshot of its latest replayable save (restore_latest_dirty_snapshot).
CachedOpen(t) ==
    /\ file.state = "hydrated"
    /\ \/ local_file # NoHash /\ Begin(t, "sync")
       \/ /\ local_file = NoHash /\ file.dirty
          /\ \E i \in LatestReplayable(queue) :
               queue[i].snapshot /\ BeginRestore(t, queue[i].local_hash)

\* enqueue_local_save_inner: what it refuses without an explicit adoption.
MayEnqueue(f, kind) ==
    \/ kind = "adopt"
    \/ /\ f.state # "untracked"
       /\ f.validation_state # "deleted"
       /\ ~(f.validation_state = "conflict" /\ f.remote_hash = NoHash)

CallerHash(o) ==
    IF o.kind = "adopt" /\ o.entry.validation_state = "deleted"
    THEN NoHash ELSE o.entry.remote_hash

\* Where the read-lane worker goes once a check has returned `entry`.
AfterSync(entry) ==
    [reader EXCEPT !.entry = entry,
        !.pc = IF reader.doing = "validate"
               THEN IF reader.pc = "check" /\ ~entry.dirty THEN "fetch" ELSE "verdict"
               ELSE IF entry.dirty THEN "idle"
               ELSE IF reader.pc = "check" THEN "fetch" ELSE "rename"]

\* The restored bytes replace whatever the path holds by now.
OpRestoreFile(t) ==
    /\ op[t].pc = "restore"
    /\ local_file' = op[t].bytes
    /\ op' = [op EXCEPT ![t] = [IdleOp EXCEPT !.pc = "reopen"]]
    /\ UNCHANGED <<remote, db, flush_due, jobs, reader, writer, late, budget, history>>

\* open then reads the entry again; a file that is gone once more is hydrated.
OpReopen(t) ==
    /\ op[t].pc = "reopen"
    /\ \/ local_file # NoHash /\ Begin(t, "sync") /\ UNCHANGED reader
       \/ /\ local_file = NoHash
          /\ op' = [op EXCEPT ![t] = IdleOp]
          /\ reader' = IF t = "read" THEN [reader EXCEPT !.pc = "fetch"] ELSE reader
    /\ UNCHANGED <<remote, local_file, db, flush_due, jobs, writer, late, budget, history>>

\* The file disappeared under the check, or the flush had nothing to read.
OpUnreadable(t) ==
    /\ op[t].pc \in {"read", "content"}
    /\ local_file = NoHash
    /\ op' = [op EXCEPT ![t] = IdleOp]
    /\ flush_due' = (flush_due \/ op[t].kind # "sync")
    /\ reader' = IF t = "read" THEN IdleReader ELSE reader
    /\ UNCHANGED <<remote, local_file, db, jobs, writer, late, budget, history>>

\* The bytes are the recorded ones.
OpClean(t) ==
    /\ op[t].pc = "read"
    /\ op[t].kind = "sync"
    /\ local_file # NoHash
    /\ local_file = op[t].entry.local_hash
    /\ op' = [op EXCEPT ![t] = IdleOp]
    /\ reader' = IF t = "read" THEN AfterSync(op[t].entry) ELSE reader
    /\ UNCHANGED <<remote, local_file, db, flush_due, jobs, writer, late, budget, history>>

\* hash_file differs from the recorded hash: the file is read again.
OpChanged(t) ==
    /\ op[t].pc = "read"
    /\ op[t].kind = "sync"
    /\ local_file \notin {NoHash, op[t].entry.local_hash}
    /\ op' = [op EXCEPT ![t].pc = "content"]
    /\ UNCHANGED <<remote, local_file, db, flush_due, jobs, reader, writer, late, budget,
                   history>>

\* After a change of its row a check reads the row again and returns that; only
\* the read-lane worker goes on with it.
Recheck(t, kind) ==
    op' = [op EXCEPT ![t] = IF t = "read" /\ kind = "sync" THEN [IdleOp EXCEPT !.pc = "reread"]
                                                           ELSE IdleOp]

\* The second read finds the recorded bytes after all: record_clean_local_hash.
OpRestored(t) ==
    /\ op[t].pc = "content"
    /\ local_file # NoHash
    /\ local_file = op[t].entry.local_hash
    /\ file' = IF file.dirty THEN file ELSE [file EXCEPT !.local_hash = local_file]
    /\ Recheck(t, "sync")
    /\ UNCHANGED <<remote, local_file, queue, flush_due, jobs, reader, writer, late, budget,
                   history>>

OpReadBytes(t) ==
    /\ \/ op[t].pc = "read" /\ op[t].kind # "sync"
       \/ op[t].pc = "content" /\ local_file # op[t].entry.local_hash
    /\ local_file # NoHash
    /\ op' = [op EXCEPT ![t] = [@ EXCEPT !.pc = "base", !.bytes = local_file]]
    /\ UNCHANGED <<remote, local_file, db, flush_due, jobs, reader, writer, late, budget,
                   history>>

OpReadBase(t) ==
    /\ op[t].pc = "base"
    /\ \E base \in BaseHashes(queue, CallerHash(op[t])) :
         op' = [op EXCEPT ![t] = [@ EXCEPT !.pc = "commit", !.base = base]]
    /\ UNCHANGED <<remote, local_file, db, flush_due, jobs, reader, writer, late, budget,
                   history>>

\* The snapshot is on disk; the transaction commits.  A flush prepared on the
\* request loop then becomes a flush_queued request, unless the lane is full;
\* a flush too large for the request loop is uploaded by the same handler.
OpCommit(t) ==
    /\ op[t].pc = "commit"
    /\ Len(queue) < MaxRows
    /\ file' = EnqueueFile(file, op[t].base, op[t].bytes)
    /\ queue' = EnqueueRow(queue, op[t].base, op[t].bytes)
    /\ seen' = seen \cup {op[t].bytes}
    /\ Recheck(t, op[t].kind)
    /\ jobs' \in IF t = "fast" /\ op[t].kind # "sync"
                 THEN {jobs, Append(jobs, Len(queue) + 1)} ELSE {jobs}
    /\ writer' = IF t = "write" /\ op[t].kind # "sync"
                 THEN [writer EXCEPT !.todo = {Len(queue) + 1}] ELSE writer
    /\ UNCHANGED <<remote, local_file, flush_due, reader, late, budget, installed, overwritten>>

\* The row is read again, by now with what the other threads made of it.
OpReread(t) ==
    /\ op[t].pc = "reread"
    /\ op' = [op EXCEPT ![t] = IdleOp]
    /\ reader' = IF t = "read" THEN AfterSync(file) ELSE reader
    /\ UNCHANGED <<remote, local_file, db, flush_due, jobs, writer, late, budget, history>>

ThreadStep(t) ==
    \/ OpRestoreFile(t) \/ OpReopen(t) \/ OpUnreadable(t) \/ OpClean(t) \/ OpChanged(t)
    \/ OpRestored(t) \/ OpReadBytes(t) \/ OpReadBase(t) \/ OpCommit(t) \/ OpReread(t)

OpStep == \E t \in Threads : ThreadStep(t)

-----------------------------------------------------------------------------
(* The request loop. *)

\* FastState::prepare_flush (flush and adopt requests).
PrepareFlush ==
    /\ flush_due
    /\ op["fast"].pc = "idle"
    /\ \E kind \in {"flush", "adopt"} : MayEnqueue(file, kind) /\ Begin("fast", kind)
    /\ flush_due' = FALSE
    /\ UNCHANGED <<remote, local_file, db, jobs, reader, writer, late, budget, history>>

\* prepare_flush of a file above FAST_FLUSH_SNAPSHOT_MAX_BYTES: the request goes
\* to the write lane as it is.  When the lane is full it is refused with an error,
\* Neovim defers the flush, and nothing changes.
PassOnLargeFlush ==
    /\ flush_due
    /\ op["fast"].pc = "idle"
    /\ local_file # NoHash
    /\ jobs' = Append(jobs, 0)
    /\ flush_due' = FALSE
    /\ UNCHANGED <<remote, local_file, db, op, reader, writer, late, budget, history>>

\* FastState::try_open of a cached file.
TryOpen ==
    /\ Spend("open")
    /\ op["fast"].pc = "idle"
    /\ CachedOpen("fast")
    /\ UNCHANGED <<remote, local_file, db, flush_due, jobs, reader, writer, late, history>>

-----------------------------------------------------------------------------
(* The read-lane worker. *)

\* scan: upsert_metadata of a path the remote has.
ScanMetadata ==
    /\ Spend("scan")
    /\ reader.pc = "idle"
    /\ remote # NoHash
    /\ file' = UpsertMetadata(file)
    /\ UNCHANGED <<remote, local_file, queue, flush_due, workers, history>>

\* open (uncached or forced), prefetch, prefetch_known, grep with hydration:
\* a cached copy is checked first, and a dirty one is left alone.
HydrateStart ==
    /\ Spend("hydrate")
    /\ reader.pc = "idle"
    /\ \/ /\ CachedOpen("read")
          /\ reader' = [IdleReader EXCEPT !.pc = "check"]
       \/ /\ ~HasLocalCopy(file)
          /\ file.state = "hydrated" => ~file.dirty
          /\ reader' = [IdleReader EXCEPT !.pc = "fetch"]
          /\ UNCHANGED op
    /\ UNCHANGED <<remote, local_file, db, flush_due, jobs, writer, late, history>>

\* validate checks a cached copy and skips a dirty one before it asks; refresh
\* asks at once.
ValidateStart ==
    /\ Spend("validate")
    /\ reader.pc = "idle"
    /\ file.state # "untracked"
    /\ \/ /\ HasLocalCopy(file)
          /\ Begin("read", "sync")
          /\ reader' = [IdleReader EXCEPT !.pc = "check", !.doing = "validate"]
       \/ /\ ~HasLocalCopy(file)
          /\ reader' = [IdleReader EXCEPT !.doing = "validate", !.entry = file,
                            !.pc = IF file.dirty THEN "verdict" ELSE "fetch"]
          /\ UNCHANGED op
       \/ /\ reader' = [IdleReader EXCEPT !.pc = "fetch", !.doing = "validate"]
          /\ UNCHANGED op
    /\ UNCHANGED <<remote, local_file, db, flush_due, jobs, writer, late, history>>

\* The agent answers with the bytes (ReadFile, ReadFiles) or the hash
\* (ValidateFiles) the remote file has now.
ReaderFetch ==
    /\ reader.pc = "fetch"
    /\ reader.doing = "hydrate" => remote # NoHash
    /\ reader' = [reader EXCEPT !.pc = "answered", !.bytes = remote]
    /\ UNCHANGED <<remote, local_file, db, flush_due, jobs, op, writer, late, budget, history>>

\* Preempted, unreachable, truncated or changed while it was read; validation
\* records an agent error.
ReaderAbort ==
    /\ reader.pc \in {"fetch", "answered"}
    /\ reader' = IdleReader
    /\ \/ UNCHANGED file
       \/ /\ reader.doing = "validate"
          /\ file.state # "untracked"
          /\ file' = [file EXCEPT !.validation_state = "error"]
    /\ UNCHANGED <<remote, local_file, queue, flush_due, jobs, op, writer, late, budget, history>>

\* prepare_hydration_target / the second entry read of record_validation_file.
\* An unmanaged or metadata-only file that already has the bytes is adopted.
ReaderTarget ==
    /\ reader.pc = "answered"
    /\ IF HasLocalCopy(file)
       THEN /\ Begin("read", "sync")
            /\ reader' = [reader EXCEPT !.pc = "target"]
       ELSE /\ UNCHANGED op
            /\ reader' = [reader EXCEPT !.entry = file, !.pc =
                  CASE reader.doing = "validate" -> "verdict"
                    [] reader.doing = "hydrate" /\ file.dirty -> "idle"
                    [] reader.doing = "hydrate" /\ ~file.dirty /\ local_file = NoHash -> "rename"
                    [] OTHER -> IF local_file = reader.bytes THEN "record" ELSE "idle"]
    /\ UNCHANGED <<remote, local_file, db, flush_due, jobs, writer, late, budget, history>>

\* rename_durable of the part file over the mirror file.
ReaderRename ==
    /\ reader.pc = "rename"
    /\ local_file' = reader.bytes
    /\ reader' = [reader EXCEPT !.pc = "record"]
    /\ UNCHANGED <<remote, db, flush_due, jobs, op, writer, late, budget, history>>

\* Mutant: the hash recorded is the one the remote has when it is recorded.
RecordsCurrentHash ==
    /\ reader.pc = "record"
    /\ file' = RecordHydrated(remote)
    /\ seen' = seen \cup {reader.bytes}
    /\ reader' = IdleReader
    /\ UNCHANGED <<remote, local_file, queue, flush_due, jobs, op, writer, late, budget,
                   installed, overwritten>>

ReaderRecord ==
    /\ reader.pc = "record"
    /\ file' = RecordHydrated(reader.bytes)
    /\ seen' = seen \cup {reader.bytes}
    /\ reader' = IdleReader
    /\ UNCHANGED <<remote, local_file, queue, flush_due, jobs, op, writer, late, budget,
                   installed, overwritten>>

ReaderVerdict ==
    /\ reader.pc = "verdict"
    /\ file' = RecordValidation(file, Verdict(reader.entry, reader.bytes),
                                RecordedHash(reader.entry, reader.bytes))
    /\ reader' = IdleReader
    /\ UNCHANGED <<remote, local_file, queue, flush_due, jobs, op, writer, late, budget, history>>

ReadLane == \/ ScanMetadata \/ HydrateStart \/ ValidateStart \/ ReaderFetch \/ ReaderAbort
            \/ ReaderTarget \/ ReaderRename \/ ReaderRecord \/ ReaderVerdict

-----------------------------------------------------------------------------
(* The write-lane worker: one request at a time. *)

WriterFree == writer.pc = "idle" /\ writer.todo = {} /\ op["write"].pc = "idle"

\* flush and adopt, of a file prepare_flush passed on.
FlushLarge ==
    /\ WriterFree
    /\ jobs # <<>> /\ Head(jobs) = 0
    /\ jobs' = Tail(jobs)
    /\ \E kind \in {"flush", "adopt"} : MayEnqueue(file, kind) /\ Begin("write", kind)
    /\ UNCHANGED <<remote, local_file, db, flush_due, reader, writer, late, budget, history>>

\* recover_local_edits.
RecoverLocalEdits ==
    /\ Spend("recover")
    /\ WriterFree
    /\ HasLocalCopy(file)
    /\ Begin("write", "sync")
    /\ UNCHANGED <<remote, local_file, db, flush_due, jobs, reader, writer, late, history>>

\* Mutant: flush_queued uploads its row whatever became of it.
FlushAnyQueued ==
    /\ WriterFree
    /\ jobs # <<>> /\ Head(jobs) # 0
    /\ jobs' = Tail(jobs)
    /\ writer' = [writer EXCEPT !.todo = {Head(jobs)}]
    /\ UNCHANGED <<remote, local_file, db, flush_due, op, reader, late, budget, history>>

\* flush_queued: refused unless its row is still to be uploaded.
FlushQueued ==
    /\ WriterFree
    /\ jobs # <<>> /\ Head(jobs) # 0
    /\ jobs' = Tail(jobs)
    /\ writer' = [writer EXCEPT !.todo = {Head(jobs)} \cap ReplayableIds(queue)]
    /\ UNCHANGED <<remote, local_file, db, flush_due, op, reader, late, budget, history>>

\* flush_queue: the oldest rows still to be uploaded, up to its limit.
FlushQueue ==
    /\ WriterFree
    /\ \E ids \in SUBSET ReplayableIds(queue) :
         /\ ids # {}
         /\ \A i \in ids, j \in ReplayableIds(queue) \ ids : i < j
         /\ writer' = [writer EXCEPT !.todo = ids]
    /\ UNCHANGED <<remote, local_file, db, flush_due, jobs, op, reader, late, budget, history>>

Row == queue[writer.row]
NextRows == {i \in writer.todo : \A j \in writer.todo : i <= j}

\* Mutant: an unusable snapshot ends the whole request.
UnusableEndsReplay ==
    /\ writer.pc = "idle"
    /\ \E i \in NextRows :
         /\ ~queue[i].snapshot
         /\ queue' = MarkFailedRow(queue, i)
         /\ writer' = IdleWriter
    /\ UNCHANGED <<remote, local_file, file, flush_due, jobs, op, reader, late, budget, history>>

\* apply_save_entry with a missing or damaged snapshot; replay goes on.
SnapshotUnusable ==
    /\ writer.pc = "idle"
    /\ \E i \in NextRows :
         /\ ~queue[i].snapshot
         /\ queue' = MarkFailedRow(queue, i)
         /\ writer' = [IdleWriter EXCEPT !.todo = writer.todo \ {i}]
    /\ UNCHANGED <<remote, local_file, file, flush_due, jobs, op, reader, late, budget, history>>

\* The agent cannot be reached: nothing was sent, and replay stops.
AgentUnreachable ==
    /\ Spend("loss")
    /\ writer.pc = "idle"
    /\ \E i \in NextRows :
         /\ queue[i].snapshot
         /\ queue' = MarkFailedRow(queue, i)
         /\ writer' = IdleWriter
    /\ UNCHANGED <<remote, local_file, file, flush_due, jobs, op, reader, late, history>>

SendUpload ==
    /\ writer.pc = "idle"
    /\ \E i \in NextRows :
         /\ queue[i].snapshot
         /\ writer' = [writer EXCEPT !.pc = "wait", !.row = i]
    /\ UNCHANGED <<remote, local_file, db, flush_due, jobs, op, reader, late, budget, history>>

\* The request failed under the sidecar: before or after the agent ran it, or
\* with the request still on its way.  The row is failed and replay stops.
UploadLost ==
    /\ Spend("loss")
    /\ writer.pc \in {"wait", "reply"}
    /\ queue' = MarkFailedRow(queue, writer.row)
    /\ writer' = IdleWriter
    /\ \/ late' = late
       \/ /\ writer.pc = "wait"
          /\ late' = late \cup {[expected_hash |-> Row.expected_hash,
                                 content |-> Row.local_hash]}
    /\ UNCHANGED <<remote, local_file, file, flush_due, jobs, op, reader, history>>

\* Mutant: every conflict is taken for the save's own earlier upload.
AnyConflictIsOwn == writer.pc = "reply"

\* The upload went through, or the remote already holds the bytes of this save.
Landed == writer.outcome = "applied" \/ writer.actual = Row.local_hash

\* record_save_outcome.
RecordOutcome ==
    /\ writer.pc = "reply"
    /\ \/ /\ Landed
          /\ queue' = MarkAppliedRow(queue, writer.row)
          /\ file' = MarkAppliedFile(file, queue, writer.row, Row.local_hash)
          /\ UNCHANGED seen
       \/ /\ ~Landed
          /\ queue' = RecordConflictRow(queue, writer.row, writer.actual, writer.copy)
          /\ file' = RecordConflictFile(file, writer.actual)
          /\ seen' = seen \cup ({writer.actual} \ {NoHash})
    /\ writer' = [IdleWriter EXCEPT !.todo = writer.todo \ {writer.row}]
    /\ UNCHANGED <<remote, local_file, flush_due, jobs, op, reader, late, budget,
                   installed, overwritten>>

-----------------------------------------------------------------------------
(* Conflict resolution, on the write lane. *)

\* Both commands: the row is a conflict and nothing newer is unresolved.
Resolvable(i) == queue[i].state = "conflict" /\ NewerUnresolved(queue, i) = {}

AcceptLocalCheck ==
    /\ Spend("accept")
    /\ WriterFree
    /\ \E i \in DOMAIN queue :
         /\ Resolvable(i) /\ queue[i].snapshot
         /\ writer' = [writer EXCEPT !.pc = "accept_local", !.row = i]
    /\ UNCHANGED <<remote, local_file, db, flush_due, jobs, op, reader, late, history>>

AcceptLocalCommit ==
    /\ writer.pc = "accept_local"
    /\ queue' = PrepareAcceptLocal(queue, writer.row)
    /\ writer' = [IdleWriter EXCEPT !.todo = {writer.row}]
    /\ UNCHANGED <<remote, local_file, file, flush_due, jobs, op, reader, late, budget, history>>

AcceptRemoteCheck ==
    /\ Spend("accept")
    /\ WriterFree
    /\ \E i \in DOMAIN queue :
         /\ Resolvable(i)
         /\ queue[i].copy = "full" /\ queue[i].actual_hash # NoHash
         /\ writer' = [writer EXCEPT !.pc = "accept_hash", !.row = i]
    /\ UNCHANGED <<remote, local_file, db, flush_due, jobs, op, reader, late, history>>

\* The local file must still hold the bytes of the conflict.
AcceptRemoteHash ==
    /\ writer.pc = "accept_hash"
    /\ writer' = IF local_file = Row.local_hash THEN [writer EXCEPT !.pc = "accept_remote"]
                                                ELSE IdleWriter
    /\ UNCHANGED <<remote, local_file, db, flush_due, jobs, op, reader, late, budget, history>>

AcceptRemoteWrite ==
    /\ writer.pc = "accept_remote"
    /\ local_file' = Row.actual_hash
    /\ writer' = [writer EXCEPT !.pc = "accepted"]
    /\ UNCHANGED <<remote, db, flush_due, jobs, op, reader, late, budget, history>>

\* Mutant: the transaction leaves the dirty flag of the file alone.
AcceptedStaysDirty ==
    /\ writer.pc = "accepted"
    /\ queue' = ResolveRemote(queue, writer.row)
    /\ file' = [file EXCEPT !.remote_hash = Row.actual_hash, !.local_hash = Row.actual_hash]
    /\ writer' = IdleWriter
    /\ UNCHANGED <<remote, local_file, flush_due, jobs, op, reader, late, budget, history>>

AcceptRemoteCommit ==
    /\ writer.pc = "accepted"
    /\ queue' = ResolveRemote(queue, writer.row)
    /\ file' = RecordHydrated(Row.actual_hash)
    /\ writer' = IdleWriter
    /\ UNCHANGED <<remote, local_file, flush_due, jobs, op, reader, late, budget, history>>

WriteLane == \/ FlushLarge \/ RecoverLocalEdits \/ FlushQueued \/ FlushQueue
             \/ SnapshotUnusable \/ AgentUnreachable \/ SendUpload \/ UploadLost
             \/ RecordOutcome \/ AcceptLocalCheck \/ AcceptLocalCommit
             \/ AcceptRemoteCheck \/ AcceptRemoteHash \/ AcceptRemoteWrite
             \/ AcceptRemoteCommit

-----------------------------------------------------------------------------
(* The agent. *)

\* write_file_cas_state under its write lock: the rename, or the conflict
\* report with as much of the remote file as save_conflict returns.
Install(expected, content) ==
    /\ remote = expected
    /\ remote' = content
    /\ installed' = installed \cup {content}
    /\ overwritten' = overwritten \cup {remote}

AgentCas ==
    /\ writer.pc = "wait"
    /\ \/ /\ Install(Row.expected_hash, Row.local_hash)
          /\ writer' = [writer EXCEPT !.pc = "reply", !.outcome = "applied"]
       \/ /\ remote # Row.expected_hash
          /\ \E copy \in IF remote = NoHash THEN {"none"} ELSE {"full", "partial"} :
               writer' = [writer EXCEPT !.pc = "reply", !.outcome = "conflict",
                                        !.actual = remote, !.copy = copy]
          /\ UNCHANGED <<remote, installed, overwritten>>
    /\ UNCHANGED <<local_file, db, flush_due, jobs, op, reader, late, budget, seen>>

\* Mutant: an upload that arrives late is not compared with the remote hash.
LateUnchecked ==
    /\ \E u \in late : late' = late \ {u} /\ Install(remote, u.content)
    /\ UNCHANGED <<local_file, db, flush_due, jobs, op, reader, writer, budget, seen>>

\* An upload the sidecar has given up on reaches the agent.
AgentCasLate ==
    /\ \E u \in late :
         /\ late' = late \ {u}
         /\ \/ Install(u.expected_hash, u.content)
            \/ /\ remote # u.expected_hash
               /\ UNCHANGED <<remote, installed, overwritten>>
    /\ UNCHANGED <<local_file, db, flush_due, jobs, op, reader, writer, budget, seen>>

-----------------------------------------------------------------------------
Environment == EditorWrite \/ ExternalWrite \/ DeleteLocal \/ DamageSnapshot \/ Crash

Next == \/ Environment \/ OpStep \/ PrepareFlush \/ PassOnLargeFlush \/ TryOpen
        \/ ReadLane \/ WriteLane \/ AgentCas \/ AgentCasLate

Spec == Init /\ [][Next]_vars

\* The threads run to the end of what they started, the agent answers or the
\* request is given up, and a request waiting on the write lane is picked up:
\* the lane is a queue, so other requests do not pass it for ever.  Nothing is
\* assumed of what starts work: edits, other writers, commands, connections.
Fairness ==
    /\ \A t \in Threads : WF_vars(ThreadStep(t))
    /\ WF_vars(ReaderFetch \/ ReaderAbort \/ ReaderTarget \/ ReaderRename \/ ReaderRecord
               \/ ReaderVerdict)
    /\ WF_vars(SnapshotUnusable \/ SendUpload \/ AgentCas \/ RecordOutcome \/ AcceptLocalCommit
               \/ AcceptRemoteHash \/ AcceptRemoteWrite \/ AcceptRemoteCommit)
    /\ SF_vars(FlushLarge \/ FlushQueued)

FairSpec == Spec /\ Fairness

-----------------------------------------------------------------------------
(* Safety. *)

\* An uploaded save never replaces remote content the mirror has not hydrated,
\* saved itself or shown as a conflict (WriteFileCas against expected_hash).
NoBlindOverwrite == overwritten \subseteq seen \cup {NoHash}

\* files.remote_hash is always a hash the remote file has really had, never the
\* hash of a save that is still to be uploaded.
RemoteHashIsReal == file.remote_hash \in installed \cup {NoHash}

\* A row marked applied was on the remote at some time, also when the reply to
\* its upload was lost and a later attempt met its own bytes as a conflict.
AppliedWasInstalled ==
    \A i \in DOMAIN queue : queue[i].state = "applied" => queue[i].local_hash \in installed

\* A file marked dirty has a save in the queue that is still to be uploaded or
\* resolved: hydration, validation and refresh skip dirty files for its sake.
DirtyHasSave ==
    file.dirty => \E i \in DOMAIN queue : queue[i].state \in Unresolved

\* Rows stay in the queue with the bytes they were saved with, and a row that
\* is applied, superseded or resolved is never uploaded or reopened again.
ClosedStaysClosed ==
    [][\A i \in DOMAIN queue :
          /\ i \in DOMAIN queue'
          /\ queue'[i].local_hash = queue[i].local_hash
          /\ queue[i].state \in Closed => queue'[i].state = queue[i].state]_vars

-----------------------------------------------------------------------------
(* What makes the safety properties inductive. *)

Known == seen \cup {NoHash}
Real == installed \cup {NoHash}

\* What each program counter says about the values it carries.
CarriedOK ==
    /\ \A t \in Threads : op[t].pc \in {"restore", "base", "commit"} => op[t].bytes \in Content
    /\ reader.doing = "hydrate" /\ reader.pc \in {"answered", "target", "rename", "record"}
          => reader.bytes \in Content
    /\ reader.pc \in {"rename", "record"} => reader.doing = "hydrate"
    /\ op["read"].pc # "idle" => reader.pc \in {"check", "target"}

\* The write lane does one thing at a time, on rows that are open: rows chosen
\* for upload stay replayable, and a conflict being resolved stays a conflict,
\* until the lane itself changes them.
LaneOK ==
    /\ writer.todo \subseteq ReplayableIds(queue)
    /\ writer.pc \in {"wait", "reply"} => writer.row \in writer.todo
    /\ writer.pc \in {"accept_local", "accept_hash", "accept_remote", "accepted"} =>
          /\ writer.todo = {}
          /\ writer.row \in DOMAIN queue
          /\ Row.state = "conflict"
    /\ op["write"].pc # "idle" => writer.pc = "idle" /\ writer.todo = {}

\* Every hash an upload may be compared with has been seen by the mirror.
KnownOK ==
    /\ file.remote_hash \in Known
    /\ \A i \in DOMAIN queue :
          queue[i].expected_hash \in Known /\ queue[i].actual_hash \in Known
          /\ queue[i].local_hash \in seen
    /\ \A t \in Threads : op[t].entry.remote_hash \in Known /\ op[t].base \in Known
    /\ reader.entry.remote_hash \in Known
    /\ \A u \in late : u.expected_hash \in Known

\* Every hash recorded for the remote has been on the remote; the base of a save
\* in preparation has been, or is the bytes of a row of the queue.
RealOK ==
    /\ remote \in Real /\ reader.bytes \in Real /\ writer.actual \in Real
    /\ reader.entry.remote_hash \in Real
    /\ file.state = "untracked" => queue = <<>>
    /\ \A i \in DOMAIN queue : queue[i].actual_hash \in Real
    /\ \A t \in Threads :
          /\ op[t].entry.remote_hash \in Real
          /\ op[t].base \in Real \/ queue # <<>>
    /\ writer.pc = "reply" /\ writer.outcome = "applied" => Row.local_hash \in installed

-----------------------------------------------------------------------------
(* What the documentation says and the code does not keep. *)

\* "`conflict` | Remote changed before upload": no save of a tracked file
\* becomes a conflict while nobody else writes the remote file.
ConflictMeansRemoteChanged ==
    (\E i \in DOMAIN queue : queue[i].state = "conflict" /\ queue[i].expected_hash # NoHash)
        => \E b \in Budgets : budget["external"] < b["external"]

\* "Dirty cached files are not overwritten": only Neovim, or a deletion behind
\* the sidecar's back, replaces local bytes that have not been queued.
EditsAreNotOverwritten ==
    [][(/\ file.state = "hydrated" /\ local_file' # local_file
        /\ budget'["edit"] = budget["edit"] /\ budget'["delete"] = budget["delete"])
          => local_file \in seen \cup {NoHash}]_vars

\* "The command refuses ... stale queue rows when newer unresolved saves
\* exist": the local file is not replaced by a conflict copy past a newer save.
AcceptRemoteIsNotStale ==
    writer.pc = "accepted" => NewerUnresolved(queue, writer.row) = {}

\* "The next resolved save compares against the remote hash that caused the
\* conflict, not an older base hash".
NextSaveIsRebased ==
    \A t \in Threads :
        (/\ op[t].pc = "commit" /\ op[t].kind = "flush"
         /\ op[t].entry.validation_state = "conflict"
         /\ queue[Len(queue)].state = "conflict"
         /\ queue[Len(queue)].actual_hash = op[t].entry.remote_hash)
            => op[t].base = queue[Len(queue)].actual_hash
=============================================================================
