-------------------------- MODULE SaveMirrorSafety --------------------------
(* The safety properties of SaveMirror, for every set of contents, bound and *)
(* budget, on top of the types and the lane discipline of SaveMirrorProofs.  *)
EXTENDS SaveMirrorProofs

-----------------------------------------------------------------------------
(* What the statements of MirrorStore do to the hashes they keep. *)

\* Marking a row applied or failed changes no hash of any row.
LEMMA MarkedHashes ==
    ASSUME NEW q \in Seq(SaveRow), NEW id \in DOMAIN q, NEW i \in DOMAIN q,
           NEW r \in {MarkAppliedRow(q, id), MarkFailedRow(q, id)}
    PROVE  /\ r[i].local_hash = q[i].local_hash
           /\ r[i].expected_hash = q[i].expected_hash
           /\ r[i].actual_hash = q[i].actual_hash
  <1>1. CASE i = id
    BY <1>1, OwnRow
  <1>2. CASE i # id
    BY <1>2, OtherRows
  <1> QED
    BY <1>1, <1>2

\* record_save_conflict stores the hash the agent reported, and only that.
LEMMA ConflictHashes ==
    ASSUME NEW q \in Seq(SaveRow), NEW id \in DOMAIN q, NEW i \in DOMAIN q, NEW actual, NEW copy
    PROVE  /\ RecordConflictRow(q, id, actual, copy)[i].local_hash = q[i].local_hash
           /\ RecordConflictRow(q, id, actual, copy)[i].expected_hash = q[i].expected_hash
           /\ RecordConflictRow(q, id, actual, copy)[i].actual_hash \in {q[i].actual_hash, actual}
  <1>1. CASE i = id
    BY <1>1, OwnRow
  <1>2. CASE i # id
    BY <1>2, OtherRows
  <1> QED
    BY <1>1, <1>2

\* The transactions of the conflict commands only move hashes within a row.
LEMMA ResolvedHashes ==
    ASSUME NEW q \in Seq(SaveRow), NEW id, NEW i \in DOMAIN q
    PROVE  /\ PrepareAcceptLocal(q, id)[i].local_hash = q[i].local_hash
           /\ PrepareAcceptLocal(q, id)[i].expected_hash \in {q[i].expected_hash, q[i].actual_hash}
           /\ PrepareAcceptLocal(q, id)[i].actual_hash \in {q[i].actual_hash, NoHash}
           /\ ResolveRemote(q, id)[i].local_hash = q[i].local_hash
           /\ ResolveRemote(q, id)[i].expected_hash = q[i].expected_hash
           /\ ResolveRemote(q, id)[i].actual_hash = q[i].actual_hash
  <1> DEFINE r == q[i]
  <1>1. r \in SaveRow
    OBVIOUS
  <1>2. \/ PrepareAcceptLocal(q, id)[i] = r
        \/ PrepareAcceptLocal(q, id)[i] = [r EXCEPT !.state = "superseded"]
        \/ PrepareAcceptLocal(q, id)[i]
             = [r EXCEPT !.state = "pending", !.expected_hash = r.actual_hash,
                         !.actual_hash = NoHash, !.copy = "none"]
    BY DEF PrepareAcceptLocal
  <1>3. \/ ResolveRemote(q, id)[i] = r
        \/ ResolveRemote(q, id)[i] = [r EXCEPT !.state = "resolved_remote"]
    BY DEF ResolveRemote
  <1>4. q[i] = r
    OBVIOUS
  <1> HIDE DEF r
  <1> QED
    BY <1>1, <1>2, <1>3, <1>4 DEF SaveRow

\* A check or enqueue that starts carries the row of files, one that ends nothing.
LEMMA OpHashes ==
    ASSUME TypeOK, NEW t \in Threads, NEW kind,
           \/ Begin(t, kind) \/ CachedOpen(t) \/ Recheck(t, kind)
           \/ op' = [op EXCEPT ![t] = [IdleOp EXCEPT !.pc = "reopen"]]
           \/ op' = [op EXCEPT ![t] = IdleOp]
    PROVE  \A u \in Threads :
              /\ op'[u].entry.remote_hash \in {op[u].entry.remote_hash, file.remote_hash, NoHash}
              /\ op'[u].base \in {op[u].base, NoHash}
  <1>1. CASE Begin(t, kind)
    BY <1>1, OpBegins
  <1>2. CASE op' = [op EXCEPT ![t] = IdleOp]
    BY <1>2, OpEnds DEF IdleOp, NoFileRow
  <1>3. CASE CachedOpen(t)
    BY <1>3, OpenType DEF NoFileRow
  <1>4. CASE Recheck(t, kind)
    BY <1>4, RecheckType DEF NoFileRow
  <1>5. CASE op' = [op EXCEPT ![t] = [IdleOp EXCEPT !.pc = "reopen"]]
    BY <1>5 DEF TypeOK, IdleOp, NoFileRow
  <1> QED
    BY <1>1, <1>2, <1>3, <1>4, <1>5

\* The entry a finished check hands to the read-lane worker.
LEMMA AfterSyncEntry ==
    ASSUME TypeOK, NEW entry
    PROVE  AfterSync(entry).entry = entry /\ AfterSync(entry).bytes = reader.bytes
  BY DEF TypeOK, AfterSync, Reader

\* upsert_metadata leaves the remote hash alone;
LEMMA UpsertedHash ==
    ASSUME NEW f \in FileRow
    PROVE  UpsertMetadata(f).remote_hash = f.remote_hash
  BY DEF UpsertMetadata, FileRow

\* enqueue_save sets it only for a path without a row;
LEMMA EnqueuedFileHash ==
    ASSUME NEW f \in FileRow, NEW base, NEW bytes
    PROVE  /\ f.state # "untracked" => EnqueueFile(f, base, bytes).remote_hash = f.remote_hash
           /\ EnqueueFile(f, base, bytes).remote_hash \in {f.remote_hash, base}
  BY DEF EnqueueFile, FileRow

\* mark_save_applied and record_save_conflict set it to what the agent reported;
LEMMA OutcomeFileHash ==
    ASSUME NEW f \in FileRow, NEW q, NEW id, NEW hash
    PROVE  /\ MarkAppliedFile(f, q, id, hash).remote_hash \in {f.remote_hash, hash}
           /\ RecordConflictFile(f, hash).remote_hash \in {f.remote_hash, hash}
  BY DEF MarkAppliedFile, RecordHydrated, RecordConflictFile, FileRow

\* record_validation_file sets it to the hash of the entry the answer was judged with.
LEMMA VerdictFileHash ==
    ASSUME NEW f \in FileRow, NEW entry \in FileRow, NEW hash
    PROVE  RecordValidation(f, Verdict(entry, hash), RecordedHash(entry, hash)).remote_hash
             \in {f.remote_hash, entry.remote_hash}
  BY DEF RecordValidation, Verdict, RecordedHash, FileRow

-----------------------------------------------------------------------------
(* No blind overwrite. *)

\* Every step compares uploads with hashes the mirror has seen.
LEMMA KnownStep ==
    ASSUME Base, KnownOK, Next PROVE KnownOK'
  <1> USE DEF Base, Known
  <1>1. CASE EditorWrite
    BY <1>1 DEF EditorWrite, KnownOK, db, workers, history
  <1>2. CASE ExternalWrite
    BY <1>2 DEF ExternalWrite, KnownOK, db, workers
  <1>3. CASE DeleteLocal
    BY <1>3 DEF DeleteLocal, KnownOK, db, workers, history
  <1>4. CASE DamageSnapshot
    BY <1>4 DEF DamageSnapshot, KnownOK, workers, history
  <1>5. CASE Crash
    <2>1. UNCHANGED <<file, queue, seen>>
      BY <1>5 DEF Crash, db, history
    <2>2. \A t \in Threads : op'[t].entry.remote_hash = NoHash /\ op'[t].base = NoHash
      BY <1>5 DEF Crash, IdleOp, NoFileRow
    <2>3. reader'.entry.remote_hash = NoHash
      BY <1>5 DEF Crash, IdleReader, NoFileRow
    <2>4. \A u \in late' : u.expected_hash \in Known
      <3>1. writer.pc = "wait" => writer.row \in DOMAIN queue
        BY DEF LaneOK, ReplayableIds
      <3> QED
        BY <1>5, <3>1 DEF Crash, KnownOK
    <2> QED
      BY <2>1, <2>2, <2>3, <2>4 DEF KnownOK
  <1>6. ASSUME NEW t \in Threads, OpUnreadable(t) PROVE KnownOK'
    <2>1. UNCHANGED <<file, queue, late, seen>>
      BY <1>6 DEF OpUnreadable, db, history
    <2>2. op' = [op EXCEPT ![t] = IdleOp]
      BY <1>6 DEF OpUnreadable
    <2>3. \A u \in Threads : op'[u].entry.remote_hash \in Known /\ op'[u].base \in Known
      BY <2>2, OpHashes DEF KnownOK
    <2>4. reader'.entry.remote_hash \in Known
      BY <1>6, AfterSyncEntry DEF OpUnreadable, KnownOK, IdleReader, NoFileRow
    <2> QED
      BY <2>1, <2>3, <2>4 DEF KnownOK
  <1>7. ASSUME NEW t \in Threads, OpClean(t) PROVE KnownOK'
    <2>1. UNCHANGED <<file, queue, late, seen>>
      BY <1>7 DEF OpClean, db, history
    <2>2. op' = [op EXCEPT ![t] = IdleOp]
      BY <1>7 DEF OpClean
    <2>3. \A u \in Threads : op'[u].entry.remote_hash \in Known /\ op'[u].base \in Known
      BY <2>2, OpHashes DEF KnownOK
    <2>4. reader'.entry.remote_hash \in Known
      BY <1>7, AfterSyncEntry DEF OpClean, KnownOK, IdleReader, NoFileRow
    <2> QED
      BY <2>1, <2>3, <2>4 DEF KnownOK
  <1>8. ASSUME NEW t \in Threads, OpChanged(t) PROVE KnownOK'
    BY <1>8 DEF OpChanged, KnownOK, db, history, TypeOK, Threads, Op
  <1>9. ASSUME NEW t \in Threads, OpRestored(t) PROVE KnownOK'
    <2>1. UNCHANGED <<queue, reader, late, seen>> /\ file'.remote_hash = file.remote_hash
      BY <1>9 DEF OpRestored, history, TypeOK, FileRow
    <2>2. \A u \in Threads : op'[u].entry.remote_hash \in Known /\ op'[u].base \in Known
      BY <1>9, OpHashes DEF OpRestored, KnownOK
    <2> QED
      BY <2>1, <2>2 DEF KnownOK
  <1>10. ASSUME NEW t \in Threads, OpReadBytes(t) PROVE KnownOK'
    BY <1>10 DEF OpReadBytes, KnownOK, db, history, TypeOK, Threads, Op
  <1>11. ASSUME NEW t \in Threads, OpReadBase(t) PROVE KnownOK'
    <2>1. PICK base \in BaseHashes(queue, CallerHash(op[t])) :
             op' = [op EXCEPT ![t] = [op[t] EXCEPT !.pc = "commit", !.base = base]]
      BY <1>11 DEF OpReadBase
    <2>2. base \in Known
      <3>1. CallerHash(op[t]) \in Known
        BY DEF CallerHash, KnownOK
      <3>2. \A i \in LatestReplayable(queue) : queue[i].local_hash \in Known
        BY DEF LatestReplayable, ReplayableIds, KnownOK
      <3> QED
        BY <2>1, <3>1, <3>2 DEF BaseHashes
    <2>3. /\ op'[t].entry = op[t].entry /\ op'[t].base = base
          /\ \A u \in Threads \ {t} : op'[u] = op[u]
      BY <2>1 DEF TypeOK, Op
    <2>4. UNCHANGED <<file, queue, reader, late, seen>>
      BY <1>11 DEF OpReadBase, db, history
    <2> QED
      BY <2>2, <2>3, <2>4 DEF KnownOK
  <1>12. ASSUME NEW t \in Threads, OpCommit(t) PROVE KnownOK'
    <2> DEFINE base == op[t].base
               bytes == op[t].bytes
    <2>1. base \in Known /\ base \in Hash /\ bytes \in Content
      BY <1>12 DEF OpCommit, KnownOK, TypeOK, CarriedOK, Op
    <2>2. seen' = seen \cup {bytes} /\ late' = late
      BY <1>12 DEF OpCommit
    <2>3. file'.remote_hash \in Known
      BY <1>12, <2>1, EnqueuedFileHash DEF OpCommit, KnownOK, TypeOK
    <2>4. \A i \in DOMAIN queue' : /\ queue'[i].expected_hash \in Known
                                   /\ queue'[i].actual_hash \in Known
                                   /\ queue'[i].local_hash \in seen'
      <3> DEFINE q == EnqueueRow(queue, base, bytes)
      <3>1. DOMAIN q = DOMAIN queue \cup {Len(queue) + 1}
        BY <2>1, EnqueuedRow DEF TypeOK
      <3>2. /\ \A i \in DOMAIN queue : q[i] = queue[i]
            /\ q[Len(queue) + 1].expected_hash = base
            /\ q[Len(queue) + 1].local_hash = bytes
            /\ q[Len(queue) + 1].actual_hash = NoHash
        BY EnqueuedFields DEF TypeOK
      <3>3. queue' = q
        BY <1>12 DEF OpCommit
      <3> HIDE DEF q, base, bytes
      <3> QED
        BY <2>1, <2>2, <3>1, <3>2, <3>3 DEF KnownOK
    <2>5. \A u \in Threads : op'[u].entry.remote_hash \in Known /\ op'[u].base \in Known
      BY <1>12, OpHashes DEF OpCommit, KnownOK
    <2>6. reader'.entry.remote_hash \in Known
      BY <1>12 DEF OpCommit, KnownOK
    <2> QED
      BY <2>2, <2>3, <2>4, <2>5, <2>6 DEF KnownOK
  <1>13. CASE PrepareFlush
    BY <1>13, OpBegins DEF PrepareFlush, KnownOK, db, history, Threads, TypeOK
  <1>14. CASE PassOnLargeFlush
    BY <1>14 DEF PassOnLargeFlush, KnownOK, db, history
  <1>15. CASE TryOpen
    <2>1. UNCHANGED <<file, queue, reader, late, seen>>
      BY <1>15 DEF TryOpen, db, history
    <2>2. \A u \in Threads : op'[u].entry.remote_hash \in Known /\ op'[u].base \in Known
      BY <1>15, OpHashes DEF TryOpen, KnownOK, Threads
    <2> QED
      BY <2>1, <2>2 DEF KnownOK
  <1>16. CASE ScanMetadata
    BY <1>16, UpsertedHash DEF ScanMetadata, KnownOK, workers, history, TypeOK
  <1>17. CASE HydrateStart
    <2>1. UNCHANGED <<file, queue, late, seen>>
      BY <1>17 DEF HydrateStart, db, history
    <2>2. op' = op \/ CachedOpen("read")
      BY <1>17 DEF HydrateStart
    <2>3. \A u \in Threads : op'[u].entry.remote_hash \in Known /\ op'[u].base \in Known
      BY <2>2, OpHashes DEF KnownOK, Threads
    <2>4. reader'.entry.remote_hash \in {NoHash, file.remote_hash, reader.entry.remote_hash}
      BY <1>17 DEF HydrateStart, IdleReader, NoFileRow, TypeOK, Reader
    <2> QED
      BY <2>1, <2>3, <2>4 DEF KnownOK
  <1>18. CASE ValidateStart
    <2>1. UNCHANGED <<file, queue, late, seen>>
      BY <1>18 DEF ValidateStart, db, history
    <2>2. op' = op \/ Begin("read", "sync")
      BY <1>18 DEF ValidateStart
    <2>3. \A u \in Threads : op'[u].entry.remote_hash \in Known /\ op'[u].base \in Known
      BY <2>2, OpHashes DEF KnownOK, Threads
    <2>4. reader'.entry.remote_hash \in {NoHash, file.remote_hash, reader.entry.remote_hash}
      <3>1. PICK pc : \/ reader' = [IdleReader EXCEPT !.pc = pc, !.doing = "validate"]
                      \/ reader' = [IdleReader EXCEPT !.doing = "validate", !.entry = file, !.pc = pc]
        BY <1>18 DEF ValidateStart
      <3>2. reader'.entry \in {NoFileRow, file}
        BY <3>1 DEF IdleReader
      <3> QED
        BY <3>2 DEF NoFileRow
    <2> QED
      BY <2>1, <2>3, <2>4 DEF KnownOK
  <1>19. CASE ReaderFetch
    BY <1>19 DEF ReaderFetch, KnownOK, db, history, TypeOK, Reader
  <1>20. CASE ReaderAbort
    BY <1>20 DEF ReaderAbort, KnownOK, history, IdleReader, TypeOK, FileRow, NoFileRow
  <1>21. CASE ReaderTarget
    <2>1. UNCHANGED <<file, queue, late, seen>>
      BY <1>21 DEF ReaderTarget, db, history
    <2>2. op' = op \/ Begin("read", "sync")
      BY <1>21 DEF ReaderTarget
    <2>3. \A u \in Threads : op'[u].entry.remote_hash \in Known /\ op'[u].base \in Known
      BY <2>2, OpHashes DEF KnownOK, Threads
    <2>4. reader'.entry.remote_hash \in {NoHash, file.remote_hash, reader.entry.remote_hash}
      BY <1>21 DEF ReaderTarget, IdleReader, NoFileRow, TypeOK, Reader
    <2> QED
      BY <2>1, <2>3, <2>4 DEF KnownOK
  <1>22. CASE ReaderRename
    BY <1>22 DEF ReaderRename, KnownOK, db, history, TypeOK, Reader
  <1>23. CASE ReaderRecord
    <2>1. file'.remote_hash = reader.bytes /\ seen' = seen \cup {reader.bytes}
      BY <1>23 DEF ReaderRecord, RecordHydrated
    <2>2. reader'.entry.remote_hash = NoHash /\ UNCHANGED <<queue, op, late>>
      BY <1>23 DEF ReaderRecord, IdleReader, NoFileRow
    <2> QED
      BY <2>1, <2>2 DEF KnownOK
  <1>24. CASE ReaderVerdict
    <2>1. file'.remote_hash \in {file.remote_hash, reader.entry.remote_hash}
      BY <1>24, VerdictFileHash DEF ReaderVerdict, TypeOK, Reader
    <2>2. reader'.entry.remote_hash = NoHash /\ UNCHANGED <<queue, op, late, seen>>
      BY <1>24 DEF ReaderVerdict, IdleReader, NoFileRow, history
    <2> QED
      BY <2>1, <2>2 DEF KnownOK
  <1>25. CASE FlushLarge
    <2>1. UNCHANGED <<file, queue, reader, late, seen>>
      BY <1>25 DEF FlushLarge, db, history
    <2>2. \E kind \in {"flush", "adopt"} : Begin("write", kind)
      BY <1>25 DEF FlushLarge
    <2>3. \A u \in Threads : op'[u].entry.remote_hash \in Known /\ op'[u].base \in Known
      BY <2>2, OpHashes DEF KnownOK, Threads
    <2> QED
      BY <2>1, <2>3 DEF KnownOK
  <1>26. CASE RecoverLocalEdits
    BY <1>26, OpBegins DEF RecoverLocalEdits, KnownOK, db, history, Threads, TypeOK
  <1>27. CASE FlushQueued
    BY <1>27 DEF FlushQueued, KnownOK, db, history
  <1>28. CASE FlushQueue
    BY <1>28 DEF FlushQueue, KnownOK, db, history
  <1>29. CASE SnapshotUnusable
    <2>1. PICK i \in writer.todo : queue' = MarkFailedRow(queue, i)
      BY <1>29 DEF SnapshotUnusable, NextRows
    <2>2. i \in DOMAIN queue
      BY DEF LaneOK, ReplayableIds
    <2>3. UNCHANGED <<file, op, reader, late, seen>>
      BY <1>29 DEF SnapshotUnusable, history
    <2>4. DOMAIN queue' = DOMAIN queue
      BY <2>1, <2>2, MarkRow DEF TypeOK
    <2>5. \A j \in DOMAIN queue : /\ queue'[j].local_hash = queue[j].local_hash
                                  /\ queue'[j].expected_hash = queue[j].expected_hash
                                  /\ queue'[j].actual_hash = queue[j].actual_hash
      BY <2>1, <2>2, MarkedHashes DEF TypeOK
    <2> QED
      BY <2>2, <2>3, <2>4, <2>5 DEF KnownOK
  <1>30. CASE AgentUnreachable
    <2>1. PICK i \in writer.todo : queue' = MarkFailedRow(queue, i)
      BY <1>30 DEF AgentUnreachable, NextRows
    <2>2. i \in DOMAIN queue
      BY DEF LaneOK, ReplayableIds
    <2>3. UNCHANGED <<file, op, reader, late, seen>>
      BY <1>30 DEF AgentUnreachable, history
    <2>4. DOMAIN queue' = DOMAIN queue
      BY <2>1, <2>2, MarkRow DEF TypeOK
    <2>5. \A j \in DOMAIN queue : /\ queue'[j].local_hash = queue[j].local_hash
                                  /\ queue'[j].expected_hash = queue[j].expected_hash
                                  /\ queue'[j].actual_hash = queue[j].actual_hash
      BY <2>1, <2>2, MarkedHashes DEF TypeOK
    <2> QED
      BY <2>2, <2>3, <2>4, <2>5 DEF KnownOK
  <1>31. CASE SendUpload
    BY <1>31 DEF SendUpload, KnownOK, db, history
  <1>32. CASE UploadLost
    <2>1. writer.row \in DOMAIN queue
      BY <1>32 DEF UploadLost, LaneOK, ReplayableIds
    <2>2. queue' = MarkFailedRow(queue, writer.row) /\ UNCHANGED <<file, op, reader, seen>>
      BY <1>32 DEF UploadLost, history
    <2>3. \A u \in late' : u.expected_hash \in Known
      BY <1>32, <2>1 DEF UploadLost, Row, KnownOK
    <2>4. DOMAIN queue' = DOMAIN queue
      BY <2>1, <2>2, MarkRow DEF TypeOK
    <2>5. \A j \in DOMAIN queue : /\ queue'[j].local_hash = queue[j].local_hash
                                  /\ queue'[j].expected_hash = queue[j].expected_hash
                                  /\ queue'[j].actual_hash = queue[j].actual_hash
      BY <2>1, <2>2, MarkedHashes DEF TypeOK
    <2> QED
      BY <2>2, <2>3, <2>4, <2>5 DEF KnownOK
  <1>33. CASE RecordOutcome
    <2>1. writer.row \in DOMAIN queue /\ UNCHANGED <<op, reader, late>>
      BY <1>33 DEF RecordOutcome, LaneOK, ReplayableIds
    <2>2. queue[writer.row].local_hash \in seen /\ queue[writer.row].local_hash \in Hash
      BY <2>1 DEF KnownOK, TypeOK, SaveRow, Hash
    <2>3. CASE /\ queue' = MarkAppliedRow(queue, writer.row)
               /\ file' = MarkAppliedFile(file, queue, writer.row, Row.local_hash)
               /\ UNCHANGED seen
      <3>1. file'.remote_hash \in Known
        BY <2>2, <2>3, OutcomeFileHash DEF Row, KnownOK, TypeOK
      <3>2. DOMAIN queue' = DOMAIN queue
        BY <2>1, <2>3, MarkRow DEF TypeOK
      <3>3. \A i \in DOMAIN queue : /\ queue'[i].local_hash = queue[i].local_hash
                                    /\ queue'[i].expected_hash = queue[i].expected_hash
                                    /\ queue'[i].actual_hash = queue[i].actual_hash
        BY <2>1, <2>3, MarkedHashes DEF TypeOK
      <3> QED
        BY <2>1, <2>3, <3>1, <3>2, <3>3 DEF KnownOK
    <2>4. CASE /\ queue' = RecordConflictRow(queue, writer.row, writer.actual, writer.copy)
               /\ file' = RecordConflictFile(file, writer.actual)
               /\ seen' = seen \cup ({writer.actual} \ {NoHash})
      <3>1. writer.actual \in Hash /\ writer.copy \in {"none", "full", "partial"}
        BY DEF TypeOK, Writer
      <3>2. file'.remote_hash \in Known'
        BY <2>4, <3>1, OutcomeFileHash DEF KnownOK, TypeOK
      <3>3. DOMAIN queue' = DOMAIN queue
        BY <2>1, <2>4, <3>1, ConflictRow DEF TypeOK
      <3>4. \A i \in DOMAIN queue :
              /\ queue'[i].local_hash = queue[i].local_hash
              /\ queue'[i].expected_hash = queue[i].expected_hash
              /\ queue'[i].actual_hash \in {queue[i].actual_hash, writer.actual}
        BY <2>1, <2>4, ConflictHashes DEF TypeOK
      <3> QED
        BY <2>1, <2>4, <3>2, <3>3, <3>4 DEF KnownOK
    <2> QED
      BY <1>33, <2>3, <2>4 DEF RecordOutcome
  <1>34. CASE AcceptLocalCheck
    BY <1>34 DEF AcceptLocalCheck, KnownOK, db, history
  <1>35. CASE AcceptLocalCommit
    <2> DEFINE q == PrepareAcceptLocal(queue, writer.row)
    <2>1. queue' = q /\ UNCHANGED <<file, op, reader, late, seen>>
      BY <1>35 DEF AcceptLocalCommit, history
    <2>2. DOMAIN q = DOMAIN queue
      BY ResolveRows DEF TypeOK, Writer
    <2>3. \A i \in DOMAIN queue : /\ q[i].local_hash = queue[i].local_hash
                                  /\ q[i].expected_hash \in {queue[i].expected_hash, queue[i].actual_hash}
                                  /\ q[i].actual_hash \in {queue[i].actual_hash, NoHash}
      BY ResolvedHashes DEF TypeOK
    <2> HIDE DEF q
    <2> QED
      BY <2>1, <2>2, <2>3 DEF KnownOK
  <1>36. CASE AcceptRemoteCheck
    BY <1>36 DEF AcceptRemoteCheck, KnownOK, db, history
  <1>37. CASE AcceptRemoteWrite
    BY <1>37 DEF AcceptRemoteWrite, KnownOK, db, history, Row
  <1>38. CASE AcceptRemoteCommit
    <2> DEFINE q == ResolveRemote(queue, writer.row)
    <2>1. queue' = q /\ UNCHANGED <<op, reader, late, seen>>
      BY <1>38 DEF AcceptRemoteCommit, history
    <2>2. DOMAIN q = DOMAIN queue
      BY ResolveRows DEF TypeOK, Writer
    <2>3. \A i \in DOMAIN queue : /\ q[i].local_hash = queue[i].local_hash
                                  /\ q[i].expected_hash = queue[i].expected_hash
                                  /\ q[i].actual_hash = queue[i].actual_hash
      BY ResolvedHashes DEF TypeOK
    <2>4. file'.remote_hash = queue[writer.row].actual_hash /\ writer.row \in DOMAIN queue
      BY <1>38 DEF AcceptRemoteCommit, Row, RecordHydrated, LaneOK
    <2> HIDE DEF q
    <2> QED
      BY <2>1, <2>2, <2>3, <2>4 DEF KnownOK
  <1>39. CASE AgentCas
    BY <1>39 DEF AgentCas, KnownOK, db, Install, Row
  <1>40. CASE AgentCasLate
    BY <1>40 DEF AgentCasLate, KnownOK, db, Install
  <1>41. ASSUME NEW t \in Threads, OpRestoreFile(t) PROVE KnownOK'
    <2>1. UNCHANGED <<file, queue, reader, late, seen>>
      BY <1>41 DEF OpRestoreFile, db, history
    <2>2. \A u \in Threads : op'[u].entry.remote_hash \in Known /\ op'[u].base \in Known
      BY <1>41, OpHashes DEF OpRestoreFile, KnownOK
    <2> QED
      BY <2>1, <2>2 DEF KnownOK
  <1>42. ASSUME NEW t \in Threads, OpReopen(t) PROVE KnownOK'
    <2>1. UNCHANGED <<file, queue, late, seen>>
      BY <1>42 DEF OpReopen, db, history
    <2>2. \A u \in Threads : op'[u].entry.remote_hash \in Known /\ op'[u].base \in Known
      BY <1>42, OpHashes DEF OpReopen, KnownOK
    <2>3. reader'.entry = reader.entry
      BY <1>42 DEF OpReopen, TypeOK, Reader
    <2> QED
      BY <2>1, <2>2, <2>3 DEF KnownOK
  <1>43. ASSUME NEW t \in Threads, OpReread(t) PROVE KnownOK'
    <2>1. UNCHANGED <<file, queue, late, seen>>
      BY <1>43 DEF OpReread, db, history
    <2>2. \A u \in Threads : op'[u].entry.remote_hash \in Known /\ op'[u].base \in Known
      BY <1>43, OpHashes DEF OpReread, KnownOK
    <2>3. reader'.entry.remote_hash \in Known
      BY <1>43, AfterSyncEntry DEF OpReread, KnownOK
    <2> QED
      BY <2>1, <2>2, <2>3 DEF KnownOK
  <1>44. CASE AcceptRemoteHash
    BY <1>44 DEF AcceptRemoteHash, KnownOK, db, history
  <1> QED
    BY <1>1, <1>2, <1>3, <1>4, <1>5, <1>6, <1>7, <1>8, <1>9, <1>10, <1>11, <1>12, <1>13,
       <1>14, <1>15, <1>16, <1>17, <1>18, <1>19, <1>20, <1>21, <1>22, <1>23, <1>24, <1>25,
       <1>26, <1>27, <1>28, <1>29, <1>30, <1>31, <1>32, <1>33, <1>34, <1>35, <1>36, <1>37,
       <1>38, <1>39, <1>40, <1>41, <1>42, <1>43, <1>44 DEF Next, Environment, OpStep,
       ThreadStep, ReadLane, WriteLane

\* Uploads replace only content the mirror has seen.
LEMMA OverwriteStep ==
    ASSUME Base, KnownOK, NoBlindOverwrite, Next PROVE NoBlindOverwrite'
  <1>1. seen \subseteq seen'
    BY DEF Next, Environment, OpStep, ThreadStep, ReadLane, WriteLane, history, EditorWrite,
       ExternalWrite,
           DeleteLocal, DamageSnapshot, Crash, OpRestoreFile, OpReopen, OpReread,
           Recheck, OpUnreadable, OpClean, OpChanged, OpRestored,
           OpReadBytes, OpReadBase, OpCommit, PrepareFlush, PassOnLargeFlush, TryOpen,
           ScanMetadata, HydrateStart, ValidateStart, ReaderFetch, ReaderAbort, ReaderTarget,
           ReaderRename, ReaderRecord, ReaderVerdict, FlushLarge, RecoverLocalEdits, FlushQueued,
           FlushQueue, SnapshotUnusable, AgentUnreachable, SendUpload, UploadLost, RecordOutcome,
           AcceptLocalCheck, AcceptLocalCommit, AcceptRemoteCheck, AcceptRemoteHash,
           AcceptRemoteWrite,
           AcceptRemoteCommit, AgentCas, AgentCasLate
  <1>2. overwritten' = overwritten \/ AgentCas \/ AgentCasLate
    BY DEF Next, Environment, OpStep, ThreadStep, ReadLane, WriteLane, history, EditorWrite,
       ExternalWrite,
           DeleteLocal, DamageSnapshot, Crash, OpRestoreFile, OpReopen, OpReread,
           Recheck, OpUnreadable, OpClean, OpChanged, OpRestored,
           OpReadBytes, OpReadBase, OpCommit, PrepareFlush, PassOnLargeFlush, TryOpen,
           ScanMetadata, HydrateStart, ValidateStart, ReaderFetch, ReaderAbort, ReaderTarget,
           ReaderRename, ReaderRecord, ReaderVerdict, FlushLarge, RecoverLocalEdits, FlushQueued,
           FlushQueue, SnapshotUnusable, AgentUnreachable, SendUpload, UploadLost, RecordOutcome,
           AcceptLocalCheck, AcceptLocalCommit, AcceptRemoteCheck, AcceptRemoteHash,
           AcceptRemoteWrite,
           AcceptRemoteCommit
  <1>3. CASE AgentCas
    <2>1. writer.row \in DOMAIN queue
      BY <1>3 DEF AgentCas, Base, LaneOK, ReplayableIds
    <2>2. overwritten' \subseteq overwritten \cup {queue[writer.row].expected_hash}
      BY <1>3 DEF AgentCas, Install, Row
    <2>3. queue[writer.row].expected_hash \in seen \cup {NoHash}
      BY <2>1 DEF KnownOK, Known
    <2> QED
      BY <1>1, <2>2, <2>3 DEF NoBlindOverwrite
  <1>4. CASE AgentCasLate
    <2>1. \E u \in late : overwritten' \subseteq overwritten \cup {u.expected_hash}
      BY <1>4 DEF AgentCasLate, Install
    <2>2. \A u \in late : u.expected_hash \in seen \cup {NoHash}
      BY DEF KnownOK, Known
    <2> QED
      BY <1>1, <2>1, <2>2 DEF NoBlindOverwrite
  <1> QED
    BY <1>1, <1>2, <1>3, <1>4 DEF NoBlindOverwrite

\* An uploaded save never replaces remote content the mirror has not hydrated,
\* saved itself or reported as a conflict, in any interleaving of the three
\* threads with crashes, lost replies and uploads that arrive late.
THEOREM NeverOverwritesBlindly == Spec => []NoBlindOverwrite
  <1> DEFINE Inv == Base /\ KnownOK /\ NoBlindOverwrite
  <1>1. Init => Inv
    <2> SUFFICES ASSUME Init PROVE KnownOK /\ NoBlindOverwrite
      BY BaseInit
    <2> QED
      BY DEF Init, KnownOK, NoBlindOverwrite, Known, IdleOp, IdleReader, NoFileRow, RecordHydrated
  <1>2. Inv /\ [Next]_vars => Inv'
    <2>1. ASSUME Inv, Next PROVE Inv'
      BY <2>1, BaseStep, KnownStep, OverwriteStep
    <2>2. ASSUME Inv, UNCHANGED vars PROVE Inv'
      <3>1. Base'
        BY <2>2, BaseStep
      <3> QED
        BY <2>2, <3>1 DEF vars, KnownOK, Known, NoBlindOverwrite
    <2> QED
      BY <2>1, <2>2
  <1>3. Inv => NoBlindOverwrite
    OBVIOUS
  <1> QED
    BY <1>1, <1>2, <1>3, PTL DEF Spec

-----------------------------------------------------------------------------
(* Closed rows. *)

\* Only a replayable row is marked applied, failed or as a conflict.
LEMMA MarkedStates ==
    ASSUME NEW q \in Seq(SaveRow), NEW id \in ReplayableIds(q), NEW i \in DOMAIN q,
           q[i].state \in Closed, NEW actual, NEW copy
    PROVE  /\ MarkAppliedRow(q, id)[i].state = q[i].state
           /\ MarkFailedRow(q, id)[i].state = q[i].state
           /\ RecordConflictRow(q, id, actual, copy)[i].state = q[i].state
  <1>1. i # id
    BY DEF ReplayableIds, Replayable, Closed
  <1> QED
    BY <1>1, OtherRows

\* The conflict commands touch open rows only.
LEMMA ResolvedStates ==
    ASSUME NEW q \in Seq(SaveRow), NEW id, NEW i \in DOMAIN q, q[i].state \in Closed
    PROVE  /\ PrepareAcceptLocal(q, id)[i].state = q[i].state
           /\ ResolveRemote(q, id)[i].state = q[i].state
  BY DEF PrepareAcceptLocal, ResolveRemote, Unresolved, Closed

\* A row keeps its id and its bytes for ever, and a row that is applied,
\* superseded or resolved is never reopened: the UPDATE statements of
\* mark_save_applied, mark_save_failed and record_save_conflict look at nothing
\* but the id, so this rests on the write lane choosing only replayable rows and
\* on no other thread closing a row the lane has chosen.
THEOREM ClosedRowsStayClosed == Spec => ClosedStaysClosed
  <1> DEFINE Keeps == \A i \in DOMAIN queue :
                 /\ i \in DOMAIN queue'
                 /\ queue'[i].local_hash = queue[i].local_hash
                 /\ queue[i].state \in Closed => queue'[i].state = queue[i].state
  <1>1. ASSUME Base, Next PROVE Keeps
    <2> Base
      BY <1>1
    <2> USE DEF Base
    <2>1. CASE DamageSnapshot
      <3>1. PICK i \in DOMAIN queue : queue' = [queue EXCEPT ![i].snapshot = FALSE]
        BY <2>1 DEF DamageSnapshot
      <3>2. queue[i] \in SaveRow
        BY DEF TypeOK
      <3> QED
        BY <3>1, <3>2 DEF TypeOK, SaveRow
    <2>2. ASSUME NEW t \in Threads, OpCommit(t) PROVE Keeps
      <3> DEFINE base == op[t].base
                 bytes == op[t].bytes
                 q == EnqueueRow(queue, base, bytes)
      <3>1. base \in Hash /\ bytes \in Content /\ queue' = q
        BY <2>2 DEF OpCommit, TypeOK, CarriedOK, Op
      <3>2. DOMAIN q = DOMAIN queue \cup {Len(queue) + 1}
        BY <3>1, EnqueuedRow DEF TypeOK
      <3>3. \A i \in DOMAIN queue : q[i] = queue[i]
        BY EnqueuedFields DEF TypeOK
      <3> HIDE DEF q
      <3> QED
        BY <3>1, <3>2, <3>3
    <2>3. ASSUME NEW id \in ReplayableIds(queue),
                 queue' \in {MarkAppliedRow(queue, id), MarkFailedRow(queue, id)}
          PROVE  Keeps
      <3>1. id \in DOMAIN queue
        BY DEF ReplayableIds
      <3>2. DOMAIN queue' = DOMAIN queue
        BY <2>3, <3>1, MarkRow DEF TypeOK
      <3>3. \A i \in DOMAIN queue : queue'[i].local_hash = queue[i].local_hash
        BY <2>3, <3>1, MarkedHashes DEF TypeOK
      <3>4. \A i \in DOMAIN queue : queue[i].state \in Closed => queue'[i].state = queue[i].state
        BY <2>3, MarkedStates DEF TypeOK
      <3> QED
        BY <3>2, <3>3, <3>4
    <2>4. CASE SnapshotUnusable \/ AgentUnreachable
      <3>1. \E id \in writer.todo : queue' = MarkFailedRow(queue, id)
        BY <2>4 DEF SnapshotUnusable, AgentUnreachable, NextRows
      <3> QED
        BY <2>3, <3>1 DEF LaneOK
    <2>5. CASE UploadLost
      BY <2>3, <2>5 DEF UploadLost, LaneOK
    <2>6. CASE RecordOutcome
      <3>1. writer.row \in ReplayableIds(queue) /\ writer.row \in DOMAIN queue
        BY <2>6 DEF RecordOutcome, LaneOK, ReplayableIds
      <3>2. CASE queue' = MarkAppliedRow(queue, writer.row)
        BY <2>3, <3>1, <3>2
      <3>3. CASE queue' = RecordConflictRow(queue, writer.row, writer.actual, writer.copy)
        <4>1. writer.actual \in Hash /\ writer.copy \in {"none", "full", "partial"}
          BY DEF TypeOK, Writer
        <4>2. DOMAIN queue' = DOMAIN queue
          BY <3>1, <3>3, <4>1, ConflictRow DEF TypeOK
        <4>3. \A i \in DOMAIN queue : queue'[i].local_hash = queue[i].local_hash
          BY <3>1, <3>3, ConflictHashes DEF TypeOK
        <4>4. \A i \in DOMAIN queue : queue[i].state \in Closed => queue'[i].state = queue[i].state
          BY <3>1, <3>3, MarkedStates DEF TypeOK
        <4> QED
          BY <4>2, <4>3, <4>4
      <3> QED
        BY <2>6, <3>2, <3>3 DEF RecordOutcome
    <2>7. CASE AcceptLocalCommit \/ AcceptRemoteCommit
      <3>1. queue' \in {PrepareAcceptLocal(queue, writer.row), ResolveRemote(queue, writer.row)}
        BY <2>7 DEF AcceptLocalCommit, AcceptRemoteCommit
      <3>2. DOMAIN queue' = DOMAIN queue
        BY <3>1, ResolveRows DEF TypeOK, Writer
      <3>3. \A i \in DOMAIN queue : queue'[i].local_hash = queue[i].local_hash
        BY <3>1, ResolvedHashes DEF TypeOK
      <3>4. \A i \in DOMAIN queue : queue[i].state \in Closed => queue'[i].state = queue[i].state
        BY <3>1, ResolvedStates DEF TypeOK
      <3> QED
        BY <3>2, <3>3, <3>4
    <2>8. CASE queue' = queue
      BY <2>8
    <2>9. \/ queue' = queue \/ DamageSnapshot \/ (\E t \in Threads : OpCommit(t))
          \/ SnapshotUnusable \/ AgentUnreachable \/ UploadLost \/ RecordOutcome
          \/ AcceptLocalCommit \/ AcceptRemoteCommit
      BY <1>1 DEF Next, Environment, OpStep, ThreadStep, ReadLane, WriteLane, db, EditorWrite,
         ExternalWrite, DeleteLocal, Crash, OpRestoreFile, OpReopen, OpReread, Recheck,
         OpUnreadable, OpClean, OpChanged,
         OpRestored, OpReadBytes, OpReadBase, PrepareFlush, PassOnLargeFlush, TryOpen,
         ScanMetadata, HydrateStart, ValidateStart, ReaderFetch, ReaderAbort,
         ReaderTarget, ReaderRename, ReaderRecord, ReaderVerdict, FlushLarge,
         RecoverLocalEdits, FlushQueued, FlushQueue, SendUpload, AcceptLocalCheck,
         AcceptRemoteCheck, AcceptRemoteHash, AcceptRemoteWrite, AgentCas, AgentCasLate
    <2> QED
      BY <2>1, <2>2, <2>4, <2>5, <2>6, <2>7, <2>8, <2>9
  <1>2. Base /\ [Next]_vars => [Keeps]_vars
    BY <1>1
  <1>3. ClosedStaysClosed <=> [][Keeps]_vars
    BY DEF ClosedStaysClosed
  <1> QED
    BY <1>2, <1>3, BaseInvariant, PTL DEF Spec
=============================================================================
