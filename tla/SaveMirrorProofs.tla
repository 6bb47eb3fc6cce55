-------------------------- MODULE SaveMirrorProofs --------------------------
(* Proofs about SaveMirror, for every set of contents, bound and budget. *)
EXTENDS SaveMirror, TLAPS, SequenceTheorems

-----------------------------------------------------------------------------
(* The statements of MirrorStore. *)

\* A statement that rewrites one row of save_queue keeps the ids.
LEMMA ReplaceRow ==
    ASSUME NEW q \in Seq(SaveRow), NEW id \in DOMAIN q, NEW row \in SaveRow
    PROVE  /\ [q EXCEPT ![id] = row] \in Seq(SaveRow)
           /\ DOMAIN [q EXCEPT ![id] = row] = DOMAIN q
           /\ Len([q EXCEPT ![id] = row]) = Len(q)
  BY ExceptSeq

\* So does one that rewrites several.
LEMMA RewriteRows ==
    ASSUME NEW q \in Seq(SaveRow), NEW r, r = [i \in DOMAIN q |-> r[i]],
           \A i \in DOMAIN q : r[i] \in SaveRow
    PROVE  r \in Seq(SaveRow) /\ DOMAIN r = DOMAIN q
  <1>1. DOMAIN q = 1..Len(q) /\ Len(q) \in Nat
    OBVIOUS
  <1>2. r \in [1..Len(q) -> SaveRow]
    BY <1>1
  <1> QED
    BY <1>1, <1>2, SeqDef

\* mark_save_applied, mark_save_failed and record_save_conflict keep the ids,
LEMMA MarkRow ==
    ASSUME NEW q \in Seq(SaveRow), NEW id \in DOMAIN q
    PROVE  /\ MarkAppliedRow(q, id) \in Seq(SaveRow)
           /\ MarkFailedRow(q, id) \in Seq(SaveRow)
           /\ DOMAIN MarkAppliedRow(q, id) = DOMAIN q
           /\ DOMAIN MarkFailedRow(q, id) = DOMAIN q
  <1>1. q[id] \in SaveRow
    OBVIOUS
  <1>2. [q[id] EXCEPT !.state = "applied"] \in SaveRow
    BY <1>1 DEF SaveRow
  <1>3. [q[id] EXCEPT !.state = "failed"] \in SaveRow
    BY <1>1 DEF SaveRow
  <1>4. MarkAppliedRow(q, id) = [q EXCEPT ![id] = [q[id] EXCEPT !.state = "applied"]]
    BY DEF MarkAppliedRow
  <1>5. MarkFailedRow(q, id) = [q EXCEPT ![id] = [q[id] EXCEPT !.state = "failed"]]
    BY DEF MarkFailedRow
  <1> QED
    BY <1>2, <1>3, <1>4, <1>5, ReplaceRow

\* record_save_conflict keeps the queue a sequence of rows.
LEMMA ConflictRow ==
    ASSUME NEW q \in Seq(SaveRow), NEW id \in DOMAIN q, NEW actual \in Hash,
           NEW copy \in {"none", "full", "partial"}
    PROVE  /\ RecordConflictRow(q, id, actual, copy) \in Seq(SaveRow)
           /\ DOMAIN RecordConflictRow(q, id, actual, copy) = DOMAIN q
  <1> DEFINE row == [q[id] EXCEPT !.state = "conflict", !.actual_hash = actual, !.copy = copy]
  <1>1. q[id] \in SaveRow
    OBVIOUS
  <1>2. row \in SaveRow
    BY <1>1 DEF SaveRow
  <1>3. RecordConflictRow(q, id, actual, copy) = [q EXCEPT ![id] = row]
    BY DEF RecordConflictRow
  <1> QED
    BY <1>2, <1>3, ReplaceRow

\* leave the other rows alone,
LEMMA OtherRows ==
    ASSUME NEW q, NEW id, NEW actual, NEW copy, NEW j \in DOMAIN q, j # id
    PROVE  /\ MarkAppliedRow(q, id)[j] = q[j]
           /\ MarkFailedRow(q, id)[j] = q[j]
           /\ RecordConflictRow(q, id, actual, copy)[j] = q[j]
  BY DEF MarkAppliedRow, MarkFailedRow, RecordConflictRow

\* and of their own row change the state, or the state and the conflict.
LEMMA OwnRow ==
    ASSUME NEW q \in Seq(SaveRow), NEW id \in DOMAIN q, NEW actual, NEW copy
    PROVE  /\ MarkAppliedRow(q, id)[id].state = "applied"
           /\ MarkFailedRow(q, id)[id].state = "failed"
           /\ RecordConflictRow(q, id, actual, copy)[id].state = "conflict"
           /\ RecordConflictRow(q, id, actual, copy)[id].actual_hash = actual
           /\ MarkAppliedRow(q, id)[id].actual_hash = q[id].actual_hash
           /\ MarkFailedRow(q, id)[id].actual_hash = q[id].actual_hash
           /\ MarkAppliedRow(q, id)[id].local_hash = q[id].local_hash
           /\ MarkFailedRow(q, id)[id].local_hash = q[id].local_hash
           /\ RecordConflictRow(q, id, actual, copy)[id].local_hash = q[id].local_hash
           /\ MarkAppliedRow(q, id)[id].expected_hash = q[id].expected_hash
           /\ MarkFailedRow(q, id)[id].expected_hash = q[id].expected_hash
           /\ RecordConflictRow(q, id, actual, copy)[id].expected_hash = q[id].expected_hash
  <1>1. q[id] \in SaveRow
    OBVIOUS
  <1>2. /\ MarkAppliedRow(q, id)[id] = [q[id] EXCEPT !.state = "applied"]
        /\ MarkFailedRow(q, id)[id] = [q[id] EXCEPT !.state = "failed"]
        /\ RecordConflictRow(q, id, actual, copy)[id]
             = [q[id] EXCEPT !.state = "conflict", !.actual_hash = actual, !.copy = copy]
    BY DEF MarkAppliedRow, MarkFailedRow, RecordConflictRow
  <1> QED
    BY <1>1, <1>2 DEF SaveRow

\* The transactions of the two conflict commands.
LEMMA ResolveRows ==
    ASSUME NEW q \in Seq(SaveRow), NEW id \in Nat
    PROVE  /\ PrepareAcceptLocal(q, id) \in Seq(SaveRow)
           /\ ResolveRemote(q, id) \in Seq(SaveRow)
           /\ DOMAIN PrepareAcceptLocal(q, id) = DOMAIN q
           /\ DOMAIN ResolveRemote(q, id) = DOMAIN q
  <1>1. \A i \in DOMAIN q : q[i] \in SaveRow
    OBVIOUS
  <1>2. \A i \in DOMAIN q : PrepareAcceptLocal(q, id)[i] \in SaveRow
    <2> TAKE i \in DOMAIN q
    <2> DEFINE r == q[i]
    <2>1. r \in SaveRow
      BY <1>1
    <2>2. [r EXCEPT !.state = "superseded"] \in SaveRow
      BY <2>1 DEF SaveRow
    <2>3. [r EXCEPT !.state = "pending", !.expected_hash = r.actual_hash,
                    !.actual_hash = NoHash, !.copy = "none"] \in SaveRow
      BY <2>1 DEF SaveRow, Hash
    <2> QED
      BY <2>1, <2>2, <2>3 DEF PrepareAcceptLocal
  <1>3. \A i \in DOMAIN q : ResolveRemote(q, id)[i] \in SaveRow
    <2> TAKE i \in DOMAIN q
    <2> DEFINE r == q[i]
    <2>1. r \in SaveRow /\ [r EXCEPT !.state = "resolved_remote"] \in SaveRow
      BY <1>1 DEF SaveRow
    <2> QED
      BY <2>1 DEF ResolveRemote
  <1>4. /\ PrepareAcceptLocal(q, id) = [i \in DOMAIN q |-> PrepareAcceptLocal(q, id)[i]]
        /\ ResolveRemote(q, id) = [i \in DOMAIN q |-> ResolveRemote(q, id)[i]]
    BY DEF PrepareAcceptLocal, ResolveRemote
  <1> QED
    BY <1>2, <1>3, <1>4, RewriteRows

\* accept_local_conflict makes its row the one to upload, on the conflict hash.
LEMMA AcceptedRow ==
    ASSUME NEW q \in Seq(SaveRow), NEW id \in DOMAIN q, q[id].state = "conflict"
    PROVE  /\ DOMAIN PrepareAcceptLocal(q, id) = DOMAIN q
           /\ PrepareAcceptLocal(q, id)[id].state = "pending"
           /\ PrepareAcceptLocal(q, id)[id].expected_hash = q[id].actual_hash
  <1>1. id \in Nat /\ ~(id < id) /\ q[id] \in SaveRow
    OBVIOUS
  <1>2. PrepareAcceptLocal(q, id)[id]
          = [q[id] EXCEPT !.state = "pending", !.expected_hash = q[id].actual_hash,
                          !.actual_hash = NoHash, !.copy = "none"]
    BY <1>1 DEF PrepareAcceptLocal
  <1> QED
    BY <1>1, <1>2 DEF PrepareAcceptLocal, SaveRow

\* enqueue_save adds a row with the next id
LEMMA EnqueuedRow ==
    ASSUME NEW q \in Seq(SaveRow), NEW base \in Hash, NEW bytes \in Content
    PROVE  /\ EnqueueRow(q, base, bytes) \in Seq(SaveRow)
           /\ DOMAIN EnqueueRow(q, base, bytes) = DOMAIN q \cup {Len(q) + 1}
  <1> DEFINE row == [expected_hash |-> base, local_hash |-> bytes, snapshot |-> TRUE,
                     state |-> "pending", actual_hash |-> NoHash, copy |-> "none"]
  <1>1. row \in SaveRow
    BY DEF SaveRow, Hash
  <1>2. EnqueueRow(q, base, bytes) = Append(q, row)
    BY DEF EnqueueRow
  <1> HIDE DEF row
  <1>3. Append(q, row) \in Seq(SaveRow) /\ Len(Append(q, row)) = Len(q) + 1
    BY <1>1
  <1> QED
    BY <1>2, <1>3

\* that is pending, and leaves the others alone.
LEMMA EnqueuedFields ==
    ASSUME NEW q \in Seq(SaveRow), NEW base, NEW bytes
    PROVE  /\ \A i \in DOMAIN q : EnqueueRow(q, base, bytes)[i] = q[i]
           /\ EnqueueRow(q, base, bytes)[Len(q) + 1].state = "pending"
           /\ EnqueueRow(q, base, bytes)[Len(q) + 1].expected_hash = base
           /\ EnqueueRow(q, base, bytes)[Len(q) + 1].local_hash = bytes
           /\ EnqueueRow(q, base, bytes)[Len(q) + 1].actual_hash = NoHash
  <1> DEFINE row == [expected_hash |-> base, local_hash |-> bytes, snapshot |-> TRUE,
                     state |-> "pending", actual_hash |-> NoHash, copy |-> "none"]
  <1>1. EnqueueRow(q, base, bytes) = Append(q, row)
    BY DEF EnqueueRow
  <1> HIDE DEF row
  <1>2. \A i \in 1..Len(q) : Append(q, row)[i] = q[i]
    OBVIOUS
  <1>3. Append(q, row)[Len(q) + 1] = row
    OBVIOUS
  <1> QED
    BY <1>1, <1>2, <1>3 DEF row

\* Every statement leaves a row of files.
LEMMA FileStatements ==
    ASSUME NEW f \in FileRow, NEW hash \in Hash, NEW bytes \in Hash,
           NEW q \in Seq(SaveRow), NEW id \in Nat,
           NEW entry \in FileRow
    PROVE  /\ UpsertMetadata(f) \in FileRow
           /\ RecordHydrated(hash) \in FileRow
           /\ EnqueueFile(f, hash, bytes) \in FileRow
           /\ MarkAppliedFile(f, q, id, hash) \in FileRow
           /\ RecordConflictFile(f, hash) \in FileRow
           /\ RecordValidation(f, Verdict(entry, hash), RecordedHash(entry, hash)) \in FileRow
  <1>1. UpsertMetadata(f) \in FileRow
    BY DEF UpsertMetadata, FileRow
  <1>2. RecordHydrated(hash) \in FileRow
    BY DEF RecordHydrated, FileRow
  <1>3. EnqueueFile(f, hash, bytes) \in FileRow
    BY DEF EnqueueFile, FileRow
  <1>4. MarkAppliedFile(f, q, id, hash) \in FileRow
    BY <1>2 DEF MarkAppliedFile, FileRow
  <1>5. RecordConflictFile(f, hash) \in FileRow
    BY DEF RecordConflictFile, FileRow
  <1>6. RecordValidation(f, Verdict(entry, hash), RecordedHash(entry, hash)) \in FileRow
    BY DEF RecordValidation, Verdict, RecordedHash, FileRow
  <1> QED
    BY <1>1, <1>2, <1>3, <1>4, <1>5, <1>6

-----------------------------------------------------------------------------
(* The type invariant. *)

Base == TypeOK /\ CarriedOK /\ LaneOK

\* The records of idle workers, and what a check or enqueue makes of them.
LEMMA IdleTypes == IdleOp \in Op /\ IdleReader \in Reader /\ IdleWriter \in Writer
  BY DEF IdleOp, IdleReader, IdleWriter, NoFileRow, Op, Reader, Writer, FileRow, Hash

\* A check or enqueue starts with a well-typed record.
LEMMA BeginType ==
    ASSUME TypeOK, NEW t \in Threads, NEW kind \in {"flush", "adopt", "sync"}, Begin(t, kind)
    PROVE  op' \in [Threads -> Op]
  <1>1. [IdleOp EXCEPT !.pc = "read", !.kind = kind, !.entry = file] \in Op
    BY IdleTypes DEF TypeOK, Op
  <1> QED
    BY <1>1 DEF Begin, TypeOK

\* A cached open starts a check, or carries the bytes of a snapshot to restore.
LEMMA OpenType ==
    ASSUME TypeOK, NEW t \in Threads, CachedOpen(t)
    PROVE  /\ op' \in [Threads -> Op]
           /\ op'[t].pc \in {"read", "restore"}
           /\ op'[t].pc = "restore" => op'[t].bytes \in Content
           /\ op'[t].entry \in {file, NoFileRow} /\ op'[t].base = NoHash
           /\ \A u \in Threads \ {t} : op'[u] = op[u]
  <1>1. CASE Begin(t, "sync")
    <2>1. op' \in [Threads -> Op]
      BY <1>1, BeginType
    <2> QED
      BY <1>1, <2>1 DEF Begin, TypeOK, IdleOp
  <1>2. CASE \E i \in LatestReplayable(queue) : BeginRestore(t, queue[i].local_hash)
    <2>1. PICK i \in LatestReplayable(queue) : BeginRestore(t, queue[i].local_hash)
      BY <1>2
    <2>2. queue[i] \in SaveRow
      BY DEF TypeOK, LatestReplayable, ReplayableIds
    <2>3. queue[i].local_hash \in Content
      BY <2>2 DEF SaveRow
    <2> DEFINE o == [IdleOp EXCEPT !.pc = "restore", !.bytes = queue[i].local_hash]
    <2>4. o \in Op /\ o.pc = "restore" /\ o.bytes \in Content /\ o.entry = NoFileRow /\ o.base = NoHash
      BY <2>3, IdleTypes DEF Op, Hash, IdleOp
    <2>5. op' = [op EXCEPT ![t] = o]
      BY <2>1 DEF BeginRestore
    <2> HIDE DEF o
    <2> QED
      BY <2>4, <2>5 DEF TypeOK
  <1> QED
    BY <1>1, <1>2 DEF CachedOpen

\* A thread that has restored a file, or whose check has changed the row, carries
\* nothing while it has the row still to read again.
LEMMA RereadType ==
    ASSUME TypeOK, NEW t \in Threads, NEW pc \in {"idle", "reopen", "reread"},
           op' = [op EXCEPT ![t] = [IdleOp EXCEPT !.pc = pc]]
    PROVE  /\ op' \in [Threads -> Op]
           /\ op'[t].pc = pc /\ op'[t].entry = NoFileRow /\ op'[t].base = NoHash
           /\ \A u \in Threads \ {t} : op'[u] = op[u]
  <1> DEFINE o == [IdleOp EXCEPT !.pc = pc]
  <1>1. o \in Op /\ o.pc = pc /\ o.entry = NoFileRow /\ o.base = NoHash
    BY IdleTypes DEF Op, IdleOp
  <1> HIDE DEF o
  <1> QED
    BY <1>1 DEF TypeOK, o

\* Only the read-lane worker reads the row again.
LEMMA RecheckType ==
    ASSUME TypeOK, NEW t \in Threads, NEW kind, Recheck(t, kind)
    PROVE  /\ op' \in [Threads -> Op]
           /\ op'[t].pc \in {"idle", "reread"}
           /\ op'[t].pc = "reread" => t = "read"
           /\ op'[t].entry = NoFileRow /\ op'[t].base = NoHash
           /\ \A u \in Threads \ {t} : op'[u] = op[u]
  <1>1. IdleOp = [IdleOp EXCEPT !.pc = "idle"]
    BY DEF IdleOp
  <1>2. CASE t = "read" /\ kind = "sync"
    BY <1>2, RereadType DEF Recheck
  <1>3. CASE ~(t = "read" /\ kind = "sync")
    <2>1. op' = [op EXCEPT ![t] = [IdleOp EXCEPT !.pc = "idle"]]
      BY <1>1, <1>3 DEF Recheck
    <2> QED
      BY <2>1, RereadType
  <1> QED
    BY <1>2, <1>3

\* So does what follows a check on the read lane.
LEMMA AfterSyncType ==
    ASSUME TypeOK, NEW entry \in FileRow
    PROVE  AfterSync(entry) \in Reader
  BY DEF TypeOK, AfterSync, Reader

\* An environment event leaves a natural budget.
LEMMA SpendType ==
    ASSUME TypeOK, NEW event \in Events, Spend(event)
    PROVE  budget' \in [Events -> Nat]
  BY DEF TypeOK, Spend

\* The rows the write lane works on exist.
LEMMA RowExists ==
    ASSUME Base
    PROVE  /\ writer.todo \subseteq DOMAIN queue
           /\ writer.pc # "idle" => writer.row \in DOMAIN queue /\ Row \in SaveRow
  <1>1. writer.pc \in {"idle", "wait", "reply", "accept_local", "accept_hash", "accept_remote",
                    "accepted"}
    BY DEF Base, TypeOK, Writer
  <1>2. writer.todo \subseteq DOMAIN queue
    BY DEF Base, LaneOK, ReplayableIds
  <1>3. writer.pc # "idle" => writer.row \in DOMAIN queue
    BY <1>1, <1>2 DEF Base, LaneOK
  <1> QED
    BY <1>2, <1>3 DEF Base, TypeOK, Row

\* Row ids are numbers.
LEMMA IdsAreNat == TypeOK => DOMAIN queue \subseteq Nat /\ ReplayableIds(queue) \subseteq Nat
  BY DEF TypeOK, ReplayableIds

\* The base of a new save is a hash.
LEMMA BaseHashType ==
    ASSUME NEW q \in Seq(SaveRow), NEW expected \in Hash, NEW base \in BaseHashes(q, expected)
    PROVE  base \in Hash
  <1>1. CASE ReplayableIds(q) = {}
    BY <1>1 DEF BaseHashes
  <1>2. CASE ReplayableIds(q) # {}
    <2>1. PICK i \in LatestReplayable(q) : base = q[i].local_hash
      BY <1>2 DEF BaseHashes
    <2>2. q[i] \in SaveRow
      BY DEF LatestReplayable, ReplayableIds
    <2> QED
      BY <2>1, <2>2 DEF SaveRow, Hash
  <1> QED
    BY <1>1, <1>2

\* Init satisfies the base invariant.
LEMMA BaseInit == Init => Base
  <1> SUFFICES ASSUME Init PROVE Base
    OBVIOUS
  <1>1. TypeOK
    <2>1. RecordHydrated(remote) \in FileRow /\ NoFileRow \in FileRow
      BY ContentAssumption DEF Init, RecordHydrated, NoFileRow, FileRow, Hash
    <2>2. seen \in SUBSET Content /\ file \in FileRow /\ local_file \in Hash
      BY <2>1, ContentAssumption DEF Init, Hash
    <2>3. op \in [Threads -> Op] /\ reader \in Reader /\ writer \in Writer
      BY IdleTypes DEF Init
    <2>4. remote \in Hash /\ installed \in SUBSET Content
      BY ContentAssumption DEF Init, Hash
    <2>5. queue \in Seq(SaveRow) /\ jobs \in Seq(Nat)
      BY DEF Init
    <2> QED
      BY <2>2, <2>3, <2>4, <2>5, BoundsAssumption DEF Init, TypeOK
  <1>2. CarriedOK
    BY DEF Init, CarriedOK, IdleOp, IdleReader, Threads
  <1>3. LaneOK
    BY DEF Init, LaneOK, IdleOp, IdleWriter, Threads
  <1> QED
    BY <1>1, <1>2, <1>3 DEF Base

\* Every step keeps the types.
LEMMA TypeStep ==
    ASSUME Base, Next PROVE TypeOK'
  <1> USE DEF Base
  <1>1. CASE EditorWrite
    BY <1>1, ContentAssumption, SpendType DEF EditorWrite, TypeOK, db, workers, history, Hash,
       Events
  <1>2. CASE ExternalWrite
    BY <1>2, ContentAssumption, SpendType DEF ExternalWrite, TypeOK, db, workers, history,
       Hash, Events
  <1>3. CASE DeleteLocal
    BY <1>3, SpendType DEF DeleteLocal, TypeOK, db, workers, history, Hash, Events
  <1>4. CASE DamageSnapshot
    <2>1. PICK i \in DOMAIN queue : queue' = [queue EXCEPT ![i].snapshot = FALSE]
      BY <1>4 DEF DamageSnapshot
    <2>2. queue[i] \in SaveRow
      BY DEF TypeOK
    <2>3. [queue[i] EXCEPT !.snapshot = FALSE] \in SaveRow
      BY <2>2 DEF SaveRow
    <2>4. queue' = [queue EXCEPT ![i] = [queue[i] EXCEPT !.snapshot = FALSE]]
      BY <2>1
    <2>5. queue' \in Seq(SaveRow)
      BY <2>3, <2>4, ReplaceRow DEF TypeOK
    <2> QED
      BY <1>4, <2>5, SpendType DEF DamageSnapshot, TypeOK, workers, history, Events
  <1>5. CASE Crash
    <2>1. late' \in SUBSET Upload
      BY <1>5, RowExists DEF Crash, TypeOK, Upload, SaveRow, Row
    <2>2. op' \in [Threads -> Op] /\ reader' \in Reader /\ writer' \in Writer
      BY <1>5, IdleTypes DEF Crash
    <2>3. jobs' \in Seq(Nat) /\ flush_due' \in BOOLEAN
      BY <1>5 DEF Crash
    <2>4. budget' \in [Events -> Nat]
      BY <1>5, SpendType DEF Crash, Events
    <2> QED
      BY <1>5, <2>1, <2>2, <2>3, <2>4 DEF Crash, TypeOK, db, history
  <1>6. ASSUME NEW t \in Threads, OpUnreadable(t) PROVE TypeOK'
    BY <1>6, IdleTypes DEF OpUnreadable, TypeOK, db, workers, history
  <1>7. ASSUME NEW t \in Threads, OpClean(t) PROVE TypeOK'
    BY <1>7, IdleTypes, AfterSyncType DEF OpClean, TypeOK, db, workers, history, Op
  <1>8. ASSUME NEW t \in Threads, OpChanged(t) PROVE TypeOK'
    BY <1>8, SMTT(40) DEF OpChanged, TypeOK, db, workers, history, Op
  <1>9. ASSUME NEW t \in Threads, OpRestored(t) PROVE TypeOK'
    <2>1. file' \in FileRow
      BY <1>9 DEF OpRestored, TypeOK, FileRow
    <2>2. op' \in [Threads -> Op] /\ reader' \in Reader
      BY <1>9, RecheckType DEF OpRestored, TypeOK
    <2> QED
      BY <1>9, <2>1, <2>2 DEF OpRestored, TypeOK, history
  <1>10. ASSUME NEW t \in Threads, OpReadBytes(t) PROVE TypeOK'
    <2>1. [op[t] EXCEPT !.pc = "base", !.bytes = local_file] \in Op
      BY DEF TypeOK, Op
    <2>2. op' = [op EXCEPT ![t] = [op[t] EXCEPT !.pc = "base", !.bytes = local_file]]
      BY <1>10 DEF OpReadBytes, TypeOK
    <2> QED
      BY <1>10, <2>1, <2>2 DEF OpReadBytes, TypeOK, db, history
  <1>11. ASSUME NEW t \in Threads, OpReadBase(t) PROVE TypeOK'
    <2>1. PICK base \in BaseHashes(queue, CallerHash(op[t])) :
             op' = [op EXCEPT ![t] = [op[t] EXCEPT !.pc = "commit", !.base = base]]
      BY <1>11 DEF OpReadBase
    <2>2. op[t] \in Op /\ CallerHash(op[t]) \in Hash
      BY DEF TypeOK, Op, FileRow, CallerHash, Hash
    <2>3. base \in Hash
      BY <2>2, BaseHashType DEF TypeOK
    <2>4. [op[t] EXCEPT !.pc = "commit", !.base = base] \in Op
      BY <2>2, <2>3 DEF Op
    <2>5. op' = [op EXCEPT ![t] = [op[t] EXCEPT !.pc = "commit", !.base = base]]
      BY <2>1 DEF TypeOK
    <2> QED
      BY <1>11, <2>4, <2>5 DEF OpReadBase, TypeOK, db, history
  <1>12. ASSUME NEW t \in Threads, OpCommit(t) PROVE TypeOK'
    <2>1. op[t].bytes \in Content /\ op[t].bytes \in Hash /\ op[t].base \in Hash
      BY <1>12 DEF OpCommit, CarriedOK, TypeOK, Op, Hash
    <2>2. file' \in FileRow
      BY <1>12, <2>1, FileStatements DEF OpCommit, TypeOK
    <2>3. queue' \in Seq(SaveRow)
      BY <1>12, <2>1, EnqueuedRow DEF OpCommit, TypeOK
    <2>4. jobs' \in Seq(Nat)
      <3>1. Len(queue) + 1 \in Nat /\ jobs \in Seq(Nat)
        BY DEF TypeOK
      <3>2. Append(jobs, Len(queue) + 1) \in Seq(Nat)
        BY <3>1
      <3>3. jobs' \in {jobs, Append(jobs, Len(queue) + 1)}
        BY <1>12 DEF OpCommit
      <3> QED
        BY <3>1, <3>2, <3>3
    <2>5. op' \in [Threads -> Op] /\ reader' \in Reader
      BY <1>12, RecheckType DEF OpCommit, TypeOK
    <2>6. writer' \in Writer
      <3>1. {Len(queue) + 1} \subseteq Nat
        BY DEF TypeOK
      <3>2. [writer EXCEPT !.todo = {Len(queue) + 1}] \in Writer
        BY <3>1 DEF TypeOK, Writer
      <3> QED
        BY <1>12, <3>2 DEF OpCommit, TypeOK
    <2> QED
      BY <1>12, <2>1, <2>2, <2>3, <2>4, <2>5, <2>6 DEF OpCommit, TypeOK
  <1>13. CASE PrepareFlush
    BY <1>13, BeginType DEF PrepareFlush, TypeOK, db, workers, history, Threads
  <1>14. CASE PassOnLargeFlush
    <2>1. jobs' \in Seq(Nat)
      BY <1>14 DEF PassOnLargeFlush, TypeOK
    <2> QED
      BY <1>14, <2>1 DEF PassOnLargeFlush, TypeOK, db, history
  <1>15. CASE TryOpen
    <2>1. op' \in [Threads -> Op]
      BY <1>15, OpenType DEF TryOpen, Threads
    <2>2. budget' \in [Events -> Nat]
      BY <1>15, SpendType DEF TryOpen, Events
    <2> QED
      BY <1>15, <2>1, <2>2 DEF TryOpen, TypeOK, db, history
  <1>16. CASE ScanMetadata
    BY <1>16, SpendType, FileStatements DEF ScanMetadata, TypeOK, db, workers, history, Events
  <1>17. CASE HydrateStart
    BY <1>17, SpendType, OpenType, IdleTypes DEF HydrateStart, TypeOK, db, workers, history,
       Threads, Reader, Events
  <1>18. CASE ValidateStart
    BY <1>18, SpendType, BeginType, IdleTypes DEF ValidateStart, TypeOK, db, workers, history,
       Threads, Reader, Events
  <1>19. CASE ReaderFetch
    BY <1>19 DEF ReaderFetch, TypeOK, db, workers, history, Reader
  <1>20. CASE ReaderAbort
    BY <1>20, IdleTypes DEF ReaderAbort, TypeOK, db, workers, history, FileRow
  <1>21. CASE ReaderTarget
    BY <1>21, BeginType DEF ReaderTarget, TypeOK, db, workers, history, Threads, Reader
  <1>22. CASE ReaderRename
    BY <1>22 DEF ReaderRename, TypeOK, db, workers, history, Reader
  <1>23. CASE ReaderRecord
    BY <1>23, FileStatements, IdleTypes DEF ReaderRecord, TypeOK, db, workers, history,
       CarriedOK, Reader, Hash
  <1>24. CASE ReaderVerdict
    BY <1>24, FileStatements, IdleTypes DEF ReaderVerdict, TypeOK, db, workers, history, Reader
  <1>25. CASE FlushLarge
    BY <1>25, BeginType DEF FlushLarge, TypeOK, db, workers, history, Threads
  <1>26. CASE RecoverLocalEdits
    BY <1>26, SpendType, BeginType DEF RecoverLocalEdits, TypeOK, db, workers, history,
       Threads, Events
  <1>27. CASE FlushQueued
    <2>1. jobs' \in Seq(Nat)
      BY <1>27 DEF FlushQueued, TypeOK
    <2>2. writer' \in Writer
      BY <1>27, IdsAreNat DEF FlushQueued, TypeOK, Writer
    <2> QED
      BY <1>27, <2>1, <2>2 DEF FlushQueued, TypeOK, db, history
  <1>28. CASE FlushQueue
    <2>1. writer' \in Writer
      BY <1>28, IdsAreNat DEF FlushQueue, TypeOK, Writer
    <2> QED
      BY <1>28, <2>1 DEF FlushQueue, TypeOK, db, history
  <1>29. CASE SnapshotUnusable
    <2>1. PICK i \in NextRows : /\ queue' = MarkFailedRow(queue, i)
                               /\ writer' = [IdleWriter EXCEPT !.todo = writer.todo \ {i}]
      BY <1>29 DEF SnapshotUnusable
    <2>2. queue' \in Seq(SaveRow)
      BY <2>1, RowExists, MarkRow DEF NextRows, TypeOK, Hash
    <2>3. writer' \in Writer
      BY <2>1, IdleTypes DEF TypeOK, Writer
    <2> QED
      BY <1>29, <2>2, <2>3 DEF SnapshotUnusable, TypeOK, history
  <1>30. CASE AgentUnreachable
    <2>1. PICK i \in NextRows : queue' = MarkFailedRow(queue, i)
      BY <1>30 DEF AgentUnreachable
    <2>2. queue' \in Seq(SaveRow)
      BY <2>1, RowExists, MarkRow DEF NextRows, TypeOK, Hash
    <2>3. budget' \in [Events -> Nat]
      BY <1>30, SpendType DEF AgentUnreachable, Events
    <2> QED
      BY <1>30, <2>2, <2>3, IdleTypes DEF AgentUnreachable, TypeOK, history
  <1>31. CASE SendUpload
    BY <1>31, RowExists DEF SendUpload, TypeOK, db, workers, history, Writer, NextRows
  <1>32. CASE UploadLost
    <2>1. writer.row \in DOMAIN queue /\ Row \in SaveRow
      BY <1>32, RowExists DEF UploadLost
    <2>2. queue' \in Seq(SaveRow)
      BY <1>32, <2>1, MarkRow DEF UploadLost, TypeOK, Hash
    <2>3. late' \in SUBSET Upload
      BY <1>32, <2>1 DEF UploadLost, TypeOK, Upload, SaveRow
    <2>4. budget' \in [Events -> Nat]
      BY <1>32, SpendType DEF UploadLost, Events
    <2> QED
      BY <1>32, <2>2, <2>3, <2>4, IdleTypes DEF UploadLost, TypeOK, history
  <1>33. CASE RecordOutcome
    <2>1. writer.row \in DOMAIN queue /\ Row \in SaveRow
      BY <1>33, RowExists DEF RecordOutcome
    <2>2. /\ writer.actual \in Hash /\ writer.copy \in {"none", "full", "partial"}
          /\ writer.row \in Nat /\ Row.local_hash \in Hash
      BY <2>1 DEF TypeOK, Writer, SaveRow, Hash
    <2>3. queue' \in Seq(SaveRow)
      <3>1. /\ MarkAppliedRow(queue, writer.row) \in Seq(SaveRow)
            /\ RecordConflictRow(queue, writer.row, writer.actual, writer.copy) \in Seq(SaveRow)
        BY <2>1, <2>2, MarkRow, ConflictRow DEF TypeOK
      <3> QED
        BY <1>33, <3>1 DEF RecordOutcome
    <2>4. file' \in FileRow
      <3>1. /\ MarkAppliedFile(file, queue, writer.row, Row.local_hash) \in FileRow
            /\ RecordConflictFile(file, writer.actual) \in FileRow
        BY <2>2, FileStatements DEF TypeOK
      <3> QED
        BY <1>33, <3>1 DEF RecordOutcome
    <2>5. seen' \in SUBSET Content
      BY <1>33, <2>2 DEF RecordOutcome, TypeOK, Hash
    <2>6. writer' \in Writer
      BY <1>33, IdleTypes DEF RecordOutcome, TypeOK, Writer
    <2> QED
      BY <1>33, <2>3, <2>4, <2>5, <2>6 DEF RecordOutcome, TypeOK
  <1>34. CASE AcceptLocalCheck
    <2>1. writer' \in Writer
      BY <1>34, IdsAreNat DEF AcceptLocalCheck, TypeOK, Writer
    <2> QED
      BY <1>34, <2>1, SpendType DEF AcceptLocalCheck, TypeOK, db, history, Events
  <1>35. CASE AcceptLocalCommit
    BY <1>35, ResolveRows, IdleTypes DEF AcceptLocalCommit, TypeOK, db, workers, history, Writer
  <1>36. CASE AcceptRemoteCheck
    <2>1. writer' \in Writer
      BY <1>36, IdsAreNat DEF AcceptRemoteCheck, TypeOK, Writer
    <2> QED
      BY <1>36, <2>1, SpendType DEF AcceptRemoteCheck, TypeOK, db, history, Events
  <1>37. CASE AcceptRemoteWrite
    BY <1>37, RowExists DEF AcceptRemoteWrite, TypeOK, db, workers, history, Writer, SaveRow
  <1>38. CASE AcceptRemoteCommit
    BY <1>38, ResolveRows, RowExists, IdleTypes, FileStatements DEF AcceptRemoteCommit,
       TypeOK, db, workers, history, Writer, SaveRow
  <1>39. CASE AgentCas
    <2>1. Row \in SaveRow
      BY <1>39, RowExists DEF AgentCas
    <2>2. /\ remote' \in Hash /\ installed' \in SUBSET Content
          /\ overwritten' \in SUBSET Hash
      BY <1>39, <2>1 DEF AgentCas, Install, TypeOK, SaveRow, Hash
    <2>3. writer' \in Writer
      <3>1. writer \in Writer /\ remote \in Hash
        BY DEF TypeOK
      <3>2. CASE writer' = [writer EXCEPT !.pc = "reply", !.outcome = "applied"]
        BY <3>1, <3>2 DEF Writer
      <3>3. ASSUME NEW copy \in {"none", "full", "partial"},
                   writer' = [writer EXCEPT !.pc = "reply", !.outcome = "conflict",
                                            !.actual = remote, !.copy = copy]
            PROVE  writer' \in Writer
        BY <3>1, <3>3 DEF Writer
      <3>4. \/ writer' = [writer EXCEPT !.pc = "reply", !.outcome = "applied"]
            \/ \E copy \in {"none", "full", "partial"} :
                 writer' = [writer EXCEPT !.pc = "reply", !.outcome = "conflict",
                                          !.actual = remote, !.copy = copy]
        BY <1>39, Zenon DEF AgentCas
      <3> QED
        BY <3>2, <3>3, <3>4
    <2> QED
      BY <1>39, <2>2, <2>3 DEF AgentCas, TypeOK, db
  <1>40. CASE AgentCasLate
    BY <1>40 DEF AgentCasLate, TypeOK, db, workers, history, Upload, Install, Hash
  <1>41. ASSUME NEW t \in Threads, OpRestoreFile(t) PROVE TypeOK'
    <2>1. op[t].bytes \in Hash
      BY DEF TypeOK, Op
    <2> QED
      BY <1>41, <2>1, RereadType DEF OpRestoreFile, TypeOK, db, history
  <1>42. ASSUME NEW t \in Threads, OpReopen(t) PROVE TypeOK'
    <2>1. op' \in [Threads -> Op]
      BY <1>42, BeginType, IdleTypes DEF OpReopen, TypeOK
    <2>2. reader' \in Reader
      BY <1>42 DEF OpReopen, TypeOK, Reader
    <2> QED
      BY <1>42, <2>1, <2>2 DEF OpReopen, TypeOK, db, history
  <1>43. ASSUME NEW t \in Threads, OpReread(t) PROVE TypeOK'
    <2>1. op' \in [Threads -> Op] /\ reader' \in Reader
      BY <1>43, IdleTypes, AfterSyncType DEF OpReread, TypeOK
    <2> QED
      BY <1>43, <2>1 DEF OpReread, TypeOK, db, history
  <1>44. CASE AcceptRemoteHash
    <2>1. writer' \in Writer
      BY <1>44, IdleTypes DEF AcceptRemoteHash, TypeOK, Writer
    <2> QED
      BY <1>44, <2>1 DEF AcceptRemoteHash, TypeOK, db, history
  <1> QED
    BY <1>1, <1>2, <1>3, <1>4, <1>5, <1>6, <1>7, <1>8, <1>9, <1>10, <1>11, <1>12, <1>13,
       <1>14, <1>15, <1>16, <1>17, <1>18, <1>19, <1>20, <1>21, <1>22, <1>23, <1>24, <1>25,
       <1>26, <1>27, <1>28, <1>29, <1>30, <1>31, <1>32, <1>33, <1>34, <1>35, <1>36, <1>37,
       <1>38, <1>39, <1>40, <1>41, <1>42, <1>43, <1>44 DEF Next, Environment, OpStep,
       ThreadStep, ReadLane, WriteLane

\* Where a finished check sends the read-lane worker.
LEMMA AfterSyncGoes ==
    ASSUME Base, op["read"].pc # "idle", NEW entry \in FileRow
    PROVE  /\ AfterSync(entry).doing = reader.doing
           /\ AfterSync(entry).bytes = reader.bytes
           /\ AfterSync(entry).entry = entry
           /\ AfterSync(entry).pc \in {"idle", "fetch", "rename", "verdict"}
           /\ AfterSync(entry).pc = "rename" => reader.doing = "hydrate" /\ reader.bytes \in Content
  <1>1. reader \in Reader /\ reader.pc \in {"check", "target"}
    BY DEF Base, TypeOK, CarriedOK
  <1>2. reader.doing \in {"hydrate", "validate"}
    BY <1>1 DEF Reader
  <1> QED
    BY <1>1, <1>2 DEF Base, CarriedOK, AfterSync, Reader

\* A thread whose check or enqueue ends carries nothing; the others keep theirs.
LEMMA OpEnds ==
    ASSUME TypeOK, NEW t \in Threads, op' = [op EXCEPT ![t] = IdleOp]
    PROVE  /\ op'[t] = IdleOp
           /\ \A u \in Threads \ {t} : op'[u] = op[u]
  BY DEF TypeOK

\* The end of a check or enqueue, on any thread.
LEMMA OpEndsCarried ==
    ASSUME Base, NEW t \in Threads, op[t].pc # "idle", op' = [op EXCEPT ![t] = IdleOp],
           NEW entry \in FileRow,
           reader' = IF t = "read" THEN AfterSync(entry) ELSE reader
    PROVE  CarriedOK'
  <1>1. \A u \in Threads : op'[u].pc \in {"restore", "base", "commit"} => op'[u].bytes \in Content
    BY OpEnds DEF Base, CarriedOK, IdleOp
  <1>2. CASE t = "read"
    <2>1. op'["read"].pc = "idle"
      <3>1. op'[t] = IdleOp
        BY OpEnds DEF Base
      <3> QED
        BY <1>2, <3>1 DEF IdleOp
    <2>2. /\ reader'.doing = reader.doing /\ reader'.bytes = reader.bytes
          /\ reader'.pc \in {"idle", "fetch", "rename", "verdict"}
          /\ reader'.pc = "rename" => reader.doing = "hydrate" /\ reader.bytes \in Content
      BY <1>2, AfterSyncGoes
    <2> QED
      BY <1>1, <2>1, <2>2 DEF CarriedOK
  <1>3. CASE t # "read"
    <2>1. op'["read"] = op["read"] /\ reader' = reader
      BY <1>3, OpEnds DEF Base, Threads
    <2> QED
      BY <1>1, <2>1 DEF Base, CarriedOK
  <1> QED
    BY <1>2, <1>3

\* A check that has the row still to read again leaves the worker where it is.
LEMMA RecheckCarried ==
    ASSUME Base, NEW t \in Threads, op[t].pc # "idle", NEW kind, Recheck(t, kind), reader' = reader
    PROVE  CarriedOK'
  <1>1. /\ op'[t].pc \in {"idle", "reread"}
        /\ op'[t].pc = "reread" => t = "read"
        /\ \A u \in Threads \ {t} : op'[u] = op[u]
    BY RecheckType DEF Base
  <1> QED
    BY <1>1 DEF Base, CarriedOK, Threads

\* A thread that starts one carries the entry it read.
LEMMA OpBegins ==
    ASSUME TypeOK, NEW t \in Threads, NEW kind, Begin(t, kind)
    PROVE  /\ op'[t].pc = "read" /\ op'[t].entry = file /\ op'[t].base = NoHash
           /\ op'[t].kind = kind
           /\ \A u \in Threads \ {t} : op'[u] = op[u]
  BY DEF TypeOK, Begin, IdleOp

\* Every step keeps what the program counters promise.
LEMMA CarriedStep ==
    ASSUME Base, Next PROVE CarriedOK'
  <1> USE DEF Base
  <1>1. CASE EditorWrite
    BY <1>1 DEF EditorWrite, CarriedOK, db, workers, history
  <1>2. CASE ExternalWrite
    BY <1>2 DEF ExternalWrite, CarriedOK, db, workers
  <1>3. CASE DeleteLocal
    BY <1>3 DEF DeleteLocal, CarriedOK, db, workers, history
  <1>4. CASE DamageSnapshot
    BY <1>4 DEF DamageSnapshot, CarriedOK, workers, history
  <1>5. CASE Crash
    BY <1>5 DEF Crash, CarriedOK, db, history, IdleOp, IdleReader, TypeOK, Threads, Op, Hash
  <1>6. ASSUME NEW t \in Threads, OpUnreadable(t) PROVE CarriedOK'
    BY <1>6 DEF OpUnreadable, CarriedOK, db, history, IdleOp, IdleReader, TypeOK, Threads, Op, Hash
  <1>7. ASSUME NEW t \in Threads, OpClean(t) PROVE CarriedOK'
    <2>1. op[t].entry \in FileRow
      BY DEF TypeOK, Op
    <2> QED
      BY <1>7, <2>1, OpEndsCarried DEF OpClean
  <1>8. ASSUME NEW t \in Threads, OpChanged(t) PROVE CarriedOK'
    BY <1>8 DEF OpChanged, CarriedOK, db, history, TypeOK, Threads, Op, Hash
  <1>9. ASSUME NEW t \in Threads, OpRestored(t) PROVE CarriedOK'
    BY <1>9, RecheckCarried DEF OpRestored
  <1>10. ASSUME NEW t \in Threads, OpReadBytes(t) PROVE CarriedOK'
    BY <1>10, SMTT(40) DEF OpReadBytes, CarriedOK, db, history, TypeOK, Threads, Op, Hash
  <1>11. ASSUME NEW t \in Threads, OpReadBase(t) PROVE CarriedOK'
    <2>1. PICK base : op' = [op EXCEPT ![t] = [op[t] EXCEPT !.pc = "commit", !.base = base]]
      BY <1>11 DEF OpReadBase
    <2>2. /\ op'[t].pc = "commit" /\ op'[t].bytes = op[t].bytes
          /\ \A u \in Threads \ {t} : op'[u] = op[u]
      BY <2>1 DEF TypeOK, Op
    <2> QED
      BY <1>11, <2>2 DEF OpReadBase, CarriedOK, Threads
  <1>12. ASSUME NEW t \in Threads, OpCommit(t) PROVE CarriedOK'
    BY <1>12, RecheckCarried DEF OpCommit
  <1>13. CASE PrepareFlush
    BY <1>13 DEF PrepareFlush, CarriedOK, db, history, Begin, TypeOK, Threads, Op, Hash, IdleOp
  <1>14. CASE PassOnLargeFlush
    BY <1>14 DEF PassOnLargeFlush, CarriedOK, db, history
  <1>15. CASE TryOpen
    BY <1>15, OpenType DEF TryOpen, CarriedOK, Threads
  <1>16. CASE ScanMetadata
    BY <1>16 DEF ScanMetadata, CarriedOK, workers, history
  <1>17. CASE HydrateStart
    <2>1. CASE CachedOpen("read") /\ reader' = [IdleReader EXCEPT !.pc = "check"]
      BY <2>1, OpenType DEF CarriedOK, IdleReader, Threads
    <2>2. CASE reader' = [IdleReader EXCEPT !.pc = "fetch"] /\ UNCHANGED op
      BY <1>17, <2>2 DEF HydrateStart, CarriedOK, IdleReader
    <2> QED
      BY <1>17, <2>1, <2>2 DEF HydrateStart
  <1>18. CASE ValidateStart
    <2>1. CASE /\ Begin("read", "sync")
               /\ reader' = [IdleReader EXCEPT !.pc = "check", !.doing = "validate"]
      BY <2>1, OpBegins DEF CarriedOK, IdleReader, Threads
    <2>2. CASE /\ reader' = [IdleReader EXCEPT !.doing = "validate", !.entry = file,
                                !.pc = IF file.dirty THEN "verdict" ELSE "fetch"]
               /\ UNCHANGED op
      BY <1>18, <2>2 DEF ValidateStart, CarriedOK, IdleReader
    <2>3. CASE /\ reader' = [IdleReader EXCEPT !.pc = "fetch", !.doing = "validate"]
               /\ UNCHANGED op
      BY <1>18, <2>3 DEF ValidateStart, CarriedOK, IdleReader
    <2> QED
      BY <1>18, <2>1, <2>2, <2>3 DEF ValidateStart
  <1>19. CASE ReaderFetch
    BY <1>19 DEF ReaderFetch, CarriedOK, db, history, TypeOK, Hash
  <1>20. CASE ReaderAbort
    BY <1>20 DEF ReaderAbort, CarriedOK, history, IdleReader
  <1>21. CASE ReaderTarget
    <2>1. reader.doing \in {"hydrate", "validate"} /\ reader.pc = "answered"
      BY <1>21 DEF ReaderTarget, TypeOK, Reader
    <2>2. CASE Begin("read", "sync") /\ reader' = [reader EXCEPT !.pc = "target"]
      BY <2>1, <2>2, OpBegins DEF CarriedOK, TypeOK, Reader, Threads
    <2>3. CASE ~HasLocalCopy(file)
      <3>1. /\ reader'.doing = reader.doing /\ reader'.bytes = reader.bytes
            /\ reader'.pc \in {"verdict", "idle", "rename", "record"}
            /\ reader'.pc \in {"rename", "record"} => reader.doing = "hydrate"
        BY <1>21, <2>1, <2>3 DEF ReaderTarget, TypeOK, Reader
      <3> QED
        BY <1>21, <2>1, <2>3, <3>1 DEF ReaderTarget, CarriedOK
    <2> QED
      BY <1>21, <2>2, <2>3 DEF ReaderTarget
  <1>22. CASE ReaderRename
    BY <1>22 DEF ReaderRename, CarriedOK, db, history
  <1>23. CASE ReaderRecord
    BY <1>23 DEF ReaderRecord, CarriedOK, IdleReader
  <1>24. CASE ReaderVerdict
    BY <1>24 DEF ReaderVerdict, CarriedOK, history, IdleReader
  <1>25. CASE FlushLarge
    BY <1>25 DEF FlushLarge, CarriedOK, db, history, Begin, TypeOK, Threads, Op, Hash, IdleOp
  <1>26. CASE RecoverLocalEdits
    BY <1>26 DEF RecoverLocalEdits, CarriedOK, db, history, Begin, TypeOK, Threads, Op, Hash, IdleOp
  <1>27. CASE FlushQueued
    BY <1>27 DEF FlushQueued, CarriedOK, db, history
  <1>28. CASE FlushQueue
    BY <1>28 DEF FlushQueue, CarriedOK, db, history
  <1>29. CASE SnapshotUnusable
    BY <1>29 DEF SnapshotUnusable, CarriedOK, history
  <1>30. CASE AgentUnreachable
    BY <1>30 DEF AgentUnreachable, CarriedOK, history
  <1>31. CASE SendUpload
    BY <1>31 DEF SendUpload, CarriedOK, db, history
  <1>32. CASE UploadLost
    BY <1>32 DEF UploadLost, CarriedOK, history
  <1>33. CASE RecordOutcome
    BY <1>33 DEF RecordOutcome, CarriedOK
  <1>34. CASE AcceptLocalCheck
    BY <1>34 DEF AcceptLocalCheck, CarriedOK, db, history
  <1>35. CASE AcceptLocalCommit
    BY <1>35 DEF AcceptLocalCommit, CarriedOK, history
  <1>36. CASE AcceptRemoteCheck
    BY <1>36 DEF AcceptRemoteCheck, CarriedOK, db, history
  <1>37. CASE AcceptRemoteWrite
    BY <1>37 DEF AcceptRemoteWrite, CarriedOK, db, history
  <1>38. CASE AcceptRemoteCommit
    BY <1>38 DEF AcceptRemoteCommit, CarriedOK, history
  <1>39. CASE AgentCas
    BY <1>39 DEF AgentCas, CarriedOK, db
  <1>40. CASE AgentCasLate
    BY <1>40 DEF AgentCasLate, CarriedOK, db
  <1>41. ASSUME NEW t \in Threads, OpRestoreFile(t) PROVE CarriedOK'
    BY <1>41, RereadType DEF OpRestoreFile, CarriedOK, Threads
  <1>42. ASSUME NEW t \in Threads, OpReopen(t) PROVE CarriedOK'
    <2>1. CASE Begin(t, "sync") /\ reader' = reader
      BY <1>42, <2>1, OpBegins DEF OpReopen, CarriedOK, Threads
    <2>2. CASE /\ op' = [op EXCEPT ![t] = IdleOp]
               /\ reader' = IF t = "read" THEN [reader EXCEPT !.pc = "fetch"] ELSE reader
      <3>1. op'[t].pc = "idle" /\ \A u \in Threads \ {t} : op'[u] = op[u]
        BY <2>2 DEF IdleOp, TypeOK
      <3>2. t = "read" => reader'.pc = "fetch"
        BY <2>2 DEF TypeOK, Reader
      <3> QED
        BY <2>2, <3>1, <3>2 DEF CarriedOK, Threads
    <2> QED
      BY <1>42, <2>1, <2>2 DEF OpReopen
  <1>43. ASSUME NEW t \in Threads, OpReread(t) PROVE CarriedOK'
    <2>1. file \in FileRow
      BY DEF TypeOK
    <2> QED
      BY <1>43, <2>1, OpEndsCarried DEF OpReread
  <1>44. CASE AcceptRemoteHash
    BY <1>44 DEF AcceptRemoteHash, CarriedOK, db, history
  <1> QED
    BY <1>1, <1>2, <1>3, <1>4, <1>5, <1>6, <1>7, <1>8, <1>9, <1>10, <1>11, <1>12, <1>13,
       <1>14, <1>15, <1>16, <1>17, <1>18, <1>19, <1>20, <1>21, <1>22, <1>23, <1>24, <1>25,
       <1>26, <1>27, <1>28, <1>29, <1>30, <1>31, <1>32, <1>33, <1>34, <1>35, <1>36, <1>37,
       <1>38, <1>39, <1>40, <1>41, <1>42, <1>43, <1>44 DEF Next, Environment, OpStep,
       ThreadStep, ReadLane, WriteLane

\* Every step keeps the discipline of the write lane.
LEMMA LaneStep ==
    ASSUME Base, Next PROVE LaneOK'
  <1> USE DEF Base
  <1>1. CASE EditorWrite
    BY <1>1 DEF EditorWrite, LaneOK, db, workers, history, Row
  <1>2. CASE ExternalWrite
    BY <1>2 DEF ExternalWrite, LaneOK, db, workers, Row
  <1>3. CASE DeleteLocal
    BY <1>3 DEF DeleteLocal, LaneOK, db, workers, history, Row
  <1>4. CASE DamageSnapshot
    BY <1>4 DEF DamageSnapshot, LaneOK, workers, history, ReplayableIds, Row
  <1>5. CASE Crash
    BY <1>5 DEF Crash, LaneOK, db, history, IdleOp, IdleWriter, TypeOK, Threads, Writer, Row
  <1>6. ASSUME NEW t \in Threads, OpUnreadable(t) PROVE LaneOK'
    BY <1>6 DEF OpUnreadable, LaneOK, db, history, IdleOp, TypeOK, Threads, Row
  <1>7. ASSUME NEW t \in Threads, OpClean(t) PROVE LaneOK'
    BY <1>7 DEF OpClean, LaneOK, db, history, IdleOp, TypeOK, Threads, Row
  <1>8. ASSUME NEW t \in Threads, OpChanged(t) PROVE LaneOK'
    BY <1>8 DEF OpChanged, LaneOK, db, history, TypeOK, Threads, Row
  <1>9. ASSUME NEW t \in Threads, OpRestored(t) PROVE LaneOK'
    <2>1. op'["write"].pc = op["write"].pc \/ op'["write"].pc = "idle"
      BY <1>9, RecheckType DEF OpRestored, Threads
    <2> QED
      BY <1>9, <2>1 DEF OpRestored, LaneOK, Row
  <1>10. ASSUME NEW t \in Threads, OpReadBytes(t) PROVE LaneOK'
    BY <1>10 DEF OpReadBytes, LaneOK, db, history, TypeOK, Threads, Row
  <1>11. ASSUME NEW t \in Threads, OpReadBase(t) PROVE LaneOK'
    BY <1>11 DEF OpReadBase, LaneOK, db, history, TypeOK, Threads, Row
  <1>12. ASSUME NEW t \in Threads, OpCommit(t) PROVE LaneOK'
    <2>1. op[t].bytes \in Content /\ op[t].base \in Hash
      BY <1>12 DEF OpCommit, CarriedOK, TypeOK, Op
    <2>2. /\ DOMAIN queue' = DOMAIN queue \cup {Len(queue) + 1}
          /\ \A i \in DOMAIN queue : queue'[i] = queue[i]
          /\ queue'[Len(queue) + 1].state = "pending"
      <3>1. queue \in Seq(SaveRow) /\ queue' = EnqueueRow(queue, op[t].base, op[t].bytes)
        BY <1>12 DEF OpCommit, TypeOK
      <3> QED
        <4> DEFINE q == EnqueueRow(queue, op[t].base, op[t].bytes)
        <4>1. DOMAIN q = DOMAIN queue \cup {Len(queue) + 1}
          BY <2>1, <3>1, EnqueuedRow
        <4>2. \A i \in DOMAIN queue : q[i] = queue[i]
          BY <3>1, EnqueuedFields
        <4>3. q[Len(queue) + 1].state = "pending"
          BY <3>1, EnqueuedFields
        <4> HIDE DEF q
        <4> QED
          BY <3>1, <4>1, <4>2, <4>3 DEF q
    <2>3. /\ ReplayableIds(queue) \subseteq ReplayableIds(queue')
          /\ Len(queue) + 1 \in ReplayableIds(queue')
      BY <2>2 DEF ReplayableIds, Replayable
    <2>4. op'["write"].pc # "idle" => t # "write" /\ op["write"].pc # "idle"
      <3>1. /\ op'[t].pc \in {"idle", "reread"}
            /\ op'[t].pc = "reread" => t = "read"
            /\ \A u \in Threads \ {t} : op'[u] = op[u]
        BY <1>12, RecheckType DEF OpCommit
      <3> QED
        BY <3>1 DEF Threads
    <2>5. CASE writer' = writer
      BY <2>2, <2>3, <2>4, <2>5 DEF LaneOK, Row
    <2>6. CASE t = "write" /\ writer' = [writer EXCEPT !.todo = {Len(queue) + 1}]
      <3>1. op["write"].pc # "idle" /\ writer.pc = "idle"
        BY <1>12, <2>6 DEF OpCommit, LaneOK
      <3>2. writer'.pc = "idle" /\ writer'.todo = {Len(queue) + 1}
        BY <2>6, <3>1 DEF TypeOK, Writer
      <3> QED
        BY <2>3, <2>4, <2>6, <3>2 DEF LaneOK
    <2> QED
      BY <1>12, <2>5, <2>6 DEF OpCommit
  <1>13. CASE PrepareFlush
    BY <1>13, OpBegins DEF PrepareFlush, LaneOK, db, history, Threads, Row
  <1>14. CASE PassOnLargeFlush
    BY <1>14 DEF PassOnLargeFlush, LaneOK, db, history, Row
  <1>15. CASE TryOpen
    BY <1>15, OpenType DEF TryOpen, LaneOK, db, history, Threads, Row
  <1>16. CASE ScanMetadata
    BY <1>16 DEF ScanMetadata, LaneOK, workers, history, Row
  <1>17. CASE HydrateStart
    BY <1>17, OpenType DEF HydrateStart, LaneOK, db, history, Threads, Row
  <1>18. CASE ValidateStart
    BY <1>18, OpBegins DEF ValidateStart, LaneOK, db, history, Threads, Row
  <1>19. CASE ReaderFetch
    BY <1>19 DEF ReaderFetch, LaneOK, db, history, Row
  <1>20. CASE ReaderAbort
    BY <1>20 DEF ReaderAbort, LaneOK, history, Row
  <1>21. CASE ReaderTarget
    BY <1>21, OpBegins DEF ReaderTarget, LaneOK, db, history, Threads, Row
  <1>22. CASE ReaderRename
    BY <1>22 DEF ReaderRename, LaneOK, db, history, Row
  <1>23. CASE ReaderRecord
    BY <1>23 DEF ReaderRecord, LaneOK, Row
  <1>24. CASE ReaderVerdict
    BY <1>24 DEF ReaderVerdict, LaneOK, history, Row
  <1>25. CASE FlushLarge
    BY <1>25, OpBegins DEF FlushLarge, LaneOK, db, history, WriterFree, Threads, Row
  <1>26. CASE RecoverLocalEdits
    BY <1>26, OpBegins DEF RecoverLocalEdits, LaneOK, db, history, WriterFree, Threads, Row
  <1>27. CASE FlushQueued
    BY <1>27 DEF FlushQueued, LaneOK, db, history, WriterFree, TypeOK, Writer, Row
  <1>28. CASE FlushQueue
    BY <1>28 DEF FlushQueue, LaneOK, db, history, WriterFree, TypeOK, Writer, Row
  <1>29. CASE SnapshotUnusable
    <2>1. PICK i \in NextRows : /\ queue' = MarkFailedRow(queue, i)
                               /\ writer' = [IdleWriter EXCEPT !.todo = writer.todo \ {i}]
      BY <1>29 DEF SnapshotUnusable
    <2>2. i \in writer.todo /\ i \in DOMAIN queue /\ writer.pc = "idle"
      BY <1>29, RowExists DEF NextRows, SnapshotUnusable
    <2>3. DOMAIN queue' = DOMAIN queue /\ \A j \in DOMAIN queue \ {i} : queue'[j] = queue[j]
      <3>1. queue \in Seq(SaveRow)
        BY DEF TypeOK
      <3>2. /\ DOMAIN MarkFailedRow(queue, i) = DOMAIN queue
            /\ \A j \in DOMAIN queue \ {i} : MarkFailedRow(queue, i)[j] = queue[j]
        BY <2>2, <3>1, MarkRow, OtherRows
      <3> QED
        BY <2>1, <3>2
    <2>4. writer'.pc = "idle" /\ writer'.todo = writer.todo \ {i}
      BY <2>1 DEF IdleWriter
    <2>5. writer'.todo \subseteq ReplayableIds(queue')
      BY <2>3, <2>4 DEF LaneOK, ReplayableIds
    <2>6. op["write"].pc = "idle" /\ op' = op
      BY <1>29, <2>2 DEF LaneOK, SnapshotUnusable
    <2> QED
      BY <2>4, <2>5, <2>6 DEF LaneOK
  <1>30. CASE AgentUnreachable
    BY <1>30, SMTT(40) DEF AgentUnreachable, LaneOK, history, IdleWriter, TypeOK, Writer,
       ReplayableIds, Row
  <1>31. CASE SendUpload
    <2>1. PICK i \in NextRows : writer' = [writer EXCEPT !.pc = "wait", !.row = i]
      BY <1>31 DEF SendUpload
    <2>2. i \in writer.todo
      BY DEF NextRows
    <2>3. writer'.pc = "wait" /\ writer'.todo = writer.todo /\ writer'.row = i
      BY <2>1 DEF TypeOK, Writer
    <2>4. op["write"].pc = "idle" /\ op' = op /\ queue' = queue
      BY <1>31, <2>2 DEF LaneOK, SendUpload, db
    <2> QED
      BY <2>2, <2>3, <2>4 DEF LaneOK
  <1>32. CASE UploadLost
    BY <1>32 DEF UploadLost, LaneOK, history, IdleWriter, TypeOK, Writer, ReplayableIds, Row
  <1>33. CASE RecordOutcome
    <2>1. writer.row \in DOMAIN queue /\ writer.row \in writer.todo
      BY <1>33, RowExists DEF RecordOutcome, LaneOK
    <2>2. writer.actual \in Hash /\ writer.copy \in {"none", "full", "partial"}
      BY DEF TypeOK, Writer
    <2>3. /\ DOMAIN queue' = DOMAIN queue
          /\ \A j \in DOMAIN queue \ {writer.row} : queue'[j] = queue[j]
      <3>1. queue \in Seq(SaveRow)
        BY DEF TypeOK
      <3> DEFINE q1 == MarkAppliedRow(queue, writer.row)
                 q2 == RecordConflictRow(queue, writer.row, writer.actual, writer.copy)
      <3>2. /\ DOMAIN q1 = DOMAIN queue
            /\ \A j \in DOMAIN queue \ {writer.row} : q1[j] = queue[j]
        BY <2>1, <3>1, MarkRow, OtherRows
      <3>3. /\ DOMAIN q2 = DOMAIN queue
            /\ \A j \in DOMAIN queue \ {writer.row} : q2[j] = queue[j]
        BY <2>1, <2>2, <3>1, ConflictRow, OtherRows
      <3>4. queue' = q1 \/ queue' = q2
        BY <1>33 DEF RecordOutcome
      <3> HIDE DEF q1, q2
      <3> QED
        BY <3>2, <3>3, <3>4
    <2>4. writer'.pc = "idle" /\ writer'.todo = writer.todo \ {writer.row}
      BY <1>33 DEF RecordOutcome, IdleWriter
    <2>5. writer'.todo \subseteq ReplayableIds(queue')
      BY <2>3, <2>4 DEF LaneOK, ReplayableIds
    <2>6. op["write"].pc = "idle" /\ op' = op
      BY <1>33, <2>1 DEF LaneOK, RecordOutcome
    <2> QED
      BY <2>4, <2>5, <2>6 DEF LaneOK
  <1>34. CASE AcceptLocalCheck
    BY <1>34 DEF AcceptLocalCheck, LaneOK, db, history, WriterFree, Resolvable, TypeOK, Writer, Row
  <1>35. CASE AcceptLocalCommit
    <2>1. writer.row \in DOMAIN queue /\ queue[writer.row].state = "conflict"
      BY <1>35 DEF AcceptLocalCommit, LaneOK, Row
    <2>2. queue[writer.row] \in SaveRow
      BY <2>1 DEF TypeOK
    <2>3. queue'[writer.row].state = "pending" /\ writer.row \in DOMAIN queue'
      <3>1. writer.row \in Nat
        BY DEF TypeOK, Writer
      <3>2. /\ DOMAIN PrepareAcceptLocal(queue, writer.row) = DOMAIN queue
            /\ PrepareAcceptLocal(queue, writer.row)[writer.row].state = "pending"
        BY <2>1, <2>2, <3>1, AcceptedRow DEF TypeOK
      <3> QED
        BY <1>35, <2>1, <3>2 DEF AcceptLocalCommit
    <2>4. writer'.pc = "idle" /\ writer'.todo = {writer.row}
      BY <1>35 DEF AcceptLocalCommit, IdleWriter
    <2>5. writer'.todo \subseteq ReplayableIds(queue')
      BY <2>3, <2>4 DEF ReplayableIds, Replayable
    <2>6. op["write"].pc = "idle" /\ op' = op
      BY <1>35 DEF LaneOK, AcceptLocalCommit
    <2> QED
      BY <2>4, <2>5, <2>6 DEF LaneOK
  <1>36. CASE AcceptRemoteCheck
    BY <1>36 DEF AcceptRemoteCheck, LaneOK, db, history, WriterFree, Resolvable, TypeOK, Writer, Row
  <1>37. CASE AcceptRemoteWrite
    BY <1>37 DEF AcceptRemoteWrite, LaneOK, db, history, TypeOK, Writer, Row
  <1>38. CASE AcceptRemoteCommit
    BY <1>38 DEF AcceptRemoteCommit, LaneOK, history, IdleWriter, TypeOK, Writer, ReplayableIds, Row
  <1>39. CASE AgentCas
    BY <1>39 DEF AgentCas, LaneOK, db, TypeOK, Writer, Row
  <1>40. CASE AgentCasLate
    BY <1>40 DEF AgentCasLate, LaneOK, db, Row
  <1>41. ASSUME NEW t \in Threads, OpRestoreFile(t) PROVE LaneOK'
    BY <1>41, RereadType DEF OpRestoreFile, LaneOK, db, Threads, Row
  <1>42. ASSUME NEW t \in Threads, OpReopen(t) PROVE LaneOK'
    <2>1. op'["write"].pc # "idle" => op["write"].pc # "idle"
      BY <1>42, OpBegins, OpEnds DEF OpReopen, IdleOp, Threads
    <2> QED
      BY <1>42, <2>1 DEF OpReopen, LaneOK, db, Row
  <1>43. ASSUME NEW t \in Threads, OpReread(t) PROVE LaneOK'
    BY <1>43 DEF OpReread, LaneOK, db, history, IdleOp, TypeOK, Threads, Row
  <1>44. CASE AcceptRemoteHash
    BY <1>44 DEF AcceptRemoteHash, LaneOK, db, history, TypeOK, Writer, IdleWriter, Row
  <1> QED
    BY <1>1, <1>2, <1>3, <1>4, <1>5, <1>6, <1>7, <1>8, <1>9, <1>10, <1>11, <1>12, <1>13,
       <1>14, <1>15, <1>16, <1>17, <1>18, <1>19, <1>20, <1>21, <1>22, <1>23, <1>24, <1>25,
       <1>26, <1>27, <1>28, <1>29, <1>30, <1>31, <1>32, <1>33, <1>34, <1>35, <1>36, <1>37,
       <1>38, <1>39, <1>40, <1>41, <1>42, <1>43, <1>44 DEF Next, Environment, OpStep,
       ThreadStep, ReadLane, WriteLane

\* The base invariant is inductive.
LEMMA BaseStep == Base /\ [Next]_vars => Base'
  <1>1. ASSUME Base, Next PROVE Base'
    BY <1>1, TypeStep, CarriedStep, LaneStep DEF Base
  <1>2. ASSUME Base, UNCHANGED vars PROVE Base'
    BY <1>2 DEF Base, vars, TypeOK, CarriedOK, LaneOK, Row
  <1> QED
    BY <1>1, <1>2

\* Types, carried values and the state of the lanes hold in every reachable state.
LEMMA BaseInvariant == Spec => []Base
  BY BaseInit, BaseStep, PTL DEF Spec

\* The variables of SaveMirror keep their types in every reachable state.
THEOREM TypeCorrect == Spec => []TypeOK
  <1>1. Base => TypeOK
    BY DEF Base
  <1> QED
    BY <1>1, BaseInvariant, PTL
=============================================================================
