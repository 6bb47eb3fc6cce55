------------------------------ MODULE AgentWrite ------------------------------
(***************************************************************************)
(* The write requests of nrm-agent: WriteFileCas for small files and       *)
(* Begin / Chunk / Finish / Abort for large ones.  Several agent processes *)
(* serve one workspace (every connection of every sidecar starts its own,  *)
(* and one whose connection was given up may still be at work), each       *)
(* handling one request at a time.  They meet in the file system: the      *)
(* target files, temporary files beside them, and one advisory lock per    *)
(* target, which is tried and never waited for.                            *)
(*                                                                         *)
(* A step is one access to the file system that others can observe.  The  *)
(* lock key is the canonical target path (the non-Windows build).          *)
(* A request that is refused at once (busy target, unknown upload, wrong   *)
(* offset, limits) changes nothing but the expired uploads it cleans up.   *)
(***************************************************************************)
EXTENDS Naturals, Sequences, FiniteSets, FiniteSetsExt

CONSTANTS Agent, Path, Content, NoHash,
          Torn,             \* bytes that are no whole content
          Size,             \* Size[c]: how many chunks content c has
          MaxActiveUploads, \* MAX_ACTIVE_UPLOADS
          MaxActiveSize,    \* MAX_ACTIVE_UPLOAD_BYTES, in chunks
          MaxIds,           \* bound: temporary files ever created
          Exits,            \* bound: agent processes that end
          Foreign           \* bound: writes by programs that take no lock

ASSUME HashAssumption == NoHash \notin Content /\ Torn \notin Content /\ Torn # NoHash
ASSUME SizeAssumption == Size \in [Content -> Nat]
ASSUME InstanceAssumption == Path # {} /\ Content # {}
ASSUME BoundAssumption ==
    /\ MaxActiveUploads \in Nat /\ MaxActiveSize \in Nat /\ MaxIds \in Nat
    /\ Exits \in Nat /\ Foreign \in Nat

Hash == Content \cup {NoHash}

VARIABLES
    content,    \* content[p]: the bytes of target file p
    uploads,    \* uploads[a]: AgentState.uploads
    active,     \* active[a]: AgentState.active_write_targets
    locks,      \* locks[a]: targets whose advisory lock process a holds
    handler,    \* handler[a]: the request in progress and its outcome
    temps,      \* ids of the temporary files on disk
    ids,        \* temporary files created so far
    exits, foreign,   \* what is left of the bounds
    abandoned   \* history: temporary files their agent ended or failed to remove

disk == <<content, temps, ids>>
bounds == <<exits, foreign>>
vars == <<content, uploads, active, locks, handler, temps, ids, exits, foreign, abandoned>>

Upload == [id: Nat, path: Path, expected: Hash, content_hash: Content, size: Nat,
           tmp: Seq(Content), expired: BOOLEAN]

\* pc: where the handler is; `tmp`: the assembled file of a finish; `hash`,
\* `outcome`: the reply; `raced` (history): a foreign write hit the target after
\* the handler had read or replaced it for the last time.
Handler == [pc: {"idle", "first", "write", "second", "rename", "report", "conflict"},
            kind: {"cas", "begin", "finish"}, path: Path, expected: Hash, bytes: Content,
            size: Nat, tmp: Seq(Content), id: Nat, raced: BOOLEAN,
            hash: Hash \cup {Torn}, outcome: {"applied", "conflict", "failed"}]

\* A chunk is tagged with the content it was cut from.
Assembles(tmp, c) == Len(tmp) = Size[c] /\ \A k \in 1..Len(tmp) : tmp[k] = c

\* The bytes, and so the hash, of an assembled temporary file.
BytesOf(tmp) ==
    IF \E c \in Content : Assembles(tmp, c) THEN CHOOSE c \in Content : Assembles(tmp, c) ELSE Torn

\* Between requests only the last reply is kept.
Idle(outcome, hash) ==
    [pc |-> "idle", kind |-> "cas", path |-> CHOOSE p \in Path : TRUE, expected |-> NoHash,
     bytes |-> CHOOSE c \in Content : TRUE, size |-> 0, tmp |-> <<>>, id |-> 0,
     raced |-> FALSE, hash |-> hash, outcome |-> outcome]

IdleHandler == Idle("failed", NoHash)

Init ==
    /\ content \in [Path -> Hash]
    /\ uploads = [a \in Agent |-> {}]
    /\ active = [a \in Agent |-> {}]
    /\ locks = [a \in Agent |-> {}]
    /\ handler = [a \in Agent |-> IdleHandler]
    /\ temps = {} /\ ids = 0 /\ exits = Exits /\ foreign = Foreign /\ abandoned = {}

-----------------------------------------------------------------------------
(* Pieces the handlers share. *)

Paths(S) == {u.path : u \in S}
Ids(S) == {u.id : u \in S}

\* cleanup_expired_uploads: what every upload request does before anything else.
Expired(a) == {u \in uploads[a] : u.expired}
Live(a) == uploads[a] \ Expired(a)
LiveActive(a) == active[a] \ Paths(Expired(a))
LiveLocks(a) == locks[a] \ Paths(Expired(a))

\* remove_temp_file, whose failure every caller ignores: the file then stays.
RemoveTemps(S) ==
    \E kept \in SUBSET (S \cap temps) :
        /\ temps' = temps \ (S \ kept)
        /\ abandoned' = abandoned \cup kept

\* Mutant: the limit does not count the upload that is being started.
LimitWithoutNewUpload(a, size) ==
    /\ Cardinality(Live(a)) < MaxActiveUploads
    /\ MapThenSumSet(LAMBDA u : u.size, Live(a)) <= MaxActiveSize

\* enforce_upload_limits.
WithinLimits(a, size) ==
    /\ Cardinality(Live(a)) < MaxActiveUploads
    /\ MapThenSumSet(LAMBDA u : u.size, Live(a)) + size <= MaxActiveSize

\* Mutant: targets are locked within one process only.
LockedByProcess(a, p, own) == p \notin own

\* acquire_write_locks on a target that no process holds, once `own` is what
\* this process still holds.
Lockable(a, p, own) == p \notin own /\ \A b \in Agent \ {a} : p \notin locks[b]

\* Mutant: a request that ends early leaves its target marked active.
ReturnKeepsActive(a, outcome, hash) ==
    /\ handler' = [handler EXCEPT ![a] = Idle(outcome, hash)]
    /\ locks' = [locks EXCEPT ![a] = @ \ {handler[a].path}]
    /\ UNCHANGED active

\* The request ends: the write lock is dropped, and the active target with it
\* when an upload was being finished.
Return(a, outcome, hash) ==
    LET h == handler[a]
    IN  /\ handler' = [handler EXCEPT ![a] = Idle(outcome, hash)]
        /\ locks' = [locks EXCEPT ![a] = @ \ {h.path}]
        /\ active' = [active EXCEPT ![a] = IF h.kind = "finish" THEN @ \ {h.path} ELSE @]

-----------------------------------------------------------------------------
(* The handlers. *)

\* write_file_cas_state, up to the lock.
WriteFileCas(a, p, expected, bytes) ==
    /\ handler[a].pc = "idle"
    /\ p \notin active[a] /\ Lockable(a, p, locks[a])
    /\ locks' = [locks EXCEPT ![a] = @ \cup {p}]
    /\ handler' = [handler EXCEPT ![a] = [IdleHandler EXCEPT !.pc = "first", !.kind = "cas",
                      !.path = p, !.expected = expected, !.bytes = bytes]]
    /\ UNCHANGED <<uploads, active, disk, bounds, abandoned>>

\* begin_write_file_cas, up to the lock.
BeginWriteFileCas(a, p, expected, bytes, size) ==
    /\ handler[a].pc = "idle"
    /\ WithinLimits(a, size)
    /\ p \notin LiveActive(a) /\ Lockable(a, p, LiveLocks(a))
    /\ uploads' = [uploads EXCEPT ![a] = Live(a)]
    /\ active' = [active EXCEPT ![a] = LiveActive(a)]
    /\ locks' = [locks EXCEPT ![a] = LiveLocks(a) \cup {p}]
    /\ RemoveTemps(Ids(Expired(a)))
    /\ handler' = [handler EXCEPT ![a] = [IdleHandler EXCEPT !.pc = "first", !.kind = "begin",
                      !.path = p, !.expected = expected, !.bytes = bytes, !.size = size]]
    /\ UNCHANGED <<content, ids, bounds>>

\* The first look at the target: a conflict, or on to the temporary file.
FirstHash(a) ==
    LET h == handler[a]
    IN  /\ h.pc = "first"
        /\ handler' = [handler EXCEPT ![a] =
                         IF content[h.path] = h.expected THEN [h EXCEPT !.pc = "write"]
                         ELSE [h EXCEPT !.pc = "conflict", !.hash = content[h.path]]]
        /\ UNCHANGED <<uploads, active, locks, disk, bounds, abandoned>>

\* save_conflict reads the file again for its content, then the lock is dropped.
ReportConflict(a) ==
    /\ handler[a].pc = "conflict"
    /\ Return(a, "conflict", handler[a].hash)
    /\ UNCHANGED <<uploads, disk, bounds, abandoned>>

\* write_file_cas_prepared: the temporary file is created and written.
WriteTemp(a) ==
    /\ handler[a].pc = "write" /\ handler[a].kind = "cas"
    /\ ids < MaxIds
    /\ ids' = ids + 1 /\ temps' = temps \cup {ids'}
    /\ handler' = [handler EXCEPT ![a] = [@ EXCEPT !.pc = "second", !.id = ids']]
    /\ UNCHANGED <<content, uploads, active, locks, bounds, abandoned>>

\* Mutant: the upload id is registered as active instead of the target.
StartUploadById(a) ==
    LET h == handler[a]
    IN  /\ h.pc = "write" /\ h.kind = "begin"
        /\ ids < MaxIds
        /\ ids' = ids + 1 /\ temps' = temps \cup {ids'}
        /\ uploads' = [uploads EXCEPT ![a] = @ \cup
               {[id |-> ids', path |-> h.path, expected |-> h.expected, content_hash |-> h.bytes,
                 size |-> h.size, tmp |-> <<>>, expired |-> FALSE]}]
        /\ active' = [active EXCEPT ![a] = @ \cup {ids'}]
        /\ handler' = [handler EXCEPT ![a] = IdleHandler]
        /\ UNCHANGED <<content, locks, bounds, abandoned>>

\* begin_write_file_cas: the upload is registered and keeps the lock.
StartUpload(a) ==
    LET h == handler[a]
    IN  /\ h.pc = "write" /\ h.kind = "begin"
        /\ ids < MaxIds
        /\ ids' = ids + 1 /\ temps' = temps \cup {ids'}
        /\ uploads' = [uploads EXCEPT ![a] = @ \cup
               {[id |-> ids', path |-> h.path, expected |-> h.expected, content_hash |-> h.bytes,
                 size |-> h.size, tmp |-> <<>>, expired |-> FALSE]}]
        /\ active' = [active EXCEPT ![a] = @ \cup {h.path}]
        /\ handler' = [handler EXCEPT ![a] = IdleHandler]
        /\ UNCHANGED <<content, locks, bounds, abandoned>>

\* write_file_chunk: only at the offset written so far, within the declared size.
WriteFileChunk(a, u, offset, c) ==
    /\ handler[a].pc = "idle" /\ u \in Live(a)
    /\ offset = Len(u.tmp) /\ offset + 1 <= u.size
    /\ uploads' = [uploads EXCEPT ![a] = (Live(a) \ {u}) \cup {[u EXCEPT !.tmp = Append(@, c)]}]
    /\ active' = [active EXCEPT ![a] = LiveActive(a)]
    /\ locks' = [locks EXCEPT ![a] = LiveLocks(a)]
    /\ RemoveTemps(Ids(Expired(a)))
    /\ UNCHANGED <<content, handler, ids, bounds>>

\* Mutant: the assembled file is not hashed.
FinishUnverified(a, u) ==
    /\ handler[a].pc = "idle" /\ u \in Live(a) /\ Len(u.tmp) = u.size
    /\ uploads' = [uploads EXCEPT ![a] = Live(a) \ {u}]
    /\ handler' = [handler EXCEPT ![a] =
                     [IdleHandler EXCEPT !.pc = "second", !.kind = "finish", !.path = u.path,
                         !.expected = u.expected, !.bytes = u.content_hash, !.tmp = u.tmp,
                         !.id = u.id]]
    /\ active' = [active EXCEPT ![a] = LiveActive(a)]
    /\ locks' = [locks EXCEPT ![a] = LiveLocks(a)]
    /\ RemoveTemps(Ids(Expired(a)))
    /\ UNCHANGED <<content, ids, bounds>>

\* finish_write_file_cas up to the last look at the target: an incomplete or
\* damaged upload is thrown away.
FinishWriteFileCas(a, u) ==
    LET h == [IdleHandler EXCEPT !.kind = "finish", !.path = u.path, !.expected = u.expected,
                                 !.bytes = u.content_hash, !.tmp = u.tmp, !.id = u.id]
    IN  /\ handler[a].pc = "idle" /\ u \in Live(a)
        /\ uploads' = [uploads EXCEPT ![a] = Live(a) \ {u}]
        /\ IF Len(u.tmp) = u.size /\ BytesOf(u.tmp) = u.content_hash
           THEN /\ handler' = [handler EXCEPT ![a] = [h EXCEPT !.pc = "second"]]
                /\ active' = [active EXCEPT ![a] = LiveActive(a)]
                /\ locks' = [locks EXCEPT ![a] = LiveLocks(a)]
                /\ RemoveTemps(Ids(Expired(a)))
           ELSE /\ handler' = [handler EXCEPT ![a] = IdleHandler]
                /\ active' = [active EXCEPT ![a] = LiveActive(a) \ {u.path}]
                /\ locks' = [locks EXCEPT ![a] = LiveLocks(a) \ {u.path}]
                /\ RemoveTemps(Ids(Expired(a)) \cup {u.id})
        /\ UNCHANGED <<content, ids, bounds>>

\* Mutant: an aborted upload leaves its temporary file.
AbortLeavesTemp(a, aborted) ==
    /\ handler[a].pc = "idle" /\ aborted \subseteq Live(a)
    /\ Cardinality(aborted) <= 1
    /\ uploads' = [uploads EXCEPT ![a] = Live(a) \ aborted]
    /\ active' = [active EXCEPT ![a] = LiveActive(a) \ Paths(aborted)]
    /\ locks' = [locks EXCEPT ![a] = LiveLocks(a) \ Paths(aborted)]
    /\ RemoveTemps(Ids(Expired(a)))
    /\ UNCHANGED <<content, handler, ids, bounds>>

\* abort_write_file_cas; with `aborted` empty, any refused upload request, of
\* which only the clean-up of expired uploads remains.
AbortWriteFileCas(a, aborted) ==
    /\ handler[a].pc = "idle" /\ aborted \subseteq Live(a)
    /\ Cardinality(aborted) <= 1
    /\ uploads' = [uploads EXCEPT ![a] = Live(a) \ aborted]
    /\ active' = [active EXCEPT ![a] = LiveActive(a) \ Paths(aborted)]
    /\ locks' = [locks EXCEPT ![a] = LiveLocks(a) \ Paths(aborted)]
    /\ RemoveTemps(Ids(Expired(a) \cup aborted))
    /\ UNCHANGED <<content, handler, ids, bounds>>

\* Mutant: the base hash is not compared again before the replacement.
RenameUnchecked(a) ==
    /\ handler[a].pc = "second"
    /\ handler' = [handler EXCEPT ![a].pc = "rename"]
    /\ UNCHANGED <<uploads, active, locks, disk, bounds, abandoned>>

\* The second look, with the temporary file ready.
SecondHash(a) ==
    LET h == handler[a]
    IN  /\ h.pc = "second"
        /\ IF content[h.path] = h.expected
           THEN /\ handler' = [handler EXCEPT ![a].pc = "rename"]
                /\ UNCHANGED <<temps, abandoned>>
           ELSE /\ handler' = [handler EXCEPT ![a] = [h EXCEPT !.pc = "conflict",
                                                              !.hash = content[h.path]]]
                /\ RemoveTemps({h.id})
        /\ UNCHANGED <<content, uploads, active, locks, ids, bounds>>

\* What the temporary file holds.
Candidate(h) == IF h.kind = "finish" THEN BytesOf(h.tmp) ELSE h.bytes

\* The temporary file replaces the target; the request can still fail after that.
RenameTemp(a) ==
    LET h == handler[a]
    IN  /\ h.pc = "rename"
        /\ content' = [content EXCEPT ![h.path] = Candidate(h)]
        /\ temps' = temps \ {h.id}
        /\ handler' = [handler EXCEPT ![a].pc = "report"]
        /\ UNCHANGED <<uploads, active, locks, ids, bounds, abandoned>>

\* A finished upload reports the hash of the temporary file; WriteFileCas hashes
\* the target once more.
ReportApplied(a) ==
    LET h == handler[a]
    IN  /\ h.pc = "report"
        /\ Return(a, "applied", IF h.kind = "finish" THEN BytesOf(h.tmp) ELSE content[h.path])
        /\ UNCHANGED <<uploads, disk, bounds, abandoned>>

\* An I/O error.  The temporary file is removed, as well as that can be done, on
\* every error path but one: an error of the second look at the target leaves it.
IoError(a) ==
    LET h == handler[a]
    IN  /\ h.pc \notin {"idle", "conflict"}
        /\ Return(a, "failed", NoHash)
        /\ RemoveTemps({h.id})
        /\ UNCHANGED <<content, uploads, ids, bounds>>

-----------------------------------------------------------------------------
(* The environment. *)

\* UPLOAD_TTL passes for an upload.
Expire(a, u) ==
    /\ u \in uploads[a] /\ ~u.expired
    /\ uploads' = [uploads EXCEPT ![a] = (@ \ {u}) \cup {[u EXCEPT !.expired = TRUE]}]
    /\ UNCHANGED <<active, locks, handler, disk, bounds, abandoned>>

\* The process ends, at any point; the system drops its locks and its temporary
\* files stay.  Another process takes its place.
Exit(a) ==
    LET left == temps \cap (Ids(uploads[a]) \cup {handler[a].id})
    IN  /\ exits > 0 /\ exits' = exits - 1
        /\ uploads' = [uploads EXCEPT ![a] = {}]
        /\ active' = [active EXCEPT ![a] = {}]
        /\ locks' = [locks EXCEPT ![a] = {}]
        /\ handler' = [handler EXCEPT ![a] = IdleHandler]
        /\ abandoned' = abandoned \cup left
        /\ UNCHANGED <<disk, foreign>>

\* A program that takes no lock writes or removes the file.
ForeignWrite(p, c) ==
    /\ foreign > 0 /\ foreign' = foreign - 1
    /\ content' = [content EXCEPT ![p] = c]
    /\ handler' = [a \in Agent |->
                     IF handler[a].pc \in {"rename", "report", "conflict"} /\ handler[a].path = p
                     THEN [handler[a] EXCEPT !.raced = TRUE] ELSE handler[a]]
    /\ UNCHANGED <<uploads, active, locks, temps, ids, exits, abandoned>>

-----------------------------------------------------------------------------
Request(a) ==
    \/ \E p \in Path, e \in Hash, c \in Content :
          \/ WriteFileCas(a, p, e, c)
          \/ \E size \in {Size[d] : d \in Content} : BeginWriteFileCas(a, p, e, c, size)
    \/ \E u \in uploads[a] :
          \/ \E offset \in 0..Len(u.tmp), c \in Content : WriteFileChunk(a, u, offset, c)
          \/ FinishWriteFileCas(a, u)
    \/ \E aborted \in SUBSET uploads[a] : AbortWriteFileCas(a, aborted)

Progress(a) ==
    \/ FirstHash(a) \/ ReportConflict(a) \/ WriteTemp(a) \/ StartUpload(a)
    \/ SecondHash(a) \/ RenameTemp(a) \/ ReportApplied(a)

AgentStep(a) ==
    \/ Request(a) \/ Progress(a) \/ IoError(a) \/ Exit(a)
    \/ \E u \in uploads[a] : Expire(a, u)

\* Agents only; agents and programs that ignore their locks.
AgentNext == \E a \in Agent : AgentStep(a)
Next == AgentNext \/ \E p \in Path, c \in Hash : ForeignWrite(p, c)

AgentSpec == Init /\ [][AgentNext]_vars
Spec == Init /\ [][Next]_vars
-----------------------------------------------------------------------------
(* Properties. *)

\* The type of every variable.
TypeOK ==
    /\ content \in [Path -> Hash \cup {Torn}]
    /\ uploads \in [Agent -> SUBSET Upload]
    /\ active \in [Agent -> SUBSET Path] /\ locks \in [Agent -> SUBSET Path]
    /\ handler \in [Agent -> Handler]
    /\ temps \subseteq Nat /\ abandoned \subseteq Nat /\ ids \in Nat
    /\ exits \in Nat /\ foreign \in Nat

\* The target of the request in progress, and the upload it is finishing.
Held(a) == IF handler[a].pc = "idle" THEN {} ELSE {handler[a].path}
Finishing(a) == IF handler[a].kind = "finish" THEN Held(a) ELSE {}

\* Whatever way a request ends (reply, conflict, refusal, I/O error, expiry,
\* abort, exit), no target stays locked or marked active without an upload or a
\* request in progress, no upload loses its lock, and no two processes hold one
\* lock: active_write_targets, ActiveWriteRelease and WriteLock balance.
LocksAreExact ==
    \A a \in Agent :
        /\ active[a] = Paths(uploads[a]) \cup Finishing(a)
        /\ locks[a] = Paths(uploads[a]) \cup Held(a)
        /\ Held(a) \cap Paths(uploads[a]) = {}
        /\ \A u, v \in uploads[a] : u.path = v.path => u = v
        /\ \A b \in Agent \ {a} : locks[a] \cap locks[b] = {}

\* The limits hold whenever a request has ended, also after uploads expired,
\* were aborted or finished (enforce_upload_limits looks at the new one only).
LimitsHold ==
    \A a \in Agent :
        /\ Cardinality(uploads[a]) <= MaxActiveUploads
        /\ MapThenSumSet(LAMBDA u : u.size, uploads[a]) <= MaxActiveSize

\* A target never holds a part or a mixture of contents, whatever chunks arrive.
ContentIsWhole == \A p \in Path : content[p] # Torn

\* Every temporary file on disk belongs to an upload or a request in progress,
\* unless its agent ended, could not remove it, or could not look at the target a
\* second time: no way a request ends forgets the file.
TempsAreOwned ==
    \A i \in temps \ abandoned :
        \E a \in Agent : i \in Ids(uploads[a]) \cup {handler[a].id}

\* A program that ignores the lock gets in between only after the last look at
\* the target: a write before it, even in the middle of a chunked upload, is
\* found; without such a program the target is what was expected when it is
\* replaced, what was installed when it is reported as applied, and what was
\* reported when it is copied for a conflict.
OnlyForeignRaces ==
    \A a \in Agent :
        LET h == handler[a]
        IN  \/ h.raced
            \/ /\ h.pc = "rename" => content[h.path] = h.expected
               /\ h.pc = "report" => content[h.path] = h.bytes
               /\ h.pc = "conflict" => content[h.path] = h.hash

-----------------------------------------------------------------------------
(* Agents that take the lock implement an atomic compare-and-swap: the step  *)
(* that counts is the rename, or the look at the target that found another   *)
(* hash.                                                                     *)

OpenPc == {"first", "write", "second", "rename"}

CallOf(a) ==
    LET h == handler[a]
    IN  IF h.pc \in OpenPc
        THEN [request |-> [path |-> h.path, expected |-> h.expected, bytes |-> h.bytes],
              status |-> "open", hash |-> NoHash]
        ELSE [request |-> [path |-> {}, expected |-> NoHash, bytes |-> NoHash],
              status |-> IF h.pc = "report" THEN "applied"
                         ELSE IF h.pc = "conflict" THEN "conflict" ELSE h.outcome,
              hash |-> IF h.pc = "report" THEN h.bytes ELSE h.hash]

Cas == INSTANCE AtomicCas WITH call <- [a \in Agent |-> CallOf(a)]

\* Under the lock and its two looks at the target, WriteFileCas and the chunked
\* requests are linearizable: they behave as one indivisible compare-and-swap,
\* which is what the save pipeline takes them for.
CasIsAtomic == Cas!Spec
=============================================================================
