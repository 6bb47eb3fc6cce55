# TLA+ verification of nvim-remote-mirror

nvim-remote-mirror keeps a local mirror of a remote workspace for Neovim. A
Lua plugin talks to a local sidecar process (`nrm-sidecar`), the sidecar talks
to an agent on the remote machine (`nrm-agent`). Saves are written locally,
recorded in a durable queue and uploaded with a compare-and-swap on the remote
hash.

## The parts of the system

| Part | Code | State that matters | Module |
| --- | --- | --- | --- |
| Mirror database | `crates/nrm-sidecar/src/main.rs` (`impl Mirror`) | `files`, `save_queue` | `MirrorStore` |
| Save pipeline | same, `Sidecar::flush*`, `apply_save_entry`, `accept_*`, `FastState` | queue rows, snapshots, local file | `SaveMirror` |
| Hydration and validation | same, `open`, `prefetch`, `validate`, `refresh`, `scan` | local file, `files` row | `SaveMirror` |
| Agent write path | `crates/nrm-agent/src/main.rs` | remote file, uploads, write locks | `AgentWrite`, implements `AtomicCas`; one step of `SaveMirror` |
| Remote scheduler | sidecar `RemoteQueue`, `PendingRemote`, worker loop | lanes, counters, in-flight requests | `RemoteScheduler` |
| Agent client | sidecar `AgentClient` | worker generation, deadlines, backoff | planned `AgentClient` |
| Agent installation | sidecar install transaction, `agent_install.rs`, `windows_agent_install.rs` | staged, backup and active files, journal, lease | `AgentInstall` (POSIX transaction); lease protocol and Windows planned |
| Search index, cached grep | sidecar | `search_*` tables | planned |
| Runtime proxy, agent runtime, PTY | `runtime_proxy.rs`, agent `runtime.rs`, `nrm-pty` | tickets, credits, processes | planned |
| Registry | `crates/nrm-registry` | cache entries | planned |
| Protocol | `crates/nrm-protocol` | frames, sequence rules | planned |
| Lua client, Lua workspace | `lua/nvim_remote_mirror` | pending requests, readiness, deferred flushes, replay on connect | `EditorWrite`, `flush_due` of `SaveMirror`; `SaveReplay`; the rest planned |
| User interface, release tool, shell text | `ui.lua`, `pickers.lua`, `plugin/`, `nrm-registry-release.rs`, `remote_host.rs` | none | left out: presentation and text construction |

## The core: the life of one path

`MirrorStore` is the mirror database for one workspace path. Its operators are
the SQL statements and transactions of `impl Mirror`: what each does to the row
of `files` and to the rows of `save_queue`. Bytes and hashes are identified (the
hash is collision free), so a member of `Content` is both; `NoHash` is SQL NULL
and the content of a file that does not exist. A row's id is its position, since
ids are AUTOINCREMENT and rows are never deleted.

`SaveMirror` has the processes around it:

| Variable | Code |
| --- | --- |
| `remote`, `local_file` | bytes of the remote file and of the local mirror file |
| `file`, `queue` | the database rows |
| `flush_due` | Neovim has asked for a flush that the request loop has not taken |
| `jobs` | write-lane queue for this path: `flush_queued` by row id, 0 for a flush above `FAST_FLUSH_SNAPSHOT_MAX_BYTES` |
| `op[t]` | per thread, the integrity check or enqueue in progress (`sync_cached_file_integrity`, `enqueue_local_save_inner`, `enqueue_save`) |
| `reader` | the read-lane worker: hydrate, prefetch, validate, refresh |
| `writer` | the write-lane worker: flush, replay, conflict commands |
| `late` | uploads the sidecar gave up on that can still reach the agent |
| `budget` | how often each environment event may still happen |
| `seen`, `installed`, `overwritten` | history, read by the properties only |

Three threads touch the mirror, each with its own SQLite connection: the request
loop (`fast`), the read lane and the write lane. One step is one SQL statement or
transaction, or one read or write of a file; everything the code does between two
of them can be interleaved with the other threads. The steps follow the code's
order:

* `Begin`, `OpClean`, `OpChanged`, `OpRestored`, `OpReadBytes`, `OpReadBase`,
  `OpCommit`, `OpReread`: entry read, file hashed, file read, base hash queried
  (outside the transaction, as in `enqueue_save`), transaction committed, entry
  read again. What the other threads do to the row before it is read again is what
  the read-lane worker goes on with.
* `CachedOpen`, `OpRestoreFile`, `OpReopen`: the open of a cached file, on the
  request loop or the read lane. A missing dirty file is looked up, restored from
  its latest snapshot, and its entry read again before the check.
* `PrepareFlush`, `PassOnLargeFlush`, `TryOpen`: the request loop. A flush that
  was snapshotted becomes a `flush_queued` request unless the lane is full. A large
  flush that the full lane refuses changes nothing here: the client keeps it as
  deferred work, which is `flush_due` still being set.
* `HydrateStart` ... `ReaderRecord`: check, fetch, second check
  (`prepare_hydration_target`), rename, `record_hydrated`. `ValidateStart` ...
  `ReaderVerdict`: the same for validation.
* `FlushLarge`, `FlushQueued`, `FlushQueue`, `SnapshotUnusable`, `SendUpload`,
  `AgentCas`, `UploadLost`, `RecordOutcome`: the write lane. Replay goes on after
  a damaged snapshot or a conflict and stops after a remote failure.
* `AcceptLocalCheck`/`Commit`, `AcceptRemoteCheck`/`Hash`/`Write`/`Commit`: the conflict
  commands, whose checks are outside their transactions.
* `EditorWrite`, `ExternalWrite`, `DeleteLocal`, `DamageSnapshot`, `Crash`,
  `AgentCasLate`: the environment.

The agent's compare-and-swap is one step here. `AgentWrite`, below, takes it
apart and shows that it behaves as one step. Writers that ignore the agent's
cooperative lock can slip in before its rename; the documentation says so
(`doc/nvim-remote-mirror.txt:226`), and here they are outside the model.

Abstractions: one path; one read lane (a read that the scheduler sends to the
write lane behaves like one that no upload interleaves with); a large download
is one fetch; a validation answer always carries a hash; the search index is
left out.

### Who drains the queue

`SaveReplay` composes `SaveMirror` with `schedule_save_recovery_on_connect` of the
Lua client. `Connect` starts a replay, whose recovery scan is `RecoverLocalEdits`
of `SaveMirror`. `ReplayOnce` asks for a `flush_queue` of at most `ReplayLimit`
rows. `OnDone` is the client's judgement of the answer: ask again if rows remain
and every attempt was applied, otherwise stop until the next connect. A failed
probe or request (`ReplayFails`) and the end of the session (`SessionLost`) stop it
too. `:RemoteFlushQueue` is the `FlushQueue` of `SaveMirror`, with any bound.

The bounded replay takes the oldest rows first and a row with a damaged snapshot
stays in the queue, so `ReplayLimit` such rows keep all newer saves waiting through
every reconnect. `Blocked` names exactly this state; without it `SavesLeaveQueue`
does not hold. The unbounded command gets past damaged rows (`FlushCommandDrains`).

## The agent's write path

`AgentWrite` models the write requests of several agent processes that serve one
workspace: every sidecar connection starts its own, and one whose connection was
given up may still be at work. Per process, `uploads` and `active` are
`AgentState.uploads` and `active_write_targets`, `locks` the advisory locks it
holds, `handler` the request in progress. `content` and `temps` are the target
files and the temporary files beside them. A step is one access to the file
system another process can observe:

* `WriteFileCas`, or `BeginWriteFileCas`, `WriteFileChunk`, `FinishWriteFileCas`,
  `AbortWriteFileCas`: a request is taken, up to the lock or the end. All but the
  first clean up expired uploads before anything else.
* `FirstHash`, `WriteTemp`, `StartUpload`, `SecondHash`, `RenameTemp`,
  `ReportApplied`, `ReportConflict`: the rest of a request, in the code's order.
* `IoError`: any of them fails. The error of the second look at the target leaves
  the temporary file behind (`?` at `main.rs:1199` and `:1398`).
* `RemoveTemps`: every removal of a temporary file ignores its error, so any of the
  files may stay; it is then `abandoned`.
* `Expire`, `Exit`, `ForeignWrite`: `UPLOAD_TTL` passes, a process ends, a program
  that takes no lock writes or removes the target.

A chunk is tagged with the content it was cut from, so an upload assembles to a
content or to `Torn`. Paths are resolved targets: symlink and parent checks, the
lock directory and the Windows replacement with a backup file are left out.

`AtomicCas` is what a client is promised: in one step the file is replaced if it
has the expected hash, otherwise its hash is reported; a request may fail before
or after it took effect. `CasIsAtomic` maps the handler to the abstract call: it
is open until the rename or the look that found another hash.

## The remote scheduler

`RemoteScheduler` models the threads of a sidecar session: the request loop of
`run_server_session` and the worker of each lane. Variables keep the names of
`RemoteQueueState`, `PendingRemote` and `ActiveRemote`. A step is one critical
section of a mutex, one access to an atomic, or one wait:

* `Receive`, `Push`, `Reject`, `ClearDropped`: a request is routed and its hazard
  registered, then `try_push` takes or refuses it, and background work it
  supersedes is accounted for.
* `CancelQueued`, `CancelActive`: a cancel looks into the queues, then at what is
  active, and moves the epoch of the lane.
* `BeginMaintenance`, `PauseWrite`, `PreemptLanes`, `Quiesce`, `SendResets`,
  `EndMaintenance`: an agent replacement pauses and drains one queue after the
  other, preempts, waits, resets each lane's agent. `EndMaintenance` is its end,
  or the deadline that may pass at each wait.
* `RequestShutdown`, `DrainLanes`, `CloseLanes`, `Join`: the end of the session. Both
  queues are closed and their background work drained, one after the other, before
  the workers are joined.
* `PopControl`, `PopWork`, `PopNothing`, `ResetAgent`, `Announce`, `Abandon`,
  `Handle`, `Reply`: a lane's worker.

A request is its method, paths and flags; lane, priority, hazard and interest
follow from them as in the code. `moved[l]` stands for the difference between the
lane's `AgentPreempt` epoch and the epoch its work started with, and remembers why
the epoch moved. The queue is a set: requests are numbered as they arrive and
pushed in that order. What a request does on the remote is one step that may end
at any time; the agent process behind it is `agent_up`. The preflight and
download of a replacement, `remote_health` and the requests answered from the
cache touch none of this state.

## Installing the agent

`AgentInstall` models an installation or update of the agent executable on a
POSIX host. The sidecar holds a lease (a shell process on the host) and sends
scripts over ssh that stage, activate, reconcile, roll back and clean up; each
runs under a guard that admits it only for the live lease. A journal beside the
target names the transaction's files and hashes, and the holder of the next lease
runs `recover_journal` before it reports that it is ready.

* `disk` has the target, the stage and backup of each transaction, the journal and
  its successor `journal_next`. An executable's bytes and SHA-256 are one build;
  `Partial` is a file that was created and not wholly written.
* `StagePlan`, `ActivatePlan`, `ReconcilePlan`, `RollbackPlan`, `CleanupPlan`,
  `AbsencePlan`, `RecoverPlan` are the scripts: the tests at their start choose a
  list of file operations or refuse. `Verified` is the test right before an
  operation, `Step` does the operation, `Apply` is what it does. A test that looks
  at the target (`TargetTested`) is a step of its own, `Test`: the operation then
  happens whatever the target has become. `StageTrap` is the exit trap of the stage
  script.
* `Acquire`, `LeaseReady`, `LeaseFails`, `HolderExits`: the lease holder. `Begin`,
  `Refuse`, `Finish`, `StepFails`, `TrapReturns`, `ScriptKilled`, `GuardKilled`: a
  command and its guard. A script whose guard was killed goes on, and its answer is
  lost.
* `Decide`, `Issue`, `GiveUp`, `Validate`, `SidecarDies`: the driver
  `run_agent_install_transaction`. A command it gave up on may still arrive.
* `Replace`: somebody else copies a build over the target, once, also between a
  `Test` and its `Step`.

A crash is the death of a process; the scripts do not sync, and data lost at a
power failure is outside the model. Between a test of the target and the operation
after it a foreign build is lost: the code has no lock against other programs, and
`ForeignKept` says that no longer window is open. The trap's own removals do not fail. Directory and symlink checks and the error
file of `mv` are left out. That there is one holder and one
script at a time is a guard here; the claim and owner files behind it are not
modelled yet.

Two windows leave files that recovery refuses until somebody removes them: a
journal line that was only begun, and a backup that was only begun. The code means
to fail closed there, so they are exceptions in `RecoverableUnlessTorn`. An
installation reported as `CandidateHealthy`, whose cleanup left the backup behind,
is rolled back by the next lease.

## Properties

| Property | Says |
| --- | --- |
| `TypeOK` | types |
| `NoBlindOverwrite` | an upload, prompt, retried or late, replaces only remote content the mirror has hydrated, saved or shown as a conflict |
| `RemoteHashIsReal` | `files.remote_hash` is a hash the remote file really had |
| `AppliedWasInstalled` | a row marked applied was on the remote, also when its first reply was lost |
| `DirtyHasSave` | a dirty file has a save that is still to be uploaded or resolved |
| `ClosedStaysClosed` | rows keep id and bytes; a closed row is never reopened |
| `CasIsAtomic` | agents that take the lock implement the atomic compare-and-swap |
| `LocksAreExact` | locks and active targets are those of open uploads and of the request in progress; no two processes hold one lock |
| `TempsAreOwned` | every temporary file belongs to an upload or a request, unless its agent ended, failed the second look or could not remove it |
| `LimitsHold` | open uploads stay within their number and size limits |
| `OnlyForeignRaces` | only a program without the lock can change a target after the last look at it |
| `ContentIsWhole` | no target ever holds a part or a mixture of contents |
| `HazardsBalance` | the counters that route reads count exactly the requests still queued, running or being taken out |
| `LengthsExact` | capacity counters and `in_flight` count what they stand for |
| `ReadsFollowWrites` | a read does not start while an earlier write it depends on is queued or running, on either lane |
| `InteractiveFirst` | background work never runs ahead of interactive work of its lane |
| `AnsweredOnce` | every request is answered once, after it left every queue; only the end of the session leaves it unanswered |
| `CancelHitsItsTarget` | a cancel preempts the request it names and never the next one of the lane |
| `InstallIsAlone` | while the agent is replaced no lane runs a request or has an agent process |
| `RequestsAnswered`, `SessionEnds` | every request is answered unless the session ends; a session that ends joins its workers |
| `PreviousKept` | the executable found by an installation survives, as target or backup, until the new one has been validated |
| `ReportTrue` | what the driver reports of the target is so and stays so, with commands still under way |
| `ReadyIsClean` | a lease is ready only when no journal of an earlier transaction is left |
| `RecoverableUnlessTorn` | after a kill anywhere `recover_journal` accepts the files, but for the two windows above |
| `NoLeftovers` | stage and backup of a published transaction do not outlive its journal |
| `ForeignKept` | a build somebody else installed is removed only by a transaction that recorded it as the one to go back to, or when it came in between a test of the target and the operation right after it |
| `SavesLeaveQueue` | with a client that keeps reconnecting, every save whose snapshot survives leaves the queue or has `ReplayLimit` damaged rows before it |
| `FlushCommandDrains` | with the unbounded `flush_queue` issued again and again, every save whose snapshot survives leaves the queue |
| `ReplayGoesOn` | a replay that has begun goes on until nothing is left to upload or an attempt is not applied |

## Runs

| Run | Events | Shows |
| --- | --- | --- |
| `save_writes` | three scenarios: 2 edits, 1 external write, 2 losses; 1 edit, 1 loss, 1 crash, 1 recovery; 2 edits, 1 loss, 1 open, 1 removed file, 1 damaged snapshot | `TypeOK`, `AppliedWasInstalled`, `DirtyHasSave`, `NoBlindOverwrite`, `ClosedStaysClosed` |
| `save_reads` | three scenarios with 1 external write: 1 edit, 1 hydration, 1 open, 1 scan; 1 edit, 2 validations; 2 edits, 1 conflict command | `NoBlindOverwrite`, `RemoteHashIsReal`, `DirtyHasSave`, `ClosedStaysClosed` |
| `progress` | three scenarios, `ReplayLimit` 1: 2 edits, 1 external write, 1 loss; 2 edits, 1 damaged snapshot, 1 loss; 1 edit, 1 crash | `SavesLeaveQueue`, `FlushCommandDrains`, `ReplayGoesOn` under `ReplaySpec` |
| `agent_writes` | 2 agents, 2 files, 1 upload each, 3 temporary files, 1 exit; agents only | `TempsAreOwned`, `CasIsAtomic` |
| `agent_chunks` | 1 agent, 2 files, contents of 1 and 2 chunks, limits 2 uploads and 3 chunks, 2 temporary files, 1 foreign write | `TypeOK`, `LocksAreExact`, `LimitsHold`, `ContentIsWhole`, `OnlyForeignRaces` |
| `scheduler` | 3 requests of 4 kinds, 1 cancel, 1 replacement, capacities 1 | `TypeOK`, `HazardsBalance`, `LengthsExact`, `ReadsFollowWrites`, `InteractiveFirst`, `AnsweredOnce`, `CancelHitsItsTarget` |
| `scheduler_progress` | 2 requests of 3 kinds, 1 cancel, 2 replacements, capacities 1 | `InstallIsAlone`, and `RequestsAnswered`, `SessionEnds` under `FairSpec` |
| `agent_install` | 2 leases, 2 candidates, an original agent or none, 1 foreign build | `TypeOK`, `PreviousKept`, `ReportTrue`, `ReadyIsClean`, `RecoverableUnlessTorn`, `NoLeftovers`, `ForeignKept` |

Bounds. `MaxRows` caps the queue (2 rows: a save and the save chained on it, or a
damaged save and the one behind it; the scenarios of `progress` enqueue no more, so
there the bound never stops an enqueue, and the deadlock check would show it). A member
of `Budgets` caps each environment event; actions of the program have no bound of
their own. Contents are two the editor writes and one or two that others write, so
that a save can restore earlier bytes and two writers can collide. All events at
once are out of reach, therefore `Init` chooses one of several budgets, each for
the events of one question. Deadlock is checked in `progress` only: without the
client, with the budget spent and the queue empty, the system rests. In `AgentWrite`, `MaxIds` bounds the temporary files
ever created and with them the writes; two agents are enough for two requests to
compete for a lock, two files for an agent to hold an upload while it serves
another request, and two contents for their chunks to mix. In `RemoteScheduler`,
one path and capacities of one make requests conflict and queues overflow; three
requests are a running one, a queued one and one that arrives; the second
replacement meets the reset control that the first left behind when it gave up.
In `AgentInstall`, `MaxInstalls` is 2: one transaction to interrupt and one to
recover and install over it, with the same candidate or another. Nothing else is
bounded but `Replace`. Deadlock is not checked: an installation ends.

Fairness of the save pipeline (`Fairness`): weak fairness of each thread's started
work and of the read-lane and write-lane steps (the worker loops block on nothing
but the agent, and every agent request has a deadline), strong fairness of taking a
flush that waits on the write lane (other requests may come first, but the queue is
first in, first out). Nothing is assumed of `FlushQueue`: that somebody asks for a
replay is a premise of the property, `Connect` again and again in `SavesLeaveQueue`,
the unbounded command in `FlushCommandDrains`. `ReplaySpec` adds that a replay the
client has asked for is served, for the same reason as a flush. In `RemoteScheduler`: weak fairness of the request loop once
it has taken a request and of each worker; a remote request ends because it has a
deadline, and so do the waits of a replacement. Nothing is assumed of the
environment: losses need not happen and need not stop before the budget does.

## Where documentation and code differ

| Run | Statement | What the code does |
| --- | --- | --- |
| `doc_conflict` | `docs/save-recovery.md:21`: a conflict means the remote changed before upload | `flush_queued` uploads a row whose base is an older row that has not been uploaded; the mirror conflicts with itself |
| `doc_overwrite` | `doc/nvim-remote-mirror.txt:187`: dirty cached files are not overwritten | an edit between the check and the rename of a hydration is replaced |
| `doc_accept` | `doc/nvim-remote-mirror.txt:254`: accepting the remote refuses when newer unresolved saves exist | a save enqueued after the check is not noticed |
| `doc_rebase` | `docs/save-recovery.md:37`: the next save is compared with the hash that caused the conflict | with an older failed row it is based on that row |

## Proofs

`AgentWriteProofs` holds proofs for every set of agents, targets and contents,
every size and every bound, assuming that `NoHash` and `Torn` are no contents.

1. `LocksBalance`, `RacesAreForeign`, `TargetsStayWhole`: `Spec` implies
   `LocksAreExact`, `OnlyForeignRaces` and `ContentIsWhole`. The inductive
   invariant is their conjunction with the types and `AllVerified` (a finish that
   passed its hash check carries the bytes it declared). `LocksAreExact` is needed
   for `OnlyForeignRaces`: a rename changes no target another request has looked
   at because that request holds the other lock. What each kind of step does to
   one agent's books (`Exact`) is a lemma of its own (`OpenRequest`, `TakeOver`,
   `HandOver`, `GoOn`, `GiveUp`, `DropUploads`, `ReplaceUpload`).
2. `AgentsAreAtomic`: `AgentSpec => CasIsAtomic`. Without foreign programs nothing
   is raced, so every action is `Invoke`, `Apply`, `Conflict`, `Fail` or a stutter
   of `AtomicCas`.

`LimitsHold` (a sum over a set) and `TempsAreOwned` are model-checked.

`SaveMirrorProofs` and `SaveMirrorSafety` hold proofs for every `Content`,
`MaxRows` and `Budgets`, under the assumptions `NoHash \notin Content`,
`Content = EditContent \cup ExternalContent` and the types of the bounds.

1. `TypeCorrect`: `Spec => []TypeOK`. Types alone are not inductive: a row can
   only be typed if the bytes a thread carries are real bytes (`CarriedOK`) and
   the rows the write lane works on exist (`LaneOK`). `Base` is their conjunction.
2. `NeverOverwritesBlindly`: `Spec => []NoBlindOverwrite`. The strengthening is
   `KnownOK`: every hash that can become the expected hash of an upload (in
   `files`, in a queue row, in an entry or base a thread carries, in a late
   upload) has been seen. The delicate step is validation, which records an
   answer only when it equals the hash of the entry it was judged with.
3. `ClosedRowsStayClosed`: `Spec => ClosedStaysClosed`, from `LaneOK`: the rows
   the lane has chosen stay replayable, and a conflict under resolution stays a
   conflict, until the lane itself changes them, because no other thread changes
   the state of an existing row.

`RemoteHashIsReal`, `AppliedWasInstalled` and `DirtyHasSave` are model-checked;
`RealOK` is the strengthening prepared for the first two. The properties of
`RemoteScheduler` and `AgentInstall` are model-checked. Liveness (`SavesLeaveQueue`,
`FlushCommandDrains`, `ReplayGoesOn`, `RequestsAnswered`, `SessionEnds`) stays with TLC: the prover does not handle fairness.

## Plan

1. `AgentClient`: worker generations, timeouts, interrupts, preemption, backoff,
   composed with the scheduler.
2. `InstallLease`: claims, owners, stale processes and operation directories, shown
   to give the single holder that `AgentInstall` assumes; the Windows transaction.
3. `ScanCursor`, search index freshness: operators against reference definitions.
4. `RuntimeFlow`, `RuntimeProxy`, agent runtime: credits, tickets, process exit
   and output order; refinement of an abstract byte stream.
5. Lua client and workspace: pending requests, reconnect, deferred flushes,
   readiness revisions.
6. Registry cache publication; protocol sequence rules.
7. Proofs: the remaining safety invariants of `SaveMirror`, the invariants of the
   scheduler and of the installation, and the refinement steps.
