---------------------------- MODULE AgentInstall ----------------------------
(***************************************************************************)
(* Installing or updating nrm-agent on a POSIX host: the shell scripts     *)
(* that change the files beside the target, the lease holder's recovery of *)
(* an interrupted transaction, and run_agent_install_transaction, the      *)
(* sidecar's driver that sends the scripts over ssh and reports what       *)
(* became of the target.                                                   *)
(*                                                                         *)
(* A build stands for an executable's bytes and their SHA-256.  Every      *)
(* script is a list of the file operations it has still to do: it may be   *)
(* killed before each of them.  The `matches_hash` tests that look at the  *)
(* target are a step of their own before the operation they guard: the     *)
(* target may be replaced in between.  Leases are numbered; the lease      *)
(* number is the transaction's identity and names its stage and backup     *)
(* files (mktemp suffixes).  That two lease holders or two scripts never   *)
(* overlap is the business of the lease and guard directories: here it is  *)
(* a guard.                                                                *)
(***************************************************************************)
EXTENDS Naturals, Sequences

CONSTANTS Candidates,  \* builds that can be offered for installation
          Original,    \* the build installed at first, if any
          Foreign,     \* a build that somebody else copies over the target
          Absent,      \* no such file
          Partial,     \* an empty, truncated or half copied executable
          MaxInstalls  \* bound on the number of leases taken

Builds == Candidates \cup {Original, Foreign}
Leases == 1 .. MaxInstalls

ASSUME InstallAssumption ==
    /\ MaxInstalls \in Nat
    /\ Absent \notin Builds /\ Partial \notin Builds /\ Absent # Partial
    /\ {Original, Foreign} \cap Candidates = {}

VARIABLES disk,      \* the files: target, stage, backup, journal, next (journal_next)
          lease,     \* number of the last lease taken
          held,      \* its holder process is alive
          active,    \* the guard's `active` directory exists
          sent,      \* commands sent over ssh that have not begun
          job,       \* the script that is running
          driver,    \* the sidecar's transaction, per lease
          candidate, \* the build each lease was taken for
          had_previous, \* the leases whose stage script found an executable (StagedInstall)
          original,  \* history: the target when the last lease was ready
          healthy,   \* history: leases whose installed candidate was validated
          published, \* history: leases that linked their journal
          replaced   \* history: the target was replaced under the last lease, before it, never

known == <<candidate, had_previous>>
vars == <<disk, lease, held, active, sent, job, driver, known, original, healthy, published,
          replaced>>

-----------------------------------------------------------------------------
(* The journal is one line; the mode is "missing" when previous is Absent. *)

NoFile == [phase |-> "none"]
Torn == [phase |-> "torn"]     \* created, its line not (wholly) written
Line(phase, l, previous) ==
    [phase |-> phase, tx |-> l, previous |-> previous, candidate |-> candidate[l]]

Lines == [phase: {"preparing", "staged"}, tx: Leases,
          previous: Builds \cup {Absent}, candidate: Candidates]

SameExceptPhase(a, b) == a = [b EXCEPT !.phase = a.phase]

\* read_state of the guarded scripts: the staged line of this transaction.
ReadState(d, l) ==
    d.next = NoFile /\ d.journal.phase = "staged" /\ d.journal.tx = l

-----------------------------------------------------------------------------
(* What each script does, from the state it finds: its operations in order, *)
(* or Refused when its tests fail before anything was changed.              *)

Refused == <<"refuse">>
If(cond, ops) == IF cond THEN ops ELSE <<>>

\* Mutant: the staged line replaces the preparing one before the upload.
StagedBeforeUpload ==
    <<"mktemp_stage", "mktemp_backup", "rm_backup",
      "open_next", "write_preparing", "own_next", "link_journal", "publish",
      "rm_next", "disown_next", "open_next", "write_staged", "own_next",
      "move_journal", "disown_next", "upload", "check_version">>

StageOps ==
    <<"mktemp_stage", "mktemp_backup", "rm_backup",
      "open_next", "write_preparing", "own_next", "link_journal", "publish",
      "rm_next", "disown_next", "upload", "check_version",
      "open_next", "write_staged", "own_next", "move_journal", "disown_next">>

StagePlan(d, force) ==
    IF d.journal # NoFile \/ d.next # NoFile \/ (d.target # Absent /\ ~force)
    THEN Refused ELSE StageOps

\* cleanup_stage, the script's exit trap.
StageTrap(d, j) ==
    LET next == IF j.owned THEN NoFile ELSE d.next IN
    If(j.owned, <<"rm_next">>) \o
    IF ~j.published THEN <<"drop_stage", "drop_backup">>
    ELSE If(/\ d.journal = j.line /\ next = NoFile
            /\ d.backup[j.tx] = Absent /\ d.target = j.line.previous,
            If(d.stage[j.tx] # Absent, <<"rm_stage">>) \o <<"rm_journal">>)

ActivatePlan(d, l) ==
    IF /\ ReadState(d, l)
       /\ d.stage[l] = d.journal.candidate /\ d.backup[l] = Absent
       /\ d.target = d.journal.previous
    THEN If(d.journal.previous # Absent, <<"open_backup", "copy_backup">>)
         \o <<"swap_in", "check_candidate", "check_backup">>
    ELSE Refused

ReconcilePlan(d, l) ==
    LET prev == d.journal.previous  cand == d.journal.candidate
        tail == <<"read_state", "rm_journal">> IN
    IF ~ReadState(d, l) THEN Refused
    ELSE IF d.stage[l] # Absent
    THEN IF d.stage[l] = cand /\ d.target = prev /\ d.backup[l] \in {Absent, prev}
         THEN <<"rm_stage">> \o If(d.backup[l] # Absent, <<"rm_backup">>) \o tail
         ELSE Refused
    ELSE IF d.backup[l] # Absent
    THEN IF d.backup[l] # prev THEN Refused
         ELSE IF d.target = cand THEN <<"swap_back", "check_previous">> \o tail
         ELSE IF d.target = prev THEN <<"rm_backup">> \o tail
         ELSE Refused
    ELSE IF d.target = prev THEN tail
    ELSE IF prev = Absent /\ d.target = cand THEN <<"rm_target", "check_previous">> \o tail
    ELSE Refused

\* The outcome that reconcile prints, as the driver classifies it.
ReconcileKind(d, l) ==
    IF d.stage[l] # Absent THEN "TargetUnchanged" ELSE "PreviousRestored"

RollbackPlan(d, l) ==
    LET prev == d.journal.previous  cand == d.journal.candidate
        tail == <<"read_state", "rm_journal">> IN
    IF ~ReadState(d, l) \/ d.stage[l] # Absent THEN Refused
    ELSE IF d.backup[l] # Absent
    THEN IF d.backup[l] = prev /\ d.target = cand THEN <<"swap_back", "check_previous">> \o tail
         ELSE Refused
    ELSE IF d.target = prev THEN tail
    ELSE IF prev = Absent /\ d.target = cand THEN <<"rm_target", "check_previous">> \o tail
    ELSE Refused

\* Mutant: the journal goes first, the backup after it.
CleanupJournalFirst(d, l) ==
    IF ~ReadState(d, l) THEN Refused
    ELSE <<"read_state", "rm_journal">> \o
         If(d.stage[l] # Absent, <<"rm_stage">>) \o If(d.backup[l] # Absent, <<"rm_backup">>)

CleanupPlan(d, l) ==
    LET prev == d.journal.previous  cand == d.journal.candidate
        tail == <<"read_state", "rm_journal">> IN
    IF ~ReadState(d, l) THEN Refused
    ELSE IF d.stage[l] # Absent
    THEN IF d.stage[l] = cand /\ d.backup[l] = Absent /\ d.target = prev
         THEN <<"rm_stage">> \o tail ELSE Refused
    ELSE IF d.target = cand /\ d.backup[l] \in {Absent, prev}
    THEN If(d.backup[l] # Absent, <<"rm_backup">>) \o If(prev # Absent, <<"check_candidate">>)
         \o tail
    ELSE IF d.target = prev /\ d.backup[l] = Absent THEN tail
    ELSE Refused

AbsencePlan(d) ==
    IF d.journal = NoFile /\ d.next = NoFile /\ d.target = Absent THEN <<>> ELSE Refused

\* recover_journal: which line it works from ...
RecoverySource(d) == IF d.journal # NoFile THEN d.journal ELSE d.next

Readable(d) ==
    IF d.journal = NoFile THEN d.next.phase = "preparing"
    ELSE \/ d.next = NoFile
         \/ /\ d.next # Torn /\ d.journal.phase = "preparing"
            /\ SameExceptPhase(d.next, d.journal)

\* Mutant: an unfinished activation counts as committed.
RecoverKeepsCandidate(d, r) ==
    IF d.target = r.candidate THEN <<"drop_backup">> ELSE <<"rm_backup", "check_previous">>

\* ... what it does when the stage is gone and the backup is not ...
RecoverFromBackup(d, r) ==
    IF d.backup[r.tx] # r.previous THEN Refused
    ELSE IF d.target = r.candidate THEN <<"swap_back", "check_previous">>
    ELSE IF d.target = r.previous THEN <<"rm_backup", "check_previous">>
    ELSE Refused

\* ... or otherwise with the files that the line names ...
RecoverFiles(d, r) ==
    LET s == d.stage[r.tx]  b == d.backup[r.tx]  t == d.target IN
    IF r.phase = "preparing"
    THEN IF b = Absent /\ t = r.previous THEN If(s # Absent, <<"rm_stage">>) ELSE Refused
    ELSE IF s # Absent
    THEN IF s = r.candidate /\ t = r.previous /\ b \in {Absent, r.previous}
         THEN <<"rm_stage">> \o If(b # Absent, <<"rm_backup">>) \o <<"check_previous">>
         ELSE Refused
    ELSE IF b # Absent THEN RecoverFromBackup(d, r)
    ELSE IF t \in {r.previous, r.candidate} THEN <<>> ELSE Refused

\* Mutant: a journal that cannot be read is passed over.
RecoverSkipsTorn(d) ==
    IF ~Readable(d) THEN <<>>
    ELSE RecoverFiles(d, RecoverySource(d)) \o If(d.next # NoFile, <<"rm_next">>)
                                            \o If(d.journal # NoFile, <<"rm_journal">>)

\* ... and the whole of it, the journal last.
RecoverPlan(d) ==
    IF d.journal = NoFile /\ d.next = NoFile THEN <<>>
    ELSE IF ~Readable(d) THEN Refused
    ELSE LET files == RecoverFiles(d, RecoverySource(d)) IN
         IF files = Refused THEN Refused
         ELSE files \o If(d.next # NoFile, <<"rm_next">>)
                    \o If(d.journal # NoFile, <<"rm_journal">>)

-----------------------------------------------------------------------------
(* One file operation of the running script. *)

\* Mutant: the target is not looked at again before the backup is moved over it.
OnlyBackupVerified(b, t, line) == b = line.previous

SwapBackVerified(b, t, line) == b = line.previous /\ t = line.candidate

\* Operations of a script that follow a test of the target.
TargetTested(op, j) ==
    \/ op \in {"open_backup", "swap_in", "swap_back", "rm_target"}
    \/ op = "rm_stage" /\ j.op \in {"stage", "recover"}
    \/ op = "rm_backup" /\ j.op \in {"recover", "cleanup"}
    \/ op = "rm_journal" /\ j.op = "stage"

\* The tests that the script makes right before the operation.  A recovery in
\* missing mode has looked for the target before, and looks again afterwards.
Verified(op, d, j) ==
    LET s == d.stage[j.tx]  b == d.backup[j.tx]  t == d.target
        prev == j.line.previous  cand == j.line.candidate IN
    CASE op = "open_next"    -> d.next = NoFile
      [] op = "link_journal" -> d.next = j.line /\ d.journal = NoFile
      [] op = "move_journal" -> d.journal = j.line /\ SameExceptPhase(d.next, j.line)
      [] op = "open_backup"  -> t = prev
      [] op = "swap_in"      -> s = cand /\ t = prev /\ b = prev
      [] op = "swap_back"    -> SwapBackVerified(b, t, j.line)
      [] op = "rm_target"    -> t = cand
      [] op = "rm_stage"     -> CASE j.op = "stage" -> t = prev
                                  [] j.op = "recover" ->
                                       /\ j.line.phase = "staged" => s = cand
                                       /\ j.line.phase = "preparing" \/ prev # Absent => t = prev
                                  [] OTHER -> s = cand
      [] op = "rm_backup"    -> CASE j.op = "stage" -> TRUE
                                  [] j.op = "recover" -> b = prev /\ t = prev
                                  [] j.op = "cleanup" -> b = prev /\ t = cand
                                  [] OTHER -> b = prev
      [] op = "check_previous"  -> t = prev
      [] op = "check_candidate" -> t = cand
      [] op = "check_backup"    -> b = prev
      [] op = "read_state"   -> ReadState(d, j.tx)
      [] op = "rm_journal"   -> CASE j.op = "stage" -> t = prev /\ d.journal = j.line
                                  [] j.op = "recover" -> d.journal = j.line /\ d.next = NoFile
                                  [] OTHER -> TRUE
      [] OTHER -> TRUE

\* Mutant: the candidate is copied over the target instead of moved.
CopyIn(d, l) == [d EXCEPT !.target = Partial]

MoveIn(d, l) == [d EXCEPT !.target = d.stage[l], !.stage[l] = Absent]

Apply(op, d, j) ==
    CASE op = "mktemp_stage"      -> [d EXCEPT !.stage[j.tx] = Partial]
      [] op = "upload"            -> [d EXCEPT !.stage[j.tx] = j.line.candidate]
      [] op \in {"rm_stage", "drop_stage"}   -> [d EXCEPT !.stage[j.tx] = Absent]
      [] op \in {"mktemp_backup", "open_backup"} -> [d EXCEPT !.backup[j.tx] = Partial]
      [] op = "copy_backup"       -> [d EXCEPT !.backup[j.tx] = d.target]
      [] op \in {"rm_backup", "drop_backup"} -> [d EXCEPT !.backup[j.tx] = Absent]
      [] op = "swap_in"           -> MoveIn(d, j.tx)
      [] op = "swap_back"         -> [d EXCEPT !.target = d.backup[j.tx], !.backup[j.tx] = Absent]
      [] op = "rm_target"         -> [d EXCEPT !.target = Absent]
      [] op = "open_next"         -> [d EXCEPT !.next = Torn]
      [] op = "write_preparing"   -> [d EXCEPT !.next = j.line]
      [] op = "write_staged"      -> [d EXCEPT !.next = [j.line EXCEPT !.phase = "staged"]]
      [] op = "rm_next"           -> [d EXCEPT !.next = NoFile]
      [] op = "link_journal"      -> [d EXCEPT !.journal = d.next]
      [] op = "move_journal"      -> [d EXCEPT !.journal = d.next, !.next = NoFile]
      [] op = "rm_journal"        -> [d EXCEPT !.journal = NoFile]
      [] OTHER -> d

-----------------------------------------------------------------------------
(* The driver: run_agent_install_transaction.  `at` is "due" when it is      *)
(* about to send op, "await" when it waits for op's answer, "validate" when  *)
(* it probes the agent after op.                                             *)

Ops == {"stage", "activate", "reconcile", "rollback", "cleanup", "absence"}
Finals == {"none", "TargetUnchanged", "PreviousRestored", "CandidateHealthy", "Installed",
           "LiveStateUnknown", "Skipped", "LeaseFailed", "Crashed"}

NoDriver == [at |-> "none", op |-> "stage", final |-> "none"]
Due(op) == [at |-> "due", op |-> op, final |-> "none"]

\* A report counts until the next lease is taken.
Done(l, final) ==
    [at |-> "done", op |-> "stage", final |-> IF l = lease THEN final ELSE "none"]

Succeeded(l, op, kind) ==
    CASE op \in {"stage", "activate"} -> [at |-> "validate", op |-> op, final |-> "none"]
      [] op = "reconcile" -> [at |-> "validate", op |-> op, final |-> kind]
      [] op = "rollback"  -> [at |-> "validate", op |-> op, final |-> "PreviousRestored"]
      [] op = "cleanup"   -> Done(l, IF l \in healthy THEN "Installed" ELSE "TargetUnchanged")
      [] op = "absence"   -> Done(l, driver[l].final)

\* Mutant: a reconciliation that did not come back is reported as no change.
FailedQuietly(l, op) ==
    CASE op \in {"stage", "reconcile"} -> Done(l, "TargetUnchanged")
      [] op = "activate" -> Due("reconcile")
      [] op = "cleanup"  -> Done(l, IF l \in healthy THEN "CandidateHealthy" ELSE "TargetUnchanged")
      [] OTHER -> Done(l, "LiveStateUnknown")

Failed(l, op) ==
    CASE op = "stage"    -> Done(l, "TargetUnchanged")
      [] op = "activate" -> Due("reconcile")
      [] op = "cleanup"  -> Done(l, IF l \in healthy THEN "CandidateHealthy" ELSE "TargetUnchanged")
      [] OTHER -> Done(l, "LiveStateUnknown")

\* The probe after op, good or bad (or out of budget, or the lease lost).
Validated(l, good) ==
    CASE driver[l].op = "stage"    -> Due(IF good THEN "activate" ELSE "cleanup")
      [] driver[l].op = "activate" -> Due(IF good THEN "cleanup" ELSE "rollback")
      [] OTHER -> IF ~good THEN Done(l, "LiveStateUnknown")
                  ELSE IF l \notin had_previous
                  THEN [driver[l] EXCEPT !.at = "due", !.op = "absence"]
                  ELSE Done(l, driver[l].final)

NoJob == [op |-> "none"]

Init ==
    /\ \E t \in {Absent, Original} :
          disk = [target |-> t, journal |-> NoFile, next |-> NoFile,
                  stage |-> [l \in Leases |-> Absent], backup |-> [l \in Leases |-> Absent]]
    /\ lease = 0 /\ held = FALSE /\ active = FALSE /\ sent = {} /\ job = NoJob
    /\ driver = [l \in Leases |-> NoDriver]
    /\ candidate \in [Leases -> Candidates] /\ had_previous = {}
    /\ original = Absent
    /\ healthy = {} /\ published = {} /\ replaced = "never"

-----------------------------------------------------------------------------
(* The lease holder. *)

\* The script of a new lease finds no live holder and no live operation, reaps
\* what is left of them and starts recover_journal.
Acquire ==
    /\ lease < MaxInstalls /\ ~held /\ job = NoJob
    /\ lease' = lease + 1 /\ held' = TRUE /\ active' = FALSE
    /\ job' = [op |-> "recover", tx |-> IF RecoverPlan(disk) \in {Refused, <<>>} THEN lease + 1
                                         ELSE RecoverySource(disk).tx,
               line |-> RecoverySource(disk), todo |-> RecoverPlan(disk), kind |-> "none",
               owned |-> FALSE, published |-> FALSE, failed |-> FALSE, guarded |-> TRUE,
               test |-> "due"]
    /\ driver' = [l \in Leases |->
           IF l = lease + 1 THEN [NoDriver EXCEPT !.at = "lease"]
           ELSE IF driver[l].at = "done" THEN [driver[l] EXCEPT !.final = "none"] ELSE driver[l]]
    /\ original' = Absent /\ replaced' = IF replaced = "now" THEN "before" ELSE replaced
    /\ UNCHANGED <<disk, sent, known, healthy, published>>

\* NRM_INSTALL_LEASE_READY_V1.
LeaseReady ==
    /\ job.op = "recover" /\ job.todo = <<>>
    /\ job' = NoJob
    /\ original' = disk.target
    /\ driver' = [driver EXCEPT ![lease].at = IF @ = "lease" THEN "ready" ELSE @]
    /\ UNCHANGED <<disk, lease, held, active, sent, known, healthy, published, replaced>>

LeaseFails ==
    /\ job.op = "recover" /\ job.todo # <<>>
    /\ job' = NoJob /\ held' = FALSE
    /\ driver' = [driver EXCEPT ![lease] = IF @.at = "lease" THEN Done(lease, "LeaseFailed") ELSE @]
    /\ UNCHANGED <<disk, lease, active, sent, known, original, healthy, published, replaced>>

\* The holder ends: its stdin is closed by release, or it or its connection dies.
HolderExits ==
    /\ held /\ job.op # "recover"
    /\ held' = FALSE
    /\ UNCHANGED <<disk, lease, active, sent, job, driver, known, original, healthy,
                   published, replaced>>

-----------------------------------------------------------------------------
(* Commands and scripts. *)

Plan(c, force) ==
    CASE c.op = "stage"     -> StagePlan(disk, force)
      [] c.op = "activate"  -> ActivatePlan(disk, c.tx)
      [] c.op = "reconcile" -> ReconcilePlan(disk, c.tx)
      [] c.op = "rollback"  -> RollbackPlan(disk, c.tx)
      [] c.op = "cleanup"   -> CleanupPlan(disk, c.tx)
      [] c.op = "absence"   -> AbsencePlan(disk)

\* The answer reaches the driver if it still waits for it.
Tell(l, op, answer) ==
    driver' = IF driver[l].at = "await" /\ driver[l].op = op
              THEN [driver EXCEPT ![l] = answer] ELSE driver

\* The guard admits a command of the live lease when no other operation is active.
Admitted(c) == held /\ lease = c.tx /\ ~active /\ job = NoJob

Begin(c) ==
    /\ c \in sent /\ Admitted(c)
    /\ sent' = sent \ {c}
    /\ \E force \in BOOLEAN :
          /\ Plan(c, force) # Refused
          /\ job' = [op |-> c.op, tx |-> c.tx, todo |-> Plan(c, force),
                     line |-> IF c.op = "stage" THEN Line("preparing", c.tx, disk.target)
                                                ELSE disk.journal,
                     kind |-> IF c.op = "reconcile" THEN ReconcileKind(disk, c.tx) ELSE "none",
                     owned |-> FALSE, published |-> FALSE, failed |-> FALSE, guarded |-> TRUE,
                     test |-> "due"]
    /\ active' = TRUE
    /\ UNCHANGED <<disk, lease, held, driver, known, original, healthy, published, replaced>>

\* The guard refuses the command, or the script itself does before changing a file.
Refuse(c) ==
    /\ c \in sent
    /\ ~Admitted(c) \/ (\E force \in BOOLEAN : Plan(c, force) = Refused)
    /\ sent' = sent \ {c}
    /\ Tell(c.tx, c.op, Failed(c.tx, c.op))
    /\ UNCHANGED <<disk, lease, held, active, job, known, original, healthy,
                   published, replaced>>

Flags(op, j) ==
    CASE op = "own_next"    -> [j EXCEPT !.owned = TRUE]
      [] op = "disown_next" -> [j EXCEPT !.owned = FALSE]
      [] op = "publish"     -> [j EXCEPT !.published = TRUE]
      [] OTHER -> j

Running == job # NoJob /\ job.todo \notin {<<>>, Refused}

\* The target passes the test of the next operation ...
Test ==
    /\ Running /\ job.test = "due"
    /\ TargetTested(Head(job.todo), job) /\ Verified(Head(job.todo), disk, job)
    /\ job' = [job EXCEPT !.test = "passed"]
    /\ UNCHANGED <<disk, lease, held, active, sent, driver, known, original, healthy, published,
                   replaced>>

\* ... which then takes place, whatever has become of the target.
Step ==
    /\ Running
    /\ IF TargetTested(Head(job.todo), job) THEN job.test # "due"
                                            ELSE Verified(Head(job.todo), disk, job)
    /\ disk' = Apply(Head(job.todo), disk, job)
    /\ job' = [Flags(Head(job.todo), job) EXCEPT !.todo = Tail(@), !.test = "due"]
    /\ published' = IF Head(job.todo) = "link_journal" THEN published \cup {job.tx} ELSE published
    /\ UNCHANGED <<lease, held, active, sent, driver, known, original, healthy, replaced>>

\* The script and, when it lives, its guard are gone; the guard clears `active`.
End(answer) ==
    /\ job' = NoJob
    /\ active' = (active /\ ~job.guarded)
    /\ IF job.guarded THEN Tell(job.tx, job.op, answer) ELSE UNCHANGED driver

\* An operation or the test before it fails, or the script is interrupted: it
\* exits, the stage script through its trap.
StepFails ==
    /\ job.op \in Ops /\ job.todo # <<>> /\ ~job.failed
    /\ IF job.op = "stage"
       THEN /\ job' = [job EXCEPT !.failed = TRUE, !.todo = StageTrap(disk, job), !.test = "due"]
            /\ UNCHANGED <<active, driver>>
       ELSE End(Failed(job.tx, job.op))
    /\ UNCHANGED <<disk, lease, held, sent, known, original, healthy, published, replaced>>

\* A test inside the trap fails: the trap returns.
TrapReturns ==
    /\ job.op = "stage" /\ job.failed /\ job.todo # <<>>
    /\ job.test = "due" /\ ~Verified(Head(job.todo), disk, job)
    /\ job' = [job EXCEPT !.todo = <<>>]
    /\ UNCHANGED <<disk, lease, held, active, sent, driver, known, original, healthy,
                   published, replaced>>

Finish ==
    /\ job.op \in Ops /\ job.todo = <<>>
    /\ End(IF job.failed THEN Failed(job.tx, job.op) ELSE Succeeded(job.tx, job.op, job.kind))
    /\ had_previous' = IF job.op = "stage" /\ ~job.failed /\ job.line.previous # Absent
                       THEN had_previous \cup {job.tx} ELSE had_previous
    /\ UNCHANGED <<disk, lease, held, sent, candidate, original, healthy, published, replaced>>

ScriptKilled ==
    /\ job.op \in Ops
    /\ End(Failed(job.tx, job.op))
    /\ UNCHANGED <<disk, lease, held, sent, known, original, healthy, published, replaced>>

GuardKilled ==
    /\ job.op \in Ops /\ job.guarded
    /\ job' = [job EXCEPT !.guarded = FALSE]
    /\ UNCHANGED <<disk, lease, held, active, sent, driver, known, original, healthy,
                   published, replaced>>

\* Somebody else copies another build over the target, also between a test of
\* the target and the operation after it.
Replace ==
    /\ replaced = "never"
    /\ replaced' = "now" /\ disk' = [disk EXCEPT !.target = Foreign]
    /\ job' = IF job # NoJob /\ job.test = "passed" THEN [job EXCEPT !.test = "raced"] ELSE job
    /\ UNCHANGED <<lease, held, active, sent, driver, known, original, healthy, published>>

-----------------------------------------------------------------------------
(* The driver's steps. *)

remote_vars == <<disk, lease, held, active, job, known, original, published, replaced>>

\* After LEASE_READY: an automatic install may find the agent compatible by now.
Decide(l) ==
    /\ driver[l].at = "ready"
    /\ \E next \in {Due("stage"), Done(l, "Skipped")} : driver' = [driver EXCEPT ![l] = next]
    /\ UNCHANGED <<remote_vars, sent, healthy>>

Issue(l) ==
    /\ driver[l].at = "due"
    /\ driver' = [driver EXCEPT ![l].at = "await"]
    /\ sent' = sent \cup {[op |-> driver[l].op, tx |-> l]}
    /\ UNCHANGED <<remote_vars, healthy>>

\* ensure_held fails, the budget is spent, the old agent cannot be stopped
\* (due), or no answer comes in time (await).
GiveUp(l) ==
    /\ driver[l].at \in {"due", "await"}
    /\ driver' = [driver EXCEPT ![l] = Failed(l, driver[l].op)]
    /\ UNCHANGED <<remote_vars, sent, healthy>>

Validate(l) ==
    /\ driver[l].at = "validate"
    /\ \E good \in BOOLEAN :
          /\ driver' = [driver EXCEPT ![l] = Validated(l, good)]
          /\ healthy' = IF good /\ driver[l].op = "activate" THEN healthy \cup {l} ELSE healthy
    /\ UNCHANGED <<remote_vars, sent>>

SidecarDies(l) ==
    /\ driver[l].at \notin {"none", "done"}
    /\ driver' = [driver EXCEPT ![l] = Done(l, "Crashed")]
    /\ UNCHANGED <<remote_vars, sent, healthy>>

Next ==
    \/ Acquire \/ LeaseReady \/ LeaseFails \/ HolderExits
    \/ Test \/ Step \/ StepFails \/ TrapReturns \/ Finish \/ ScriptKilled \/ GuardKilled \/ Replace
    \/ \E c \in sent : Begin(c) \/ Refuse(c)
    \/ \E l \in Leases : Decide(l) \/ Issue(l) \/ GiveUp(l) \/ Validate(l) \/ SidecarDies(l)

Spec == Init /\ [][Next]_vars

-----------------------------------------------------------------------------
(* Properties. *)

\* Types; in particular the target is a whole build or absent, never a partial file.
TypeOK ==
    /\ disk.target \in Builds \cup {Absent}
    /\ disk.stage \in [Leases -> Candidates \cup {Absent, Partial}]
    /\ disk.backup \in [Leases -> Builds \cup {Absent, Partial}]
    /\ disk.journal \in Lines \cup {NoFile} /\ disk.next \in Lines \cup {NoFile, Torn}
    /\ lease \in 0 .. MaxInstalls /\ held \in BOOLEAN /\ active \in BOOLEAN
    /\ sent \subseteq [op: Ops, tx: Leases]
    /\ driver \in [Leases -> [at: {"none", "lease", "ready", "due", "await", "validate", "done"},
                              op: Ops, final: Finals]]
    /\ original \in Builds \cup {Absent} /\ replaced \in {"now", "before", "never"}
    /\ had_previous \subseteq Leases /\ healthy \subseteq Leases /\ published \subseteq Leases

\* Nothing is running that will still change a file.
Quiet == job = NoJob

\* The executable that a transaction found installed exists, as the target or as
\* its backup, until the new one has answered Hello through the normal path.
PreviousKept ==
    disk.journal # NoFile /\ disk.journal.previous # Absent =>
        \/ disk.journal.previous \in {disk.target, disk.backup[disk.journal.tx]}
        \/ disk.journal.tx \in healthy
        \/ disk.target = Foreign

\* What the driver reports of the target is so, until the next lease is taken or
\* somebody else replaces the target, whatever commands are still under way.
ReportTrue ==
    lease > 0 /\ driver[lease].at = "done" /\ replaced # "now" =>
        /\ driver[lease].final \in {"TargetUnchanged", "PreviousRestored"} =>
               disk.target = original
        /\ driver[lease].final \in {"Installed", "CandidateHealthy"} =>
               disk.target = candidate[lease]

\* A script killed anywhere leaves files that recover_journal can put right,
\* but for two: a journal line or a backup copy that was only begun.
RecoverableUnlessTorn ==
    /\ Quiet /\ replaced = "never" /\ disk.next # Torn
    /\ disk.journal # NoFile => disk.backup[disk.journal.tx] # Partial
    => RecoverPlan(disk) # Refused

\* A transaction starts from a clean slate: when the lease is ready, nothing of
\* an earlier transaction is left that the stage script would refuse.
ReadyIsClean ==
    lease > 0 /\ driver[lease].at = "ready" => disk.journal = NoFile /\ disk.next = NoFile

\* The stage and the backup of a published transaction do not outlive its journal.
NoLeftovers ==
    \A l \in published :
        disk.stage[l] # Absent \/ disk.backup[l] # Absent =>
            disk.journal # NoFile /\ disk.journal.tx = l

\* A build that somebody else installed is only ever removed by a transaction
\* that found it there and recorded it as the executable to go back to, unless it
\* came between the last test of the target and the operation right after it: no
\* longer window is left, through all the scripts, their failures and recovery.
ForeignKept ==
    [][disk.target = Foreign /\ disk'.target # Foreign =>
           \/ disk.journal # NoFile /\ disk.journal.previous = Foreign
           \/ job.test = "raced"]_vars
=============================================================================
