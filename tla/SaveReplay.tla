------------------------------ MODULE SaveReplay ------------------------------
(***************************************************************************)
(* Who drains the save queue.  After a connect the Lua client asks for a   *)
(* bounded flush_queue, and asks again only as long as every attempt was   *)
(* applied and rows remain; after a row that stays queued or becomes a     *)
(* conflict, or after a failed request, it gives up until the next         *)
(* connect.  The user's :RemoteFlushQueue is a FlushQueue of SaveMirror.   *)
(***************************************************************************)
EXTENDS SaveMirror, FiniteSets

CONSTANT ReplayLimit      \* flush_queue_on_connect_limit

ASSUME ReplayLimitAssumption == ReplayLimit \in Nat \ {0}

VARIABLE replay           \* the replay of this connection: "due" to be asked for,
                          \* "asked" and served with every attempt applied so far,
                          \* "off" with nothing left, or "stopped"

rvars == <<vars, replay>>

ReplayTypeOK == replay \in {"off", "due", "asked", "stopped"}

RInit == Init /\ replay = "off"

\* A new session after an orderly end of the old one, whose threads are done.
Connect ==
    /\ replay \in {"off", "stopped"}
    /\ WriterFree /\ jobs = <<>> /\ reader.pc = "idle"
    /\ \A t \in Threads : op[t].pc = "idle"
    /\ replay' = "due"
    /\ UNCHANGED vars

\* replay_once: a flush_queue of the oldest ReplayLimit rows.
ReplayOnce ==
    /\ replay = "due"
    /\ FlushQueue
    /\ \/ Cardinality(writer'.todo) = ReplayLimit
       \/ /\ Cardinality(writer'.todo) < ReplayLimit
          /\ writer'.todo = ReplayableIds(queue)
    /\ replay' = "asked"

ReplayNothing ==
    /\ replay = "due"
    /\ WriterFree /\ ReplayableIds(queue) = {}
    /\ replay' = "off"
    /\ UNCHANGED vars

\* The probe or the flush_queue fails, is refused by a full lane or preempted.
ReplayFails ==
    /\ replay = "due"
    /\ Spend("loss")
    /\ replay' = "stopped"
    /\ UNCHANGED <<remote, local_file, db, flush_due, workers, history>>

\* The rows attempted by this step of the write lane, and how they ended.
Attempted == writer.todo \ writer'.todo
AllApplied == \A i \in Attempted : queue'[i].state = "applied"

\* Mutant: the client does not look at what remains.
ForgetRemaining ==
    replay' = IF replay # "asked" \/ Attempted = {} THEN replay
              ELSE IF ~AllApplied THEN "stopped"
              ELSE IF writer'.todo # {} THEN "asked" ELSE "off"

\* on_done: again, when rows remain and all that was attempted was applied.
OnDone ==
    replay' = IF replay # "asked" \/ Attempted = {} THEN replay
              ELSE IF ~AllApplied THEN "stopped"
              ELSE IF writer'.todo # {} THEN "asked"
              ELSE IF ReplayableIds(queue') # {} THEN "due" ELSE "off"

\* The replay ends with the session it belongs to.
SessionLost == Crash /\ replay' = "stopped"

Mirror == Next /\ ~Crash /\ OnDone

RNext == Connect \/ ReplayOnce \/ ReplayNothing \/ ReplayFails \/ SessionLost \/ Mirror

\* The replay's request waits on the write lane like any other.
ReplaySpec == RInit /\ [][RNext]_rvars /\ Fairness /\ SF_rvars(ReplayOnce \/ ReplayNothing)

-----------------------------------------------------------------------------
(* Progress. *)

\* A save that is still to be uploaded and can be.
Waiting(i) == i \in DOMAIN queue /\ queue[i].state \in Replayable /\ queue[i].snapshot

\* Older rows that cannot be uploaded fill the whole of every bounded replay.
Blocked(i) ==
    Cardinality({j \in DOMAIN queue : /\ j < i
                                      /\ queue[j].state \in Replayable /\ ~queue[j].snapshot})
        >= ReplayLimit

\* As long as the client keeps reconnecting, every save whose snapshot survives
\* is applied, superseded or turned into a conflict, through other writers and
\* lost uploads, unless ReplayLimit older saves have lost their snapshots: those
\* stay first in every bounded replay, which then never gets to this save.
SavesLeaveQueue ==
    []<><<Connect>>_rvars => \A i \in 1..MaxRows : Waiting(i) ~> (~Waiting(i) \/ Blocked(i))

\* The user's unbounded flush_queue, repeated, gets to every save whose snapshot
\* survives, past older rows whose snapshots are damaged.
FlushCommandDrains ==
    []<><<FlushQueue /\ writer'.todo = ReplayableIds(queue)>>_rvars
        => \A i \in 1..MaxRows : Waiting(i) ~> ~Waiting(i)

\* A replay that has begun goes on, one bounded request after another, until
\* nothing is left to upload or an attempt is not applied.
ReplayGoesOn ==
    replay = "due" ~> \/ replay = "stopped"
                      \/ \A i \in DOMAIN queue : queue[i].state \notin Replayable
=============================================================================
