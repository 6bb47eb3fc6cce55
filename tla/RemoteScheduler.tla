--------------------------- MODULE RemoteScheduler ---------------------------
(***************************************************************************)
(* How a sidecar session schedules remote requests: the request loop of    *)
(* run_server_session routes each request it cannot answer locally to the  *)
(* queue of the read or the write lane; one worker thread per lane takes   *)
(* requests from its queue.  Writes announce the paths they change         *)
(* (PendingHazard), later reads of these paths follow them on the write    *)
(* lane.  The loop also cancels requests, pauses both lanes to replace     *)
(* the remote agent, and ends the session.                                 *)
(*                                                                         *)
(* A step is one critical section of a mutex, one access to an atomic, or  *)
(* one wait.  What a request does on the remote is SaveMirror's business:  *)
(* here it runs and returns.                                               *)
(***************************************************************************)
EXTENDS Naturals, Sequences, FiniteSets

CONSTANTS Path,
          Requests,             \* the requests a client may send
          InteractiveCapacity,  \* REMOTE_INTERACTIVE_QUEUE_CAPACITY
          BackgroundCapacity,   \* REMOTE_BACKGROUND_QUEUE_CAPACITY
          MaxRequests,          \* bound: requests of a session
          MaxCancels,           \* bound: cancel requests
          MaxInstalls           \* bound: replacements of the agent

Lane == {"read", "write"}

\* `flags` holds the boolean parameters that are set.
Request == [method: STRING, paths: SUBSET Path,
            flags: SUBSET {"force", "background", "hydrate", "session_id"}]

ASSUME RequestsAssumption == Requests \subseteq Request
ASSUME BoundsAssumption ==
    /\ InteractiveCapacity \in Nat /\ BackgroundCapacity \in Nat
    /\ MaxRequests \in Nat /\ MaxCancels \in Nat /\ MaxInstalls \in Nat

VARIABLES
    work,            \* work[i]: request i and its lane, in order of arrival
    queue,           \* queue[l]: the ids in RemoteQueueState.queue
    interactive_len, background_len, closed, maintenance_paused, in_flight,
    controls,        \* controls[l]: ResetAgent controls that wait, by replacement
    moved,           \* moved[l]: what moved AgentPreempt's epoch since lane l took its work
    active,          \* ActiveRemote: the id each lane works on, or 0
    pending_remote, pending_writes,
    shutdown,        \* AgentInterrupt.shutdown_requested of both lanes
    agent_up,        \* agent_up[l]: the lane's agent process runs
    worker, loop,    \* the threads
    cancels, installs,   \* what is left of the bounds
    answers          \* history: responses sent for request i

queues == <<queue, interactive_len, background_len, closed, maintenance_paused>>
pending == <<pending_remote, pending_writes>>
bounds == <<cancels, installs>>
vars == <<work, queues, in_flight, controls, moved, active, pending, shutdown, agent_up,
          worker, loop, bounds, answers>>

-----------------------------------------------------------------------------
(* What the request says about itself. *)

\* request_is_write_lane (agent replacement never reaches a queue).
WriteMethods == {"recover_local_edits", "adopt", "flush", "flush_queued", "flush_queue",
                 "accept_local_conflict", "accept_remote_conflict"}
IsWrite(r) == r.method \in WriteMethods

Background(r) ==
    \/ r.method \in {"prefetch", "prefetch_known", "prefetch_related", "refresh", "scan",
                     "remote_probe"}
    \/ r.method \in {"recover_local_edits", "flush_queue"} /\ "background" \in r.flags

\* PendingHazard::for_request: what the request may change.
Hazard(r) ==
    [paths |-> IF \/ r.method \in {"prefetch", "adopt", "flush", "flush_queued"}
                  \/ r.method = "open" /\ "force" \in r.flags
               THEN r.paths ELSE {},
     unknown |-> \/ r.method = "grep" /\ "hydrate" \in r.flags
                 \/ r.method \in {"accept_local_conflict", "accept_remote_conflict"}
                 \/ r.method \in {"recover_local_edits", "flush_queue"} /\ "background" \notin r.flags]

\* RequestInterest::for_request: what its answer depends on.
Interest(r) ==
    [paths |-> IF r.method \in {"open", "validate", "prefetch", "git_blame"} THEN r.paths ELSE {},
     unknown |-> \/ r.method = "grep" /\ "hydrate" \in r.flags
                 \/ r.method \in {"git_status", "git_diff"}]

\* PendingHazard::conflicts_with_interest.
Conflicts(hazard, interest) ==
    \/ hazard.unknown /\ (interest.unknown \/ interest.paths # {})
    \/ interest.unknown /\ hazard.paths # {}
    \/ hazard.paths \cap interest.paths # {}

Preemptible(r) ==
    r.method \in {"open", "grep", "validate", "scan", "prefetch", "prefetch_known",
                  "prefetch_related", "refresh", "remote_probe", "git_status", "git_diff",
                  "git_blame"}

\* grep in a search session stays on the read lane whatever is pending.
Detached(r) == r.method = "grep" /\ "session_id" \in r.flags

-----------------------------------------------------------------------------
(* PendingRemote: counters per path and one for unknown paths. *)

NoneRegistered == [paths |-> [p \in Path |-> 0], unknown |-> 0]

Add(counters, hazard) ==
    [paths |-> [p \in Path |-> counters.paths[p] + IF p \in hazard.paths THEN 1 ELSE 0],
     unknown |-> counters.unknown + IF hazard.unknown THEN 1 ELSE 0]

\* PendingRemote::clear for the works in `ids`, saturating.
Saturating(n, k) == IF n > k THEN n - k ELSE 0

Sub(counters, ids) ==
    [paths |-> [p \in Path |-> Saturating(counters.paths[p],
                    Cardinality({i \in ids : p \in Hazard(work[i].request).paths}))],
     unknown |-> Saturating(counters.unknown,
                    Cardinality({i \in ids : Hazard(work[i].request).unknown}))]

\* PendingRemote::conflicts_with_interest, on the counters.
PendingConflict(counters, interest) ==
    LET paths == {p \in Path : counters.paths[p] > 0}
    IN  Conflicts([paths |-> paths, unknown |-> counters.unknown > 0], interest)

\* Mutant: the hazard of a cancelled write stays in pending_writes.
ClearRemoteOnly(ids) ==
    /\ pending_remote' = Sub(pending_remote, ids)
    /\ UNCHANGED pending_writes

\* clear_pending_work, clear_pending_work_refs, clear_pending_hazard.
ClearPending(ids) ==
    /\ pending_remote' = Sub(pending_remote, ids)
    /\ pending_writes' = Sub(pending_writes, {i \in ids : IsWrite(work[i].request)})

-----------------------------------------------------------------------------
(* RemoteQueueState. *)

IsBackground(i) == Background(work[i].request)
First(S) == {i \in S : \A j \in S : i <= j}

\* Requests are pushed in the order of their ids and never moved, so the order of
\* a queue is that of its ids.
\* next_ready_index: the first interactive request, or a background request in
\* front of it that it depends on; the first of all when none is interactive.
NextReady(l) ==
    LET interactive == First({i \in queue[l] : ~IsBackground(i)})
        blocking == {i \in queue[l] : \E j \in interactive :
                        i < j /\ Conflicts(Hazard(work[i].request), Interest(work[j].request))}
    IN  IF interactive = {} THEN First(queue[l])
        ELSE IF blocking = {} THEN interactive ELSE First(blocking)

\* Mutant: a work taken out keeps its place in the capacity.
TakeOutKeepsLength(l, ids) ==
    /\ queue' = [queue EXCEPT ![l] = @ \ ids]
    /\ UNCHANGED <<interactive_len, background_len>>

\* RemoteQueueState::remove, for the works in `ids`.
TakeOut(l, ids) ==
    /\ queue' = [queue EXCEPT ![l] = @ \ ids]
    /\ interactive_len' = [interactive_len EXCEPT ![l] =
           Saturating(@, Cardinality({i \in ids : ~IsBackground(i)}))]
    /\ background_len' = [background_len EXCEPT ![l] =
           Saturating(@, Cardinality({i \in ids : IsBackground(i)}))]

\* drain_all.
DrainAll(l) ==
    /\ queue' = [queue EXCEPT ![l] = {}]
    /\ interactive_len' = [interactive_len EXCEPT ![l] = 0]
    /\ background_len' = [background_len EXCEPT ![l] = 0]

\* Mutant: nobody is notified.
WakeNobody(l) == UNCHANGED worker

\* The condition variable `ready`.
Wake(l) ==
    worker' = [worker EXCEPT ![l].pc = IF @ = "waiting" THEN "pop" ELSE @]

\* request_preemption on the lanes; only work that is under way can notice.
RequestPreemption(lanes, by, id) ==
    moved' = [l \in Lane |-> IF l \in lanes /\ worker[l].pc \in {"taken", "running"}
                             THEN moved[l] \cup {[by |-> by, id |-> id]} ELSE moved[l]]

Answer(ids) == answers' = [i \in DOMAIN answers |-> answers[i] + IF i \in ids THEN 1 ELSE 0]

-----------------------------------------------------------------------------
IdleWorker == [pc |-> "pop", id |-> 0, control |-> 0]
IdleLoop == [pc |-> "idle", id |-> 0, dropped |-> {}, control |-> 0]

Init ==
    /\ work = <<>> /\ answers = <<>>
    /\ queue = [l \in Lane |-> {}]
    /\ interactive_len = [l \in Lane |-> 0] /\ background_len = [l \in Lane |-> 0]
    /\ closed = [l \in Lane |-> FALSE] /\ maintenance_paused = [l \in Lane |-> FALSE]
    /\ in_flight = [l \in Lane |-> 0]
    /\ controls = [l \in Lane |-> <<>>]
    /\ moved = [l \in Lane |-> {}] /\ active = [l \in Lane |-> 0]
    /\ pending_remote = NoneRegistered /\ pending_writes = NoneRegistered
    /\ shutdown = FALSE
    /\ agent_up = [l \in Lane |-> FALSE]
    /\ worker = [l \in Lane |-> IdleWorker] /\ loop = IdleLoop
    /\ cancels = MaxCancels /\ installs = MaxInstalls

-----------------------------------------------------------------------------
(* The request loop. *)

\* Mutant: reads always go to the read lane.
LaneByMethod(r) == IF IsWrite(r) THEN "write" ELSE "read"

\* RemoteLane::for_request.
LaneFor(r) ==
    IF IsWrite(r) THEN "write"
    ELSE IF Detached(r) THEN "read"
    ELSE IF PendingConflict(pending_writes, Interest(r)) THEN "write" ELSE "read"

\* FastHandle::Defer: the request is routed and its hazard registered.
Receive(r) ==
    /\ loop.pc = "idle" /\ Len(work) < MaxRequests
    /\ work' = Append(work, [request |-> r, lane |-> LaneFor(r)])
    /\ answers' = Append(answers, 0)
    /\ pending_remote' = Add(pending_remote, Hazard(r))
    /\ pending_writes' = IF IsWrite(r) THEN Add(pending_writes, Hazard(r)) ELSE pending_writes
    /\ loop' = [loop EXCEPT !.pc = "push", !.id = Len(work')]
    /\ UNCHANGED <<queues, in_flight, controls, moved, active, shutdown, agent_up, worker,
                   bounds>>

\* Mutant: a full queue takes one more.
FullLate(l, i) ==
    IF IsBackground(i) THEN background_len[l] > BackgroundCapacity
                       ELSE interactive_len[l] > InteractiveCapacity

Full(l, i) ==
    IF IsBackground(i) THEN background_len[l] >= BackgroundCapacity
                       ELSE interactive_len[l] >= InteractiveCapacity

\* try_push refused: the hazard is cleared again and the client told.
Reject ==
    LET i == loop.id
        l == work[i].lane
    IN  /\ loop.pc = "push"
        /\ closed[l] \/ maintenance_paused[l] \/ Full(l, i)
        /\ ClearPending({i}) /\ Answer({i})
        /\ loop' = IdleLoop
        /\ UNCHANGED <<work, queues, in_flight, controls, moved, active, shutdown, agent_up,
                       worker, bounds>>

\* drain_background_blocking: queued background work the new request depends on.
Blocking(l, i) ==
    {j \in queue[l] : /\ IsBackground(j)
                      /\ Conflicts(Hazard(work[j].request), Interest(work[i].request))}

\* Mutant: queued background work stays in front of a request that depends on it.
PushBehind ==
    LET i == loop.id
        l == work[i].lane
    IN  /\ loop.pc = "push"
        /\ ~closed[l] /\ ~maintenance_paused[l] /\ ~Full(l, i)
        /\ queue' = [queue EXCEPT ![l] = @ \cup {i}]
        /\ background_len' = [background_len EXCEPT ![l] = @ + IF IsBackground(i) THEN 1 ELSE 0]
        /\ interactive_len' = [interactive_len EXCEPT ![l] = @ + IF IsBackground(i) THEN 0 ELSE 1]
        /\ loop' = IdleLoop /\ Wake(l)
        /\ UNCHANGED <<work, closed, maintenance_paused, in_flight, controls, moved, active,
                       pending, shutdown, agent_up, bounds, answers>>

\* try_push: an interactive request removes what blocks it and preempts its lane.
Push ==
    LET i == loop.id
        l == work[i].lane
        dropped == IF IsBackground(i) THEN {} ELSE Blocking(l, i)
    IN  /\ loop.pc = "push"
        /\ ~closed[l] /\ ~maintenance_paused[l] /\ ~Full(l, i)
        /\ queue' = [queue EXCEPT ![l] = (@ \ dropped) \cup {i}]
        /\ background_len' = [background_len EXCEPT ![l] =
               Saturating(@, Cardinality(dropped)) + IF IsBackground(i) THEN 1 ELSE 0]
        /\ interactive_len' = [interactive_len EXCEPT ![l] = @ + IF IsBackground(i) THEN 0 ELSE 1]
        /\ IF IsBackground(i) THEN UNCHANGED moved ELSE RequestPreemption({l}, "newer", 0)
        /\ loop' = IF dropped = {} THEN IdleLoop
                   ELSE [IdleLoop EXCEPT !.pc = "clear", !.dropped = dropped]
        /\ Wake(l)
        /\ UNCHANGED <<work, closed, maintenance_paused, in_flight, controls, active, pending,
                       shutdown, agent_up, bounds, answers>>

\* Works that a newer request or a cancel took out of a queue are accounted for.
ClearDropped ==
    /\ loop.pc = "clear"
    /\ ClearPending(loop.dropped) /\ Answer(loop.dropped)
    /\ loop' = IdleLoop
    /\ UNCHANGED <<work, queues, in_flight, controls, moved, active, shutdown, agent_up, worker,
                   bounds>>

\* cancel: the request is looked for in the queues, then among the active ones.
CancelQueued(target) ==
    /\ loop.pc = "idle" /\ cancels > 0 /\ cancels' = cancels - 1
    /\ IF target \in queue[work[target].lane]
       THEN /\ TakeOut(work[target].lane, {target}) /\ Wake(work[target].lane)
            /\ loop' = [IdleLoop EXCEPT !.pc = "clear", !.dropped = {target}]
       ELSE /\ loop' = [IdleLoop EXCEPT !.pc = "cancel", !.id = target]
            /\ UNCHANGED <<queue, interactive_len, background_len, worker>>
    /\ UNCHANGED <<work, closed, maintenance_paused, in_flight, controls, moved, active, pending,
                   shutdown, agent_up, installs, answers>>

\* cancel_if_active: the lane's epoch moves while the target is still announced.
CancelActive ==
    LET lanes == {l \in Lane : active[l] = loop.id /\ Preemptible(work[loop.id].request)}
    IN  /\ loop.pc = "cancel"
        /\ RequestPreemption(lanes, "cancel", loop.id)
        /\ loop' = IdleLoop
        /\ UNCHANGED <<work, queues, in_flight, controls, active, pending, shutdown, agent_up,
                       worker, bounds, answers>>

-----------------------------------------------------------------------------
(* remote_agent_install and remote_agent_update: maintenance of both lanes. *)

\* RemoteMaintenanceGuard::begin, one queue after the other.
PauseLane(l, from, to) ==
    /\ loop.pc = from
    /\ maintenance_paused' = [maintenance_paused EXCEPT ![l] = TRUE]
    /\ DrainAll(l) /\ Wake(l)
    /\ loop' = [loop EXCEPT !.pc = to, !.dropped = @ \cup queue[l]]
    /\ UNCHANGED <<work, closed, in_flight, controls, moved, active, pending, shutdown, agent_up,
                   answers>>

BeginMaintenance ==
    /\ installs > 0 /\ installs' = installs - 1
    /\ PauseLane("read", "idle", "pause_write")
    /\ UNCHANGED cancels

\* Mutant: the read queue is paused twice.
PauseReadAgain == PauseLane("read", "pause_write", "preempt") /\ UNCHANGED bounds

PauseWrite == PauseLane("write", "pause_write", "preempt") /\ UNCHANGED bounds

\* Mutant: the drained requests are forgotten.
PreemptLanesSilently ==
    /\ loop.pc = "preempt"
    /\ RequestPreemption(Lane, "maintenance", 0)
    /\ ClearPending(loop.dropped)
    /\ loop' = [IdleLoop EXCEPT !.pc = "quiesce"]
    /\ UNCHANGED <<work, queues, in_flight, controls, active, shutdown, agent_up, worker, bounds,
                   answers>>

\* Both lanes are preempted, the drained requests cancelled.
PreemptLanes ==
    /\ loop.pc = "preempt"
    /\ RequestPreemption(Lane, "maintenance", 0)
    /\ ClearPending(loop.dropped) /\ Answer(loop.dropped)
    /\ loop' = [IdleLoop EXCEPT !.pc = "quiesce"]
    /\ UNCHANGED <<work, queues, in_flight, controls, active, shutdown, agent_up, worker, bounds>>

\* wait_for_remote_queues_quiescent: nothing in flight, every agent process gone.
Quiesce ==
    /\ loop.pc = "quiesce" /\ \A l \in Lane : in_flight[l] = 0
    /\ agent_up' = [l \in Lane |-> FALSE]
    /\ loop' = [loop EXCEPT !.pc = "reset_read"]
    /\ UNCHANGED <<work, queues, in_flight, controls, moved, active, pending, shutdown, worker,
                   bounds, answers>>

\* reset_agent_worker: a control is queued and its reply awaited.  Each control
\* has a channel of its own, here the number of the replacement.
Replacement == MaxInstalls - installs

SendReset(l, from, to) ==
    /\ loop.pc = from /\ ~closed[l]
    /\ controls' = [controls EXCEPT ![l] = Append(@, Replacement)]
    /\ loop' = [loop EXCEPT !.pc = to, !.control = Replacement]
    /\ Wake(l)
    /\ UNCHANGED <<work, queues, in_flight, moved, active, pending, shutdown, agent_up, bounds,
                   answers>>

SendResets == SendReset("read", "reset_read", "await_read") \/ SendReset("write", "reset_write", "await_write")

\* A deadline passes, or the installation ends: drop(maintenance) and the answer.
MaintenancePc == {"quiesce", "reset_read", "await_read", "reset_write", "await_write",
                  "failed", "install"}

EndMaintenance ==
    /\ loop.pc \in MaintenancePc
    /\ maintenance_paused' = [l \in Lane |-> FALSE]
    /\ worker' = [l \in Lane |-> [worker[l] EXCEPT !.pc = IF @ = "waiting" THEN "pop" ELSE @]]
    /\ loop' = IdleLoop
    /\ UNCHANGED <<work, queue, interactive_len, background_len, closed, in_flight, controls, moved,
                   active, pending, shutdown, agent_up, bounds, answers>>

-----------------------------------------------------------------------------
(* The end of the session: shutdown, disconnect, or the input ends. *)

RequestShutdown ==
    /\ loop.pc = "idle"
    /\ shutdown' = TRUE
    /\ loop' = [IdleLoop EXCEPT !.pc = "drain_read"]
    /\ UNCHANGED <<work, queues, in_flight, controls, moved, active, pending, agent_up, worker,
                   bounds, answers>>

\* shutdown_and_drain and clear_pending_works: nobody is told.
DrainLane(l, from, to) ==
    /\ loop.pc = from
    /\ closed' = [closed EXCEPT ![l] = TRUE]
    /\ DrainAll(l) /\ Wake(l)
    /\ ClearPending(queue[l])
    /\ loop' = [loop EXCEPT !.pc = to]
    /\ UNCHANGED <<work, maintenance_paused, in_flight, controls, moved, active, shutdown,
                   agent_up, bounds, answers>>

DrainLanes == DrainLane("read", "drain_read", "drain_write") \/ DrainLane("write", "drain_write", "close_read")

\* close_and_drain_background and clear_pending_works, whatever ended the session.
CloseLane(l, from, to) ==
    LET dropped == {i \in queue[l] : IsBackground(i)}
    IN  /\ loop.pc = from
        /\ closed' = [closed EXCEPT ![l] = TRUE]
        /\ queue' = [queue EXCEPT ![l] = @ \ dropped]
        /\ background_len' = [background_len EXCEPT ![l] = 0]
        /\ interactive_len' = [interactive_len EXCEPT ![l] = Cardinality(queue'[l])]
        /\ Wake(l)
        /\ ClearPending(dropped)
        /\ loop' = [loop EXCEPT !.pc = to]
        /\ UNCHANGED <<work, maintenance_paused, in_flight, controls, moved, active, shutdown,
                       agent_up, bounds, answers>>

CloseLanes == CloseLane("read", "close_read", "close_write") \/ CloseLane("write", "close_write", "join")

Join ==
    /\ loop.pc = "join" /\ \A l \in Lane : worker[l].pc = "exited"
    /\ loop' = [loop EXCEPT !.pc = "ended"]
    /\ UNCHANGED <<work, queues, in_flight, controls, moved, active, pending, shutdown, agent_up,
                   worker, bounds, answers>>

-----------------------------------------------------------------------------
(* spawn_remote_worker: the loop of a lane. *)

\* pop_worker_item.
PopControl(l) ==
    /\ worker[l].pc = "pop" /\ controls[l] # <<>>
    /\ controls' = [controls EXCEPT ![l] = Tail(@)]
    /\ worker' = [worker EXCEPT ![l].pc = "reset", ![l].control = Head(controls[l])]
    /\ UNCHANGED <<work, queues, in_flight, moved, active, pending, shutdown, agent_up, loop,
                   bounds, answers>>

Ready(l) == ~maintenance_paused[l] /\ queue[l] # {}

PopWork(l) ==
    /\ worker[l].pc = "pop" /\ controls[l] = <<>> /\ Ready(l)
    /\ \E i \in NextReady(l) :
         /\ TakeOut(l, {i})
         /\ worker' = [worker EXCEPT ![l].pc = "taken", ![l].id = i]
    /\ in_flight' = [in_flight EXCEPT ![l] = @ + 1]
    /\ moved' = [moved EXCEPT ![l] = {}]
    /\ UNCHANGED <<work, closed, maintenance_paused, controls, active, pending, shutdown,
                   agent_up, loop, bounds, answers>>

\* Mutant: the worker waits for work although its queue is closed.
PopWaits(l) ==
    /\ worker[l].pc = "pop" /\ controls[l] = <<>> /\ ~Ready(l)
    /\ worker' = [worker EXCEPT ![l].pc = "waiting"]
    /\ UNCHANGED <<work, queues, in_flight, controls, moved, active, pending, shutdown, agent_up,
                   loop, bounds, answers>>

PopNothing(l) ==
    /\ worker[l].pc = "pop" /\ controls[l] = <<>> /\ ~Ready(l)
    /\ worker' = [worker EXCEPT ![l].pc = IF closed[l] THEN "exited" ELSE "waiting"]
    /\ UNCHANGED <<work, queues, in_flight, controls, moved, active, pending, shutdown, agent_up,
                   loop, bounds, answers>>

\* ResetAgent: the agent process is killed and its end awaited, in time or not.
\* The reply reaches the loop if it still waits for this control.
ResetAgent(l) ==
    /\ worker[l].pc = "reset"
    /\ \E stopped \in BOOLEAN :
         /\ agent_up' = [agent_up EXCEPT ![l] = @ /\ ~stopped]
         /\ loop' = IF loop.control # worker[l].control THEN loop
                    ELSE [loop EXCEPT !.control = 0,
                            !.pc = IF ~stopped THEN "failed"
                                   ELSE IF l = "read" THEN "reset_write" ELSE "install"]
    /\ worker' = [worker EXCEPT ![l].pc = "pop", ![l].control = 0]
    /\ UNCHANGED <<work, queues, in_flight, controls, moved, active, pending, shutdown, bounds,
                   answers>>

\* active.set, and the shutdown flag allows the request.
Announce(l) ==
    /\ worker[l].pc = "taken" /\ ~shutdown
    /\ active' = [active EXCEPT ![l] = worker[l].id]
    /\ worker' = [worker EXCEPT ![l].pc = "running"]
    /\ UNCHANGED <<work, queues, in_flight, controls, moved, pending, shutdown, agent_up, loop,
                   bounds, answers>>

\* The worker leaves: it closes its queue and clears what is left in it.
Leave(l, own) ==
    /\ closed' = [closed EXCEPT ![l] = TRUE]
    /\ DrainAll(l)
    /\ ClearPending(own \cup queue[l])
    /\ worker' = [worker EXCEPT ![l] = [IdleWorker EXCEPT !.pc = "exited"]]
    /\ UNCHANGED maintenance_paused

\* finish_started, when RemoteInFlightGuard is dropped.
FinishStarted(l) == in_flight' = [in_flight EXCEPT ![l] = Saturating(@, 1)]

\* A request that was taken when the shutdown began is dropped.
Abandon(l) ==
    /\ worker[l].pc = "taken" /\ shutdown
    /\ Leave(l, {worker[l].id})
    /\ FinishStarted(l)
    /\ moved' = [moved EXCEPT ![l] = {}]
    /\ UNCHANGED <<work, controls, active, shutdown, agent_up, loop, bounds, answers>>

\* handle_client_request returns: the request is done, has failed, has reached its
\* deadline or has noticed that the epoch moved.  Its hazard is cleared.  The agent
\* process waits for the next request, or was killed.
Handle(l) ==
    /\ worker[l].pc = "running"
    /\ \E up \in BOOLEAN : agent_up' = [agent_up EXCEPT ![l] = up]
    /\ ClearPending({worker[l].id})
    /\ moved' = [moved EXCEPT ![l] = {}]
    /\ worker' = [worker EXCEPT ![l].pc = "reply"]
    /\ UNCHANGED <<work, queues, in_flight, controls, active, shutdown, loop, bounds, answers>>

\* Mutant: the lane's entry is left for the next request to replace.
ReplyStillActive(l) ==
    /\ worker[l].pc = "reply"
    /\ Answer({worker[l].id})
    /\ FinishStarted(l)
    /\ worker' = [worker EXCEPT ![l] = IdleWorker]
    /\ UNCHANGED <<work, queues, controls, moved, active, pending, shutdown, agent_up, loop, bounds>>

\* active.clear, the response, RemoteInFlightGuard dropped; the worker leaves when
\* the session is shutting down.
Reply(l) ==
    /\ worker[l].pc = "reply"
    /\ active' = [active EXCEPT ![l] = 0]
    /\ Answer({worker[l].id})
    /\ FinishStarted(l)
    /\ IF shutdown THEN Leave(l, {})
       ELSE worker' = [worker EXCEPT ![l] = IdleWorker] /\ UNCHANGED <<queues, pending>>
    /\ UNCHANGED <<work, controls, moved, shutdown, agent_up, loop, bounds>>

-----------------------------------------------------------------------------
LoopStep ==
    \/ Reject \/ Push \/ ClearDropped \/ CancelActive
    \/ PauseWrite \/ PreemptLanes \/ Quiesce \/ SendResets \/ EndMaintenance
    \/ DrainLanes \/ CloseLanes \/ Join

WorkerStep(l) ==
    \/ PopControl(l) \/ PopWork(l) \/ PopNothing(l) \/ ResetAgent(l)
    \/ Announce(l) \/ Abandon(l) \/ Handle(l) \/ Reply(l)

Next ==
    \/ \E r \in Requests : Receive(r)
    \/ \E target \in DOMAIN work : CancelQueued(target)
    \/ BeginMaintenance \/ RequestShutdown
    \/ LoopStep \/ \E l \in Lane : WorkerStep(l)

Spec == Init /\ [][Next]_vars

\* Threads that can go on do; clients owe nothing.
FairSpec == Spec /\ WF_vars(LoopStep) /\ \A l \in Lane : WF_vars(WorkerStep(l))

-----------------------------------------------------------------------------
(* Properties. *)

Id == 0..MaxRequests
Counters == [paths: [Path -> Nat], unknown: Nat]

\* The type of every variable; a queue never holds more than its capacities, and
\* a lane has one request in flight at most.
TypeOK ==
    /\ work \in Seq([request: Requests, lane: Lane]) /\ Len(work) <= MaxRequests
    /\ queue \in [Lane -> SUBSET DOMAIN work]
    /\ interactive_len \in [Lane -> 0..InteractiveCapacity]
    /\ background_len \in [Lane -> 0..BackgroundCapacity]
    /\ closed \in [Lane -> BOOLEAN] /\ maintenance_paused \in [Lane -> BOOLEAN]
    /\ in_flight \in [Lane -> 0..1]
    /\ moved \in [Lane -> SUBSET [by: {"newer", "cancel", "maintenance"}, id: Id]]
    /\ controls \in [Lane -> Seq(Nat)]
    /\ active \in [Lane -> Id]
    /\ pending_remote \in Counters /\ pending_writes \in Counters
    /\ shutdown \in BOOLEAN /\ agent_up \in [Lane -> BOOLEAN]
    /\ worker \in [Lane -> [pc: {"pop", "waiting", "reset", "taken", "running", "reply",
                                 "exited"},
                            id: Id, control: Nat]]
    /\ loop \in [pc: MaintenancePc \cup {"idle", "push", "clear", "cancel", "pause_write",
                        "preempt", "drain_read", "drain_write", "close_read", "close_write",
                        "join", "ended"},
                 id: Id, dropped: SUBSET DOMAIN work, control: Nat]
    /\ cancels \in Nat /\ installs \in Nat
    /\ answers \in [DOMAIN work -> Nat]

\* The work a lane has taken, and those whose hazard is still registered.
Taken(l) == IF worker[l].pc \in {"taken", "running"} THEN {worker[l].id} ELSE {}
Arriving == IF loop.pc = "push" THEN {loop.id} ELSE {}
Live == Arriving \cup loop.dropped \cup UNION {queue[l] \cup Taken(l) : l \in Lane}

\* The counters that route reads and keep opens off the cache count exactly the
\* requests that are queued, running or being taken out: however a request ends
\* (answered, refused, cancelled, superseded, drained), its hazard is cleared once.
HazardsBalance ==
    \A c \in {<<pending_remote, Live>>,
              <<pending_writes, {i \in Live : IsWrite(work[i].request)}>>} :
        /\ \A p \in Path : c[1].paths[p] = Cardinality({i \in c[2] : p \in Hazard(work[i].request).paths})
        /\ c[1].unknown = Cardinality({i \in c[2] : Hazard(work[i].request).unknown})

\* The capacity counters of a queue count its works, and in_flight the work taken.
LengthsExact ==
    \A l \in Lane :
        /\ interactive_len[l] = Cardinality({i \in queue[l] : ~IsBackground(i)})
        /\ background_len[l] = Cardinality({i \in queue[l] : IsBackground(i)})
        /\ in_flight[l] = IF worker[l].pc \in {"taken", "running", "reply"}
                          THEN 1 ELSE 0

\* A request whose answer depends on a write that was sent before it does not
\* start while that write is queued or running (grep in a search session excepted).
ReadsFollowWrites ==
    \A l \in Lane : \A r \in Taken(l) : \A w \in UNION {queue[k] \cup Taken(k) : k \in Lane} :
        w < r /\ IsWrite(work[w].request) /\ Conflicts(Hazard(work[w].request), Interest(work[r].request))
            => Detached(work[r].request)

\* Background work never runs ahead of interactive work of its lane, although
\* next_ready_index would let it when the interactive request depends on it:
\* try_push has removed such work.
InteractiveFirst ==
    \A l \in Lane : (\E i \in queue[l] : ~IsBackground(i)) => \A i \in NextReady(l) : ~IsBackground(i)

\* Every request is answered once, and only after nothing is left of it; only
\* the end of the session leaves requests unanswered.
AnsweredOnce ==
    \A i \in DOMAIN work :
        LET ahead == Live \cup {worker[l].id : l \in {k \in Lane : worker[k].pc = "reply"}}
        IN  /\ answers[i] = 0 \/ (answers[i] = 1 /\ i \notin ahead)
            /\ answers[i] = 0 => i \in ahead \/ shutdown

\* A cancel of a running request preempts this request and no other, although
\* it only moves the epoch of the lane.
CancelHitsItsTarget ==
    \A l \in Lane : \A m \in moved[l] :
        worker[l].pc = "running" /\ m.by = "cancel" => m.id = worker[l].id

\* While the agent is replaced, no lane runs a request or keeps an agent process,
\* also when an earlier replacement gave up waiting for a lane.
InstallIsAlone ==
    loop.pc = "install" => \A l \in Lane : ~agent_up[l] /\ in_flight[l] = 0 /\ worker[l].pc # "running"

Answered(i) == i \in DOMAIN answers /\ answers[i] > 0

\* Every request is answered unless the session ends: no wake-up of a worker is
\* lost, and a replacement of the agent gives the lanes back.
RequestsAnswered == \A i \in 1..MaxRequests : i \in DOMAIN work ~> (Answered(i) \/ shutdown)

\* A session that ends joins its workers, whatever they were doing: waiting for
\* work, handling a request, or serving a reset nobody waits for.
SessionEnds == shutdown ~> loop.pc = "ended"
=============================================================================
