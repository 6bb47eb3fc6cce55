--------------------------- MODULE AgentWriteProofs ---------------------------
(* For any number of agents, targets and contents: the locks of AgentWrite   *)
(* balance, and agents implement the atomic compare-and-swap of AtomicCas.    *)
EXTENDS AgentWrite, TLAPS

-----------------------------------------------------------------------------
(* Types. *)

\* A handler between requests is well typed.
LEMMA IdleType ==
    ASSUME NEW outcome \in {"applied", "conflict", "failed"}, NEW hash \in Hash \cup {Torn}
    PROVE  /\ Idle(outcome, hash) \in Handler
           /\ Idle(outcome, hash).pc = "idle" /\ Idle(outcome, hash).kind = "cas"
           /\ Idle(outcome, hash).hash = hash /\ Idle(outcome, hash).outcome = outcome
  <1>1. (CHOOSE p \in Path : TRUE) \in Path /\ (CHOOSE c \in Content : TRUE) \in Content
    BY InstanceAssumption
  <1>2. <<>> \in Seq(Content)
    OBVIOUS
  <1> QED
    BY <1>1, <1>2 DEF Idle, Handler, Hash

\* What is assembled from chunks is a content or torn.
LEMMA BytesOfType ==
    ASSUME NEW tmp
    PROVE  BytesOf(tmp) \in Content \cup {Torn}
  BY DEF BytesOf

\* A request that ends leaves well-typed variables.
LEMMA ReturnType ==
    ASSUME TypeOK, NEW a \in Agent, NEW outcome \in {"applied", "conflict", "failed"},
           NEW hash \in Hash \cup {Torn}, Return(a, outcome, hash)
    PROVE  /\ handler' \in [Agent -> Handler]
           /\ locks' \in [Agent -> SUBSET Path] /\ active' \in [Agent -> SUBSET Path]
  BY IdleType DEF Return, TypeOK

\* Expired uploads only leave sets.
LEMMA CleanType ==
    ASSUME TypeOK, NEW a \in Agent
    PROVE  /\ Live(a) \subseteq uploads[a] /\ Live(a) \subseteq Upload
           /\ LiveActive(a) \subseteq active[a] /\ LiveActive(a) \subseteq Path
           /\ LiveLocks(a) \subseteq locks[a] /\ LiveLocks(a) \subseteq Path
  BY DEF TypeOK, Live, LiveActive, LiveLocks

\* A temporary file that cannot be removed stays among them.
LEMMA RemoveType ==
    ASSUME TypeOK, NEW S, RemoveTemps(S)
    PROVE  temps' \subseteq Nat /\ abandoned' \subseteq Nat
  BY DEF TypeOK, RemoveTemps

\* Every step of an agent keeps the types.
LEMMA TypeStep ==
    ASSUME TypeOK, NEW a \in Agent, AgentStep(a) PROVE TypeOK'
  <1> USE DEF disk, bounds
  <1> DEFINE idle == IdleHandler
  <1>0. idle \in Handler
    BY IdleType DEF IdleHandler, Hash
  <1>h. handler[a] \in Handler
    BY DEF TypeOK
  <1> HIDE DEF idle
  <1>1. ASSUME NEW p \in Path, NEW e \in Hash, NEW c \in Content, WriteFileCas(a, p, e, c)
        PROVE  TypeOK'
    <2>1. [idle EXCEPT !.pc = "first", !.kind = "cas", !.path = p, !.expected = e, !.bytes = c]
             \in Handler
      BY <1>0 DEF Handler
    <2>2. handler' \in [Agent -> Handler]
      BY <1>1, <2>1 DEF WriteFileCas, TypeOK, idle
    <2> QED
      BY <1>1, <2>2 DEF WriteFileCas, TypeOK
  <1>2. ASSUME NEW p \in Path, NEW e \in Hash, NEW c \in Content, NEW size \in Nat,
               BeginWriteFileCas(a, p, e, c, size)
        PROVE  TypeOK'
    <2>1. [idle EXCEPT !.pc = "first", !.kind = "begin", !.path = p, !.expected = e, !.bytes = c,
                       !.size = size] \in Handler
      BY <1>0 DEF Handler
    <2>2. handler' \in [Agent -> Handler]
      BY <1>2, <2>1 DEF BeginWriteFileCas, TypeOK, idle
    <2> QED
      BY <1>2, <2>2, CleanType, RemoveType DEF BeginWriteFileCas, TypeOK
  <1>3. ASSUME NEW u \in uploads[a], NEW offset \in Nat, NEW c \in Content,
               WriteFileChunk(a, u, offset, c)
        PROVE  TypeOK'
    <2>1. u \in Upload
      BY DEF TypeOK
    <2>2. [u EXCEPT !.tmp = Append(@, c)] \in Upload
      BY <2>1 DEF Upload
    <2> QED
      BY <1>3, <2>2, CleanType, RemoveType DEF WriteFileChunk, TypeOK
  <1>4. ASSUME NEW u \in uploads[a], FinishWriteFileCas(a, u) PROVE TypeOK'
    <2>1. u \in Upload
      BY DEF TypeOK
    <2>2. [idle EXCEPT !.kind = "finish", !.path = u.path, !.expected = u.expected,
                       !.bytes = u.content_hash, !.tmp = u.tmp, !.id = u.id] \in Handler
      BY <1>0, <2>1 DEF Handler, Upload
    <2>3. handler' \in [Agent -> Handler]
      <3>1. [[idle EXCEPT !.kind = "finish", !.path = u.path, !.expected = u.expected,
                         !.bytes = u.content_hash, !.tmp = u.tmp, !.id = u.id]
               EXCEPT !.pc = "second"] \in Handler
        BY <2>2 DEF Handler
      <3> QED
        BY <1>0, <1>4, <3>1 DEF FinishWriteFileCas, TypeOK, idle
    <2>4. /\ active' \in [Agent -> SUBSET Path] /\ locks' \in [Agent -> SUBSET Path]
          /\ uploads' \in [Agent -> SUBSET Upload]
      BY <1>4, CleanType DEF FinishWriteFileCas, TypeOK
    <2>5. temps' \subseteq Nat /\ abandoned' \subseteq Nat
      BY <1>4, RemoveType DEF FinishWriteFileCas
    <2> QED
      BY <1>4, <2>3, <2>4, <2>5 DEF FinishWriteFileCas, TypeOK
  <1>5. ASSUME NEW aborted \in SUBSET uploads[a], AbortWriteFileCas(a, aborted) PROVE TypeOK'
    BY <1>5, CleanType, RemoveType DEF AbortWriteFileCas, TypeOK
  <1>6. CASE FirstHash(a)
    BY <1>6, <1>h DEF FirstHash, TypeOK, Handler
  <1>7. CASE ReportConflict(a)
    <2>1. handler[a].hash \in Hash \cup {Torn}
      BY <1>h DEF Handler
    <2> QED
      BY <1>7, <2>1, ReturnType DEF ReportConflict, TypeOK
  <1>8. CASE WriteTemp(a)
    <2>1. ids' \in Nat /\ temps' \subseteq Nat
      BY <1>8 DEF WriteTemp, TypeOK
    <2>2. [handler[a] EXCEPT !.pc = "second", !.id = ids'] \in Handler
      BY <1>h, <2>1 DEF Handler
    <2>3. handler' \in [Agent -> Handler]
      BY <1>8, <2>2 DEF WriteTemp, TypeOK
    <2> QED
      BY <1>8, <2>1, <2>3 DEF WriteTemp, TypeOK
  <1>9. CASE StartUpload(a)
    <2>1. [id |-> ids', path |-> handler[a].path, expected |-> handler[a].expected,
           content_hash |-> handler[a].bytes, size |-> handler[a].size, tmp |-> <<>>,
           expired |-> FALSE] \in Upload
      BY <1>9, <1>h DEF StartUpload, TypeOK, Handler, Upload
    <2>2. uploads' \in [Agent -> SUBSET Upload]
      BY <1>9, <2>1 DEF StartUpload, TypeOK
    <2>3. active' \in [Agent -> SUBSET Path]
      BY <1>9, <1>h DEF StartUpload, TypeOK, Handler
    <2>4. handler' \in [Agent -> Handler]
      BY <1>9, <1>0 DEF StartUpload, TypeOK, idle
    <2> QED
      <3>1. ids' \in Nat /\ temps' \subseteq Nat
        BY <1>9 DEF StartUpload, TypeOK
      <3>2. UNCHANGED <<content, locks, exits, foreign, abandoned>>
        BY <1>9 DEF StartUpload
      <3> QED
        BY <2>2, <2>3, <2>4, <3>1, <3>2 DEF TypeOK
  <1>10. CASE SecondHash(a)
    <2>1. [handler[a] EXCEPT !.pc = "rename"] \in Handler
      BY <1>h DEF Handler
    <2>2. content[handler[a].path] \in Hash \cup {Torn}
      BY <1>h DEF TypeOK, Handler
    <2>3. [handler[a] EXCEPT !.pc = "conflict", !.hash = content[handler[a].path]] \in Handler
      BY <1>h, <2>2 DEF Handler
    <2>4. handler' \in [Agent -> Handler]
      BY <1>10, <2>1, <2>3 DEF SecondHash, TypeOK
    <2>5. UNCHANGED <<content, uploads, active, locks, ids, exits, foreign>>
      BY <1>10 DEF SecondHash
    <2>6. temps' \subseteq Nat /\ abandoned' \subseteq Nat
      BY <1>10, RemoveType DEF SecondHash, TypeOK
    <2> QED
      BY <2>4, <2>5, <2>6 DEF TypeOK
  <1>11. CASE RenameTemp(a)
    <2>1. Candidate(handler[a]) \in Hash \cup {Torn}
      BY <1>h, BytesOfType DEF Candidate, Handler, Hash
    <2>2. [handler[a] EXCEPT !.pc = "report"] \in Handler
      BY <1>h DEF Handler
    <2>3. handler' \in [Agent -> Handler] /\ content' \in [Path -> Hash \cup {Torn}]
      BY <1>11, <2>1, <2>2 DEF RenameTemp, TypeOK
    <2> QED
      BY <1>11, <2>3 DEF RenameTemp, TypeOK
  <1>12. CASE ReportApplied(a)
    <2> DEFINE reply == IF handler[a].kind = "finish" THEN BytesOf(handler[a].tmp)
                        ELSE content[handler[a].path]
    <2>1. reply \in Hash \cup {Torn}
      BY <1>h, BytesOfType DEF TypeOK, Handler, Hash
    <2>2. /\ Return(a, "applied", reply)
          /\ UNCHANGED <<uploads, content, temps, ids, exits, foreign, abandoned>>
      BY <1>12 DEF ReportApplied
    <2> HIDE DEF reply
    <2> QED
      BY <2>1, <2>2, ReturnType DEF TypeOK
  <1>13. CASE IoError(a)
    <2>1. NoHash \in Hash \cup {Torn}
      BY DEF Hash
    <2> QED
      BY <1>13, <2>1, ReturnType, RemoveType DEF IoError, TypeOK
  <1>14. CASE Exit(a)
    <2>1. handler' \in [Agent -> Handler]
      BY <1>14, <1>0 DEF Exit, TypeOK, idle
    <2> QED
      <3>1. exits' \in Nat /\ UNCHANGED <<content, temps, ids, foreign>>
        BY <1>14 DEF Exit, TypeOK
      <3>2. abandoned' \subseteq Nat
        BY <1>14 DEF Exit, TypeOK
      <3>3. /\ active' \in [Agent -> SUBSET Path] /\ locks' \in [Agent -> SUBSET Path]
            /\ uploads' \in [Agent -> SUBSET Upload]
        BY <1>14 DEF Exit, TypeOK
      <3> QED
        BY <2>1, <3>1, <3>2, <3>3 DEF TypeOK
  <1>15. ASSUME NEW u \in uploads[a], Expire(a, u) PROVE TypeOK'
    <2>1. [u EXCEPT !.expired = TRUE] \in Upload
      <3>1. u \in Upload
        BY DEF TypeOK
      <3> QED
        BY <3>1 DEF Upload
    <2> QED
      BY <1>15, <2>1 DEF Expire, TypeOK
  <1>16. ASSUME NEW size \in {Size[d] : d \in Content} PROVE size \in Nat
    BY SizeAssumption
  <1>17. ASSUME NEW u \in uploads[a], NEW offset \in 0..Len(u.tmp) PROVE offset \in Nat
    OBVIOUS
  <1> QED
    BY <1>1, <1>2, <1>3, <1>4, <1>5, <1>6, <1>7, <1>8, <1>9, <1>10, <1>11, <1>12, <1>13, <1>14,
       <1>15, <1>16, <1>17 DEF AgentStep, Request, Progress

-----------------------------------------------------------------------------
(* One agent's books: its uploads U, active targets A, locks L and handler h. *)

HeldBy(h) == IF h.pc = "idle" THEN {} ELSE {h.path}
FinishedBy(h) == IF h.kind = "finish" THEN HeldBy(h) ELSE {}

Exact(U, A, L, h) ==
    /\ A = Paths(U) \cup FinishedBy(h)
    /\ L = Paths(U) \cup HeldBy(h)
    /\ HeldBy(h) \cap Paths(U) = {}
    /\ \A u, v \in U : u.path = v.path => u = v

\* Uploads that expire, are aborted or are thrown away take their locks along.
LEMMA DropUploads ==
    ASSUME NEW U, NEW A, NEW L, NEW h, NEW g, NEW X \in SUBSET U, h.pc = "idle", g.pc = "idle",
           Exact(U, A, L, h)
    PROVE  Exact(U \ X, A \ Paths(X), L \ Paths(X), g)
  <1>1. Paths(U \ X) = Paths(U) \ Paths(X)
    BY DEF Exact, Paths
  <1> QED
    BY <1>1 DEF Exact, HeldBy, FinishedBy

\* An upload that changes in any way but its target keeps the books.
LEMMA ReplaceUpload ==
    ASSUME NEW U, NEW A, NEW L, NEW h, NEW u \in U, NEW v, v.path = u.path, Exact(U, A, L, h)
    PROVE  Exact((U \ {u}) \cup {v}, A, L, h)
  <1>1. Paths((U \ {u}) \cup {v}) = Paths(U)
    BY DEF Paths
  <1>2. \A x, y \in (U \ {u}) \cup {v} : x.path = y.path => x = y
    BY DEF Exact
  <1> QED
    BY <1>1, <1>2 DEF Exact

\* A write or a begin takes the lock of a target the agent does not hold.
LEMMA OpenRequest ==
    ASSUME NEW U, NEW A, NEW L, NEW h, NEW g, h.pc = "idle", g.pc # "idle", g.kind # "finish",
           g.path \notin L, Exact(U, A, L, h)
    PROVE  Exact(U, A, L \cup {g.path}, g)
  BY DEF Exact, HeldBy, FinishedBy

\* A finish takes over the lock and the active target of its upload.
LEMMA TakeOver ==
    ASSUME NEW U, NEW A, NEW L, NEW h, NEW g, NEW u \in U, h.pc = "idle", g.pc # "idle",
           g.kind = "finish", g.path = u.path, Exact(U, A, L, h)
    PROVE  Exact(U \ {u}, A, L, g)
  <1>1. Paths(U) = Paths(U \ {u}) \cup {u.path} /\ u.path \notin Paths(U \ {u})
    BY DEF Exact, Paths
  <1> QED
    BY <1>1 DEF Exact, HeldBy, FinishedBy

\* A begin hands its lock to the upload it registers.
LEMMA HandOver ==
    ASSUME NEW U, NEW A, NEW L, NEW h, NEW g, NEW u, h.pc # "idle", h.kind # "finish",
           g.pc = "idle", u.path = h.path, Exact(U, A, L, h)
    PROVE  Exact(U \cup {u}, A \cup {h.path}, L, g)
  <1>1. Paths(U \cup {u}) = Paths(U) \cup {u.path} /\ u.path \notin Paths(U)
    BY DEF Exact, Paths, HeldBy
  <1>2. \A x, y \in U \cup {u} : x.path = y.path => x = y
    BY <1>1 DEF Exact, Paths
  <1> QED
    BY <1>1, <1>2 DEF Exact, HeldBy, FinishedBy

\* A request that goes on keeps what it holds.
LEMMA GoOn ==
    ASSUME NEW U, NEW A, NEW L, NEW h, NEW g, h.pc # "idle", g.pc # "idle", g.kind = h.kind,
           g.path = h.path, Exact(U, A, L, h)
    PROVE  Exact(U, A, L, g)
  BY DEF Exact, HeldBy, FinishedBy

\* A request that ends gives up what it held.
LEMMA GiveUp ==
    ASSUME NEW U, NEW A, NEW L, NEW h, NEW g, h.pc # "idle", g.pc = "idle", Exact(U, A, L, h)
    PROVE  Exact(U, IF h.kind = "finish" THEN A \ {h.path} ELSE A, L \ {h.path}, g)
  BY DEF Exact, HeldBy, FinishedBy

\* The books of one agent, and the locks of all, before and after a step of one
\* agent that locks no target another agent holds.
LEMMA OwnStep ==
    ASSUME TypeOK, TypeOK', LocksAreExact, NEW a \in Agent,
           \A b \in Agent \ {a} : /\ uploads'[b] = uploads[b] /\ active'[b] = active[b]
                                  /\ locks'[b] = locks[b] /\ handler'[b] = handler[b],
           Exact(uploads'[a], active'[a], locks'[a], handler'[a]),
           \A b \in Agent \ {a} : (locks'[a] \ locks[a]) \cap locks[b] = {}
    PROVE  LocksAreExact'
  <1>1. \A b \in Agent : Exact(uploads'[b], active'[b], locks'[b], handler'[b])
    BY DEF LocksAreExact, Exact, Held, Finishing, HeldBy, FinishedBy
  <1>2. \A b \in Agent \ {a} : locks'[a] \cap locks'[b] = {}
    BY DEF LocksAreExact
  <1>3. \A b \in Agent : \A c \in Agent \ {b} : locks'[b] \cap locks'[c] = {}
    BY <1>2 DEF LocksAreExact
  <1> QED
    BY <1>1, <1>3 DEF LocksAreExact, Exact, Held, Finishing, HeldBy, FinishedBy

-----------------------------------------------------------------------------
(* The locks balance. *)

\* What the books of an agent say while it is idle, once expired uploads are gone.
LEMMA CleanExact ==
    ASSUME TypeOK, LocksAreExact, NEW a \in Agent
    PROVE  /\ Exact(uploads[a], active[a], locks[a], handler[a])
           /\ handler[a].pc = "idle" => Exact(Live(a), LiveActive(a), LiveLocks(a), handler[a])
  <1>1. Exact(uploads[a], active[a], locks[a], handler[a])
    BY DEF LocksAreExact, Exact, Held, Finishing, HeldBy, FinishedBy
  <1>2. Expired(a) \in SUBSET uploads[a]
    BY DEF Expired
  <1>3. ASSUME handler[a].pc = "idle"
        PROVE  Exact(Live(a), LiveActive(a), LiveLocks(a), handler[a])
    BY <1>1, <1>2, <1>3, DropUploads DEF Live, LiveActive, LiveLocks
  <1> QED
    BY <1>1, <1>3

\* Every step of an agent keeps the books.
LEMMA LocksStep ==
    ASSUME TypeOK, TypeOK', LocksAreExact, NEW a \in Agent, AgentStep(a) PROVE LocksAreExact'
  <1> DEFINE h == handler[a]
             books == Exact(uploads'[a], active'[a], locks'[a], handler'[a])
             others == \A b \in Agent \ {a} :
                          /\ uploads'[b] = uploads[b] /\ active'[b] = active[b]
                          /\ locks'[b] = locks[b] /\ handler'[b] = handler[b]
             fresh == \A b \in Agent \ {a} : (locks'[a] \ locks[a]) \cap locks[b] = {}
  <1>a. Exact(uploads[a], active[a], locks[a], h)
    BY CleanExact
  <1>b. h.pc = "idle" => Exact(Live(a), LiveActive(a), LiveLocks(a), h)
    BY CleanExact
  <1>c. IdleHandler \in Handler /\ IdleHandler.pc = "idle"
    BY IdleType DEF IdleHandler, Hash
  <1>d. ASSUME others, books, fresh PROVE LocksAreExact'
    BY <1>d, OwnStep
  <1>e. LiveLocks(a) \subseteq locks[a]
    BY DEF LiveLocks
  <1>f. ASSUME NEW outcome, NEW hash, Return(a, outcome, hash), h.pc # "idle", UNCHANGED uploads
        PROVE  LocksAreExact'
    <2>1. handler'[a].pc = "idle" /\ locks'[a] = locks[a] \ {h.path}
      BY <1>f DEF Return, TypeOK, Idle
    <2>2. active'[a] = IF h.kind = "finish" THEN active[a] \ {h.path} ELSE active[a]
      BY <1>f DEF Return, TypeOK
    <2>3. books
      <3>1. Exact(uploads[a], IF h.kind = "finish" THEN active[a] \ {h.path} ELSE active[a],
                  locks[a] \ {h.path}, handler'[a])
        <4> DEFINE g == handler'[a]
        <4>1. g.pc = "idle"
          BY <2>1
        <4> HIDE DEF g, h
        <4>2. h.pc # "idle"
          BY <1>f DEF h
        <4>3. Exact(uploads[a], IF h.kind = "finish" THEN active[a] \ {h.path} ELSE active[a],
                    locks[a] \ {h.path}, g)
          BY <1>a, <4>1, <4>2, GiveUp
        <4> QED
          BY <4>3 DEF g
      <3>2. uploads'[a] = uploads[a]
        BY <1>f
      <3> QED
        BY <2>1, <2>2, <3>1, <3>2
    <2>4. others
      BY <1>f DEF Return, TypeOK
    <2> QED
      BY <1>d, <2>1, <2>3, <2>4
  <1>g. ASSUME h.pc # "idle", UNCHANGED <<uploads, active, locks>>,
               NEW g, g.pc # "idle", g.kind = h.kind, g.path = h.path,
               handler' = [handler EXCEPT ![a] = g]
        PROVE  LocksAreExact'
    <2>1. handler'[a] = g
      BY <1>g DEF TypeOK
    <2>2. books
      BY <1>a, <1>g, <2>1, GoOn
    <2>3. others
      BY <1>g DEF TypeOK
    <2> QED
      BY <1>d, <1>g, <2>2, <2>3
  <1>h. h \in Handler
    BY DEF TypeOK
  <1> HIDE DEF books, others, fresh, h
  <1>1. ASSUME NEW p \in Path, NEW e \in Hash, NEW c \in Content, WriteFileCas(a, p, e, c)
        PROVE  LocksAreExact'
    <2> DEFINE g == [IdleHandler EXCEPT !.pc = "first", !.kind = "cas", !.path = p,
                                        !.expected = e, !.bytes = c]
    <2>1. g.pc # "idle" /\ g.kind # "finish" /\ g.path = p
      BY <1>c DEF Handler
    <2>2. /\ handler' = [handler EXCEPT ![a] = g] /\ h.pc = "idle" /\ p \notin locks[a]
          /\ locks' = [locks EXCEPT ![a] = @ \cup {p}] /\ UNCHANGED <<uploads, active>>
          /\ \A b \in Agent \ {a} : p \notin locks[b]
      BY <1>1 DEF WriteFileCas, Lockable, h
    <2> HIDE DEF g
    <2>3. handler'[a] = g /\ locks'[a] = locks[a] \cup {p} /\ uploads'[a] = uploads[a]
          /\ active'[a] = active[a]
      BY <2>2 DEF TypeOK
    <2>4. books
      BY <1>a, <2>1, <2>2, <2>3, OpenRequest DEF books
    <2>5. others /\ fresh
      BY <2>2, <2>3 DEF TypeOK, others, fresh
    <2> QED
      BY <1>d, <2>4, <2>5
  <1>2. ASSUME NEW p \in Path, NEW e \in Hash, NEW c \in Content, NEW size,
               BeginWriteFileCas(a, p, e, c, size)
        PROVE  LocksAreExact'
    <2> DEFINE g == [IdleHandler EXCEPT !.pc = "first", !.kind = "begin", !.path = p,
                                        !.expected = e, !.bytes = c, !.size = size]
    <2>1. g.pc # "idle" /\ g.kind # "finish" /\ g.path = p
      BY <1>c DEF Handler
    <2>2. /\ handler' = [handler EXCEPT ![a] = g] /\ h.pc = "idle" /\ p \notin LiveLocks(a)
          /\ uploads' = [uploads EXCEPT ![a] = Live(a)]
          /\ active' = [active EXCEPT ![a] = LiveActive(a)]
          /\ locks' = [locks EXCEPT ![a] = LiveLocks(a) \cup {p}]
          /\ \A b \in Agent \ {a} : p \notin locks[b]
      BY <1>2 DEF BeginWriteFileCas, Lockable, h
    <2> HIDE DEF g
    <2>3. handler'[a] = g /\ locks'[a] = LiveLocks(a) \cup {p} /\ uploads'[a] = Live(a)
          /\ active'[a] = LiveActive(a)
      BY <2>2 DEF TypeOK
    <2>4. books
      BY <1>b, <2>1, <2>2, <2>3, OpenRequest DEF books
    <2>5. others /\ fresh
      BY <1>e, <2>2, <2>3 DEF TypeOK, others, fresh
    <2> QED
      BY <1>d, <2>4, <2>5
  <1>3. ASSUME NEW u \in uploads[a], NEW offset, NEW c \in Content, WriteFileChunk(a, u, offset, c)
        PROVE  LocksAreExact'
    <2> DEFINE v == [u EXCEPT !.tmp = Append(@, c)]
    <2>1. u \in Upload
      BY DEF TypeOK
    <2>2. v.path = u.path
      BY <2>1 DEF Upload
    <2>3. /\ h.pc = "idle" /\ u \in Live(a) /\ UNCHANGED handler
          /\ uploads' = [uploads EXCEPT ![a] = (Live(a) \ {u}) \cup {v}]
          /\ active' = [active EXCEPT ![a] = LiveActive(a)]
          /\ locks' = [locks EXCEPT ![a] = LiveLocks(a)]
      BY <1>3 DEF WriteFileChunk, h
    <2> HIDE DEF v
    <2>4. /\ uploads'[a] = (Live(a) \ {u}) \cup {v} /\ active'[a] = LiveActive(a)
          /\ locks'[a] = LiveLocks(a) /\ handler'[a] = h
      BY <2>3 DEF TypeOK, h
    <2>5. books
      BY <1>b, <2>2, <2>3, <2>4, ReplaceUpload DEF books
    <2>6. others /\ fresh
      BY <1>e, <2>3, <2>4 DEF TypeOK, others, fresh
    <2> QED
      BY <1>d, <2>5, <2>6
  <1>4. ASSUME NEW u \in uploads[a], FinishWriteFileCas(a, u) PROVE LocksAreExact'
    <2> DEFINE k == [IdleHandler EXCEPT !.kind = "finish", !.path = u.path, !.expected = u.expected,
                                        !.bytes = u.content_hash, !.tmp = u.tmp, !.id = u.id]
               g == [k EXCEPT !.pc = "second"]
    <2>1. g.pc # "idle" /\ g.kind = "finish" /\ g.path = u.path
      BY <1>c DEF Handler
    <2>2. h.pc = "idle" /\ u \in Live(a) /\ uploads' = [uploads EXCEPT ![a] = Live(a) \ {u}]
      BY <1>4 DEF FinishWriteFileCas, h
    <2>3. \/ /\ handler' = [handler EXCEPT ![a] = g]
             /\ active' = [active EXCEPT ![a] = LiveActive(a)]
             /\ locks' = [locks EXCEPT ![a] = LiveLocks(a)]
          \/ /\ handler' = [handler EXCEPT ![a] = IdleHandler]
             /\ active' = [active EXCEPT ![a] = LiveActive(a) \ {u.path}]
             /\ locks' = [locks EXCEPT ![a] = LiveLocks(a) \ {u.path}]
      BY <1>4 DEF FinishWriteFileCas
    <2> HIDE DEF g
    <2>4. others
      BY <2>2, <2>3 DEF TypeOK, others
    <2>5. uploads'[a] = Live(a) \ {u}
      BY <2>2 DEF TypeOK
    <2>6. \/ handler'[a] = g /\ active'[a] = LiveActive(a) /\ locks'[a] = LiveLocks(a)
          \/ /\ handler'[a] = IdleHandler /\ active'[a] = LiveActive(a) \ {u.path}
             /\ locks'[a] = LiveLocks(a) \ {u.path}
      BY <2>3 DEF TypeOK
    <2>7. fresh
      BY <1>e, <2>6 DEF fresh
    <2>8. Exact(Live(a) \ {u}, LiveActive(a), LiveLocks(a), g)
      BY <1>b, <2>1, <2>2, TakeOver
    <2>9. Exact(Live(a) \ {u}, LiveActive(a) \ {u.path}, LiveLocks(a) \ {u.path}, IdleHandler)
      <3>1. Paths({u}) = {u.path} /\ {u} \in SUBSET Live(a)
        BY <2>2 DEF Paths
      <3>2. Exact(Live(a) \ {u}, LiveActive(a) \ Paths({u}), LiveLocks(a) \ Paths({u}), IdleHandler)
        BY <1>b, <1>c, <2>2, <3>1, DropUploads
      <3> QED
        BY <3>1, <3>2
    <2>10. books
      BY <2>5, <2>6, <2>8, <2>9 DEF books
    <2> QED
      BY <1>d, <2>4, <2>7, <2>10
  <1>5. ASSUME NEW aborted \in SUBSET uploads[a], AbortWriteFileCas(a, aborted)
        PROVE  LocksAreExact'
    <2>1. /\ h.pc = "idle" /\ aborted \in SUBSET Live(a) /\ UNCHANGED handler
          /\ uploads' = [uploads EXCEPT ![a] = Live(a) \ aborted]
          /\ active' = [active EXCEPT ![a] = LiveActive(a) \ Paths(aborted)]
          /\ locks' = [locks EXCEPT ![a] = LiveLocks(a) \ Paths(aborted)]
      BY <1>5 DEF AbortWriteFileCas, h
    <2>2. /\ uploads'[a] = Live(a) \ aborted /\ active'[a] = LiveActive(a) \ Paths(aborted)
          /\ locks'[a] = LiveLocks(a) \ Paths(aborted) /\ handler'[a] = h
      BY <2>1 DEF TypeOK, h
    <2>3. books
      BY <1>b, <2>1, <2>2, DropUploads DEF books
    <2>4. others /\ fresh
      BY <1>e, <2>1, <2>2 DEF TypeOK, others, fresh
    <2> QED
      BY <1>d, <2>3, <2>4
  <1>6. CASE FirstHash(a)
    <2> DEFINE g == IF content[h.path] = h.expected THEN [h EXCEPT !.pc = "write"]
                    ELSE [h EXCEPT !.pc = "conflict", !.hash = content[h.path]]
    <2>1. g.pc # "idle" /\ g.kind = h.kind /\ g.path = h.path
      BY <1>h DEF Handler
    <2>2. /\ h.pc # "idle" /\ UNCHANGED <<uploads, active, locks>>
          /\ handler' = [handler EXCEPT ![a] = g]
      BY <1>6 DEF FirstHash, h
    <2> HIDE DEF g
    <2> QED
      BY <1>g, <2>1, <2>2
  <1>7. CASE ReportConflict(a)
    BY <1>7, <1>f DEF ReportConflict, h
  <1>8. CASE WriteTemp(a)
    <2> DEFINE g == [h EXCEPT !.pc = "second", !.id = ids']
    <2>1. g.pc # "idle" /\ g.kind = h.kind /\ g.path = h.path
      BY <1>h DEF Handler
    <2>2. /\ h.pc # "idle" /\ UNCHANGED <<uploads, active, locks>>
          /\ handler' = [handler EXCEPT ![a] = g]
      BY <1>8 DEF WriteTemp, h
    <2> HIDE DEF g
    <2> QED
      BY <1>g, <2>1, <2>2
  <1>9. CASE StartUpload(a)
    <2> DEFINE u == [id |-> ids', path |-> h.path, expected |-> h.expected,
                     content_hash |-> h.bytes, size |-> h.size, tmp |-> <<>>, expired |-> FALSE]
    <2>1. u.path = h.path
      OBVIOUS
    <2>2. /\ h.pc # "idle" /\ h.kind # "finish" /\ UNCHANGED locks
          /\ handler' = [handler EXCEPT ![a] = IdleHandler]
          /\ uploads' = [uploads EXCEPT ![a] = @ \cup {u}]
          /\ active' = [active EXCEPT ![a] = @ \cup {h.path}]
      BY <1>9 DEF StartUpload, h
    <2> HIDE DEF u
    <2>3. /\ uploads'[a] = uploads[a] \cup {u} /\ active'[a] = active[a] \cup {h.path}
          /\ locks'[a] = locks[a] /\ handler'[a] = IdleHandler
      BY <2>2 DEF TypeOK
    <2>4. books
      BY <1>a, <1>c, <2>1, <2>2, <2>3, HandOver DEF books
    <2>5. others /\ fresh
      BY <2>2, <2>3 DEF TypeOK, others, fresh
    <2> QED
      BY <1>d, <2>4, <2>5
  <1>10. CASE SecondHash(a)
    <2> DEFINE g == IF content[h.path] = h.expected THEN [h EXCEPT !.pc = "rename"]
                    ELSE [h EXCEPT !.pc = "conflict", !.hash = content[h.path]]
    <2>1. g.pc # "idle" /\ g.kind = h.kind /\ g.path = h.path
      BY <1>h DEF Handler
    <2>2. /\ h.pc # "idle" /\ UNCHANGED <<uploads, active, locks>>
          /\ handler' = [handler EXCEPT ![a] = g]
      BY <1>10 DEF SecondHash, h
    <2> HIDE DEF g
    <2> QED
      BY <1>g, <2>1, <2>2
  <1>11. CASE RenameTemp(a)
    <2> DEFINE g == [h EXCEPT !.pc = "report"]
    <2>1. g.pc # "idle" /\ g.kind = h.kind /\ g.path = h.path
      BY <1>h DEF Handler
    <2>2. /\ h.pc # "idle" /\ UNCHANGED <<uploads, active, locks>>
          /\ handler' = [handler EXCEPT ![a] = g]
      BY <1>11 DEF RenameTemp, h
    <2> HIDE DEF g
    <2> QED
      BY <1>g, <2>1, <2>2
  <1>12. CASE ReportApplied(a)
    BY <1>12, <1>f DEF ReportApplied, h
  <1>13. CASE IoError(a)
    BY <1>13, <1>f DEF IoError, h
  <1>14. CASE Exit(a)
    <2>1. /\ uploads'[a] = {} /\ active'[a] = {} /\ locks'[a] = {} /\ handler'[a] = IdleHandler
          /\ others
      BY <1>14 DEF Exit, TypeOK, others
    <2>2. books
      BY <1>c, <2>1 DEF books, Exact, HeldBy, FinishedBy, Paths
    <2> QED
      BY <1>d, <2>1, <2>2 DEF fresh
  <1>15. ASSUME NEW u \in uploads[a], Expire(a, u) PROVE LocksAreExact'
    <2> DEFINE v == [u EXCEPT !.expired = TRUE]
    <2>1. u \in Upload
      BY DEF TypeOK
    <2>2. v.path = u.path
      BY <2>1 DEF Upload
    <2>3. /\ uploads' = [uploads EXCEPT ![a] = (@ \ {u}) \cup {v}]
          /\ UNCHANGED <<active, locks, handler>>
      BY <1>15 DEF Expire
    <2> HIDE DEF v
    <2>4. uploads'[a] = (uploads[a] \ {u}) \cup {v}
      BY <2>3 DEF TypeOK
    <2>5. books
      BY <1>a, <2>2, <2>3, <2>4, ReplaceUpload DEF books, h
    <2>6. others /\ fresh
      BY <2>3 DEF TypeOK, others, fresh
    <2> QED
      BY <1>d, <2>5, <2>6
  <1> QED
    BY <1>1, <1>2, <1>3, <1>4, <1>5, <1>6, <1>7, <1>8, <1>9, <1>10, <1>11, <1>12, <1>13, <1>14,
       <1>15 DEF AgentStep, Request, Progress

-----------------------------------------------------------------------------
(* What a handler knows of its target.                                        *)

\* A finished upload goes on only with the bytes its hash was declared for.
Verified(h) ==
    h.kind = "finish" /\ h.pc \in {"second", "rename", "report"} => BytesOf(h.tmp) = h.bytes

\* OnlyForeignRaces, for one handler h and the contents c of the targets.
Looked(c, h) ==
    \/ h.raced
    \/ /\ h.pc = "rename" => c[h.path] = h.expected
       /\ h.pc = "report" => c[h.path] = h.bytes
       /\ h.pc = "conflict" => c[h.path] = h.hash

AllVerified == \A a \in Agent : Verified(handler[a])

\* A step of agent a changes no target that another request has looked at.
LEMMA LookFrame ==
    ASSUME TypeOK, LocksAreExact, OnlyForeignRaces, AllVerified, NEW a \in Agent,
           \A b \in Agent \ {a} : handler'[b] = handler[b],
           \/ UNCHANGED content
           \/ /\ handler[a].pc # "idle"
              /\ \A p \in Path \ {handler[a].path} : content'[p] = content[p],
           Looked(content', handler'[a]), Verified(handler'[a])
    PROVE  OnlyForeignRaces' /\ AllVerified'
  <1>1. ASSUME NEW b \in Agent \ {a}, handler[b].pc # "idle"
        PROVE  content'[handler[b].path] = content[handler[b].path]
    <2>1. handler[b].path \in locks[b] /\ handler[b].path \in Path
      BY <1>1, SMTT(40) DEF LocksAreExact, Held, TypeOK, Handler
    <2>2. handler[a].pc # "idle" => handler[a].path \in locks[a]
      BY DEF LocksAreExact, Held
    <2>3. locks[a] \cap locks[b] = {}
      BY DEF LocksAreExact
    <2> QED
      BY <2>1, <2>2, <2>3
  <1>2. \A b \in Agent \ {a} : Looked(content', handler'[b])
    BY <1>1 DEF OnlyForeignRaces, Looked
  <1>3. \A b \in Agent : Looked(content', handler'[b])
    BY <1>2
  <1> QED
    BY <1>3 DEF OnlyForeignRaces, Looked, AllVerified

\* Every step of an agent keeps what the handlers know, and the targets whole.
LEMMA LookStep ==
    ASSUME TypeOK, LocksAreExact, OnlyForeignRaces, AllVerified, ContentIsWhole,
           NEW a \in Agent, AgentStep(a)
    PROVE  OnlyForeignRaces' /\ AllVerified' /\ ContentIsWhole'
  <1> DEFINE h == handler[a]
             others == \A b \in Agent \ {a} : handler'[b] = handler[b]
             goal == OnlyForeignRaces' /\ AllVerified' /\ ContentIsWhole'
  <1>h. h \in Handler
    BY DEF TypeOK
  <1>a. ASSUME others, UNCHANGED content, Looked(content, handler'[a]), Verified(handler'[a])
        PROVE  goal
    <2>1. Looked(content', handler'[a])
      BY <1>a
    <2> QED
      BY <1>a, <2>1, LookFrame DEF ContentIsWhole
  <1>b. ASSUME UNCHANGED content, NEW g, g.pc \notin {"rename", "report", "conflict"},
               g.kind # "finish" \/ g.pc # "second", handler' = [handler EXCEPT ![a] = g]
        PROVE  goal
    <2>1. handler'[a] = g /\ others
      BY <1>b DEF TypeOK
    <2>2. Looked(content, g) /\ Verified(g)
      BY <1>b DEF Looked, Verified
    <2> QED
      BY <1>a, <1>b, <2>1, <2>2
  <1>c. ASSUME UNCHANGED content, NEW outcome, NEW hash,
               handler' = [handler EXCEPT ![a] = Idle(outcome, hash)]
        PROVE  goal
    <2>1. Idle(outcome, hash).pc = "idle"
      BY DEF Idle
    <2> QED
      BY <1>b, <1>c, <2>1
  <1>d. IdleHandler \in Handler /\ IdleHandler.pc = "idle"
    BY IdleType DEF IdleHandler, Hash
  <1>e. UNCHANGED <<content, handler>> => goal
    BY DEF OnlyForeignRaces, AllVerified, ContentIsWhole
  <1> SUFFICES goal
    OBVIOUS
  <1> HIDE DEF goal, others, h
  <1>1. ASSUME NEW p \in Path, NEW e \in Hash, NEW c \in Content, WriteFileCas(a, p, e, c)
        PROVE  goal
    <2> DEFINE g == [IdleHandler EXCEPT !.pc = "first", !.kind = "cas", !.path = p,
                                        !.expected = e, !.bytes = c]
    <2>1. g.pc = "first"
      BY <1>d DEF Handler
    <2>2. handler' = [handler EXCEPT ![a] = g] /\ UNCHANGED content
      BY <1>1 DEF WriteFileCas, disk
    <2> HIDE DEF g
    <2> QED
      BY <1>b, <2>1, <2>2
  <1>2. ASSUME NEW p \in Path, NEW e \in Hash, NEW c \in Content, NEW size,
               BeginWriteFileCas(a, p, e, c, size)
        PROVE  goal
    <2> DEFINE g == [IdleHandler EXCEPT !.pc = "first", !.kind = "begin", !.path = p,
                                        !.expected = e, !.bytes = c, !.size = size]
    <2>1. g.pc = "first"
      BY <1>d DEF Handler
    <2>2. handler' = [handler EXCEPT ![a] = g] /\ UNCHANGED content
      BY <1>2 DEF BeginWriteFileCas
    <2> HIDE DEF g
    <2> QED
      BY <1>b, <2>1, <2>2
  <1>3. ASSUME NEW u \in uploads[a], NEW offset, NEW c \in Content, WriteFileChunk(a, u, offset, c)
        PROVE  goal
    BY <1>3, <1>e DEF WriteFileChunk
  <1>4. ASSUME NEW u \in uploads[a], FinishWriteFileCas(a, u) PROVE goal
    <2> DEFINE k == [IdleHandler EXCEPT !.kind = "finish", !.path = u.path, !.expected = u.expected,
                                        !.bytes = u.content_hash, !.tmp = u.tmp, !.id = u.id]
               g == [k EXCEPT !.pc = "second"]
    <2>1. g.pc = "second" /\ g.bytes = u.content_hash /\ g.tmp = u.tmp
      BY <1>d DEF Handler
    <2>2. /\ UNCHANGED content
          /\ \/ handler' = [handler EXCEPT ![a] = g] /\ BytesOf(u.tmp) = u.content_hash
             \/ handler' = [handler EXCEPT ![a] = IdleHandler]
      BY <1>4 DEF FinishWriteFileCas
    <2> HIDE DEF g
    <2>3. CASE handler' = [handler EXCEPT ![a] = g] /\ BytesOf(u.tmp) = u.content_hash
      <3>1. handler'[a] = g /\ others
        BY <2>3 DEF TypeOK, others
      <3>2. Looked(content, g) /\ Verified(g)
        BY <2>1, <2>3 DEF Looked, Verified
      <3> QED
        BY <1>a, <2>2, <3>1, <3>2
    <2>4. CASE handler' = [handler EXCEPT ![a] = IdleHandler]
      BY <1>c, <2>2, <2>4 DEF IdleHandler
    <2> QED
      BY <2>2, <2>3, <2>4
  <1>5. ASSUME NEW aborted \in SUBSET uploads[a], AbortWriteFileCas(a, aborted) PROVE goal
    BY <1>5, <1>e DEF AbortWriteFileCas
  <1>6. CASE FirstHash(a)
    <2> DEFINE g == IF content[h.path] = h.expected THEN [h EXCEPT !.pc = "write"]
                    ELSE [h EXCEPT !.pc = "conflict", !.hash = content[h.path]]
    <2>1. Looked(content, g) /\ Verified(g)
      BY <1>h DEF Handler, Looked, Verified
    <2>2. handler' = [handler EXCEPT ![a] = g] /\ UNCHANGED content
      BY <1>6 DEF FirstHash, h, disk
    <2> HIDE DEF g
    <2>3. handler'[a] = g /\ others
      BY <2>2 DEF TypeOK, others
    <2> QED
      BY <1>a, <2>1, <2>2, <2>3
  <1>7. CASE ReportConflict(a)
    BY <1>7, <1>c DEF ReportConflict, Return, disk
  <1>8. CASE WriteTemp(a)
    <2> DEFINE g == [h EXCEPT !.pc = "second", !.id = ids']
    <2>1. g.pc = "second" /\ g.kind = h.kind
      BY <1>h DEF Handler
    <2>2. /\ UNCHANGED content /\ h.kind # "finish"
          /\ handler' = [handler EXCEPT ![a] = g]
      BY <1>8 DEF WriteTemp, h
    <2> HIDE DEF g
    <2> QED
      BY <1>b, <2>1, <2>2
  <1>9. CASE StartUpload(a)
    BY <1>9, <1>c DEF StartUpload, IdleHandler
  <1>10. CASE SecondHash(a)
    <2> DEFINE g == IF content[h.path] = h.expected THEN [h EXCEPT !.pc = "rename"]
                    ELSE [h EXCEPT !.pc = "conflict", !.hash = content[h.path]]
    <2>1. handler' = [handler EXCEPT ![a] = g] /\ UNCHANGED content /\ h.pc = "second"
      BY <1>10 DEF SecondHash, h
    <2>2. Verified(h)
      BY DEF AllVerified, h
    <2>3. Looked(content, g) /\ Verified(g)
      BY <1>h, <2>1, <2>2 DEF Handler, Looked, Verified
    <2> HIDE DEF g
    <2>4. handler'[a] = g /\ others
      BY <2>1 DEF TypeOK, others
    <2> QED
      BY <1>a, <2>1, <2>3, <2>4
  <1>11. CASE RenameTemp(a)
    <2>1. h.pc = "rename" /\ content' = [content EXCEPT ![h.path] = Candidate(h)]
      BY <1>11 DEF RenameTemp, h
    <2>2. Candidate(h) = h.bytes
      BY <2>1 DEF AllVerified, Verified, Candidate, h
    <2>3. h.path \in Path /\ h.bytes \in Content
      BY <1>h DEF Handler
    <2>4. content'[h.path] = h.bytes /\ \A p \in Path \ {h.path} : content'[p] = content[p]
      BY <2>1, <2>2, <2>3 DEF TypeOK
    <2>5. Looked(content', handler'[a]) /\ Verified(handler'[a]) /\ others
      <3>1. handler' = [handler EXCEPT ![a] = [h EXCEPT !.pc = "report"]]
        BY <1>11 DEF RenameTemp, h
      <3>2. handler'[a] = [h EXCEPT !.pc = "report"] /\ others
        BY <3>1 DEF TypeOK, others
      <3>3. /\ handler'[a].pc = "report" /\ handler'[a].path = h.path
            /\ handler'[a].bytes = h.bytes /\ handler'[a].kind = h.kind
            /\ handler'[a].tmp = h.tmp
        BY <1>h, <3>2 DEF Handler
      <3> QED
        BY <2>2, <2>4, <3>2, <3>3 DEF Looked, Verified, Candidate
    <2>6. OnlyForeignRaces' /\ AllVerified'
      BY <2>1, <2>4, <2>5, LookFrame DEF others, h
    <2>7. ContentIsWhole'
      BY <2>3, <2>4, HashAssumption DEF ContentIsWhole
    <2> QED
      BY <2>6, <2>7 DEF goal
  <1>12. CASE ReportApplied(a)
    BY <1>12, <1>c DEF ReportApplied, Return, disk
  <1>13. CASE IoError(a)
    BY <1>13, <1>c DEF IoError, Return
  <1>14. CASE Exit(a)
    BY <1>14, <1>c DEF Exit, IdleHandler, disk
  <1>15. ASSUME NEW u \in uploads[a], Expire(a, u) PROVE goal
    BY <1>15, <1>e DEF Expire, disk
  <1> QED
    BY <1>1, <1>2, <1>3, <1>4, <1>5, <1>6, <1>7, <1>8, <1>9, <1>10, <1>11, <1>12, <1>13, <1>14,
       <1>15 DEF AgentStep, Request, Progress

-----------------------------------------------------------------------------
(* Theorems. *)

Inv == TypeOK /\ LocksAreExact /\ OnlyForeignRaces /\ AllVerified /\ ContentIsWhole

\* The invariant holds at the start.
LEMMA InvInit == Init => Inv
  <1> SUFFICES ASSUME Init PROVE Inv
    OBVIOUS
  <1>1. IdleHandler \in Handler /\ IdleHandler.pc = "idle"
    BY IdleType DEF IdleHandler, Hash
  <1>2. TypeOK
    BY <1>1, BoundAssumption DEF Init, TypeOK
  <1>3. LocksAreExact
    BY <1>1 DEF Init, LocksAreExact, Held, Finishing, Paths
  <1>4. OnlyForeignRaces /\ AllVerified
    BY <1>1 DEF Init, OnlyForeignRaces, AllVerified, Verified
  <1>5. ContentIsWhole
    BY HashAssumption DEF Init, ContentIsWhole, Hash
  <1> QED
    BY <1>2, <1>3, <1>4, <1>5 DEF Inv

\* A program without the lock changes targets, and what is known of them.
LEMMA ForeignStep ==
    ASSUME Inv, NEW p \in Path, NEW c \in Hash, ForeignWrite(p, c) PROVE Inv'
  <1> USE DEF ForeignWrite
  <1>1. ASSUME NEW a \in Agent
        PROVE  /\ handler'[a] \in Handler
               /\ handler'[a].pc = handler[a].pc /\ handler'[a].kind = handler[a].kind
               /\ handler'[a].path = handler[a].path /\ handler'[a].tmp = handler[a].tmp
               /\ handler'[a].bytes = handler[a].bytes /\ handler'[a].hash = handler[a].hash
               /\ handler'[a].expected = handler[a].expected
               /\ \/ handler'[a].raced
                  \/ /\ handler'[a].raced = handler[a].raced
                     /\ handler[a].pc \in {"rename", "report", "conflict"} => handler[a].path # p
    <2>1. handler[a] \in Handler
      BY DEF Inv, TypeOK
    <2>2. CASE handler[a].pc \in {"rename", "report", "conflict"} /\ handler[a].path = p
      <3>1. handler'[a] = [handler[a] EXCEPT !.raced = TRUE]
        BY <2>2
      <3> QED
        BY <2>1, <3>1 DEF Handler
    <2>3. CASE ~(handler[a].pc \in {"rename", "report", "conflict"} /\ handler[a].path = p)
      <3>1. handler'[a] = handler[a]
        BY <2>3
      <3> QED
        BY <2>1, <2>3, <3>1
    <2> QED
      BY <2>2, <2>3
  <1>2. TypeOK'
    <2>1. handler' \in [Agent -> Handler]
      BY <1>1
    <2> QED
      BY <2>1 DEF Inv, TypeOK, Hash
  <1>3. LocksAreExact'
    BY <1>1 DEF Inv, LocksAreExact, Held, Finishing
  <1>4. AllVerified'
    BY <1>1 DEF Inv, AllVerified, Verified
  <1>5. OnlyForeignRaces'
    <2> SUFFICES ASSUME NEW a \in Agent PROVE Looked(content', handler'[a])
      BY DEF OnlyForeignRaces, Looked
    <2>1. handler[a].path \in Path
      BY DEF Inv, TypeOK, Handler
    <2>2. Looked(content, handler[a])
      BY DEF Inv, OnlyForeignRaces, Looked
    <2>3. handler[a].path # p => content'[handler[a].path] = content[handler[a].path]
      BY <2>1 DEF Inv, TypeOK
    <2> QED
      BY <1>1, <2>2, <2>3 DEF Looked
  <1>6. ContentIsWhole'
    BY HashAssumption DEF Inv, ContentIsWhole, TypeOK, Hash
  <1> QED
    BY <1>2, <1>3, <1>4, <1>5, <1>6 DEF Inv

\* The invariant is inductive.
LEMMA InvStep == Inv /\ [Next]_vars => Inv'
  <1> SUFFICES ASSUME Inv, [Next]_vars PROVE Inv'
    OBVIOUS
  <1>1. ASSUME NEW a \in Agent, AgentStep(a) PROVE Inv'
    BY <1>1, TypeStep, LocksStep, LookStep DEF Inv
  <1>2. ASSUME NEW p \in Path, NEW c \in Hash, ForeignWrite(p, c) PROVE Inv'
    BY <1>2, ForeignStep
  <1>3. CASE UNCHANGED vars
    BY <1>3 DEF vars, Inv, TypeOK, LocksAreExact, OnlyForeignRaces, AllVerified, Verified,
                ContentIsWhole, Held, Finishing
  <1> QED
    BY <1>1, <1>2, <1>3 DEF Next, AgentNext

\* The invariant holds in every behaviour, with programs that ignore the lock.
LEMMA InvHolds == Spec => []Inv
  BY InvInit, InvStep, PTL DEF Spec

\* For any number of agents and targets: the locks and the active targets of an
\* agent are exactly those of its uploads and of its request in progress, and no
\* two processes hold the lock of one target (acquire_write_locks, WriteLock,
\* ActiveWriteRelease, cleanup_expired_uploads).
THEOREM LocksBalance == Spec => []LocksAreExact
  <1>1. Inv => LocksAreExact
    BY DEF Inv
  <1> QED
    BY <1>1, InvHolds, PTL

\* Only a program that ignores the lock can change a target between the last look
\* at it and its replacement, hashing or copying (write_file_cas_prepared,
\* finish_write_file_cas).
THEOREM RacesAreForeign == Spec => []OnlyForeignRaces
  <1>1. Inv => OnlyForeignRaces
    BY DEF Inv
  <1> QED
    BY <1>1, InvHolds, PTL

\* No target ever holds a part or a mixture of contents, whatever chunks arrive
\* in whatever order (write_file_chunk, finish_write_file_cas).
THEOREM TargetsStayWhole == Spec => []ContentIsWhole
  <1>1. Inv => ContentIsWhole
    BY DEF Inv
  <1> QED
    BY <1>1, InvHolds, PTL

-----------------------------------------------------------------------------
(* Agents implement the atomic compare-and-swap. *)

NoneRaced == \A a \in Agent : ~handler[a].raced

Calls == [a \in Agent |-> CallOf(a)]

\* CallOf, as a function of the handler.
CallFor(h) ==
    IF h.pc \in OpenPc
    THEN [request |-> [path |-> h.path, expected |-> h.expected, bytes |-> h.bytes],
          status |-> "open", hash |-> NoHash]
    ELSE [request |-> [path |-> {}, expected |-> NoHash, bytes |-> NoHash],
          status |-> IF h.pc = "report" THEN "applied"
                     ELSE IF h.pc = "conflict" THEN "conflict" ELSE h.outcome,
          hash |-> IF h.pc = "report" THEN h.bytes ELSE h.hash]

\* A step that changes the handler of one agent changes its call.
LEMMA CallStep ==
    ASSUME TypeOK, NEW a \in Agent, NEW g, handler' = [handler EXCEPT ![a] = g]
    PROVE  Calls' = [Calls EXCEPT ![a] = CallFor(g)] /\ Calls[a] = CallFor(handler[a])
  <1>1. \A b \in Agent : CallOf(b)' = CallFor(handler'[b]) /\ CallOf(b) = CallFor(handler[b])
    BY DEF CallOf, CallFor
  <1>2. \A b \in Agent : handler'[b] = IF b = a THEN g ELSE handler[b]
    BY DEF TypeOK
  <1>3. Calls = [b \in Agent |-> CallFor(handler[b])]
    BY <1>1 DEF Calls
  <1>4. Calls' = [b \in Agent |-> CallFor(handler'[b])]
    BY <1>1 DEF Calls
  <1>5. CallFor(handler'[a]) = CallFor(g)
    BY <1>2
  <1>6. \A b \in Agent \ {a} : CallFor(handler'[b]) = CallFor(handler[b])
    BY <1>2
  <1> HIDE DEF Calls
  <1>7. Calls' = [Calls EXCEPT ![a] = CallFor(g)]
    BY <1>3, <1>4, <1>5, <1>6
  <1> QED
    BY <1>3, <1>7

\* Every step of an agent is one of the compare-and-swap, or none.
LEMMA CasStep ==
    ASSUME Inv, NoneRaced, NEW a \in Agent, AgentStep(a)
    PROVE  [Cas!Next]_(Cas!vars) /\ NoneRaced'
  <1> DEFINE h == handler[a]
             none == [path |-> {}, expected |-> NoHash, bytes |-> NoHash]
             goal == [Cas!Next]_(Cas!vars) /\ NoneRaced'
  <1>h. h \in Handler /\ ~h.raced /\ TypeOK
    BY DEF Inv, TypeOK, NoneRaced
  <1>d. IdleHandler \in Handler /\ IdleHandler.pc = "idle" /\ ~IdleHandler.raced
    BY IdleType DEF IdleHandler, Hash, Idle
  <1>a. ASSUME NEW g, handler' = [handler EXCEPT ![a] = g], ~g.raced
        PROVE  /\ NoneRaced'
               /\ Calls' = [Calls EXCEPT ![a] = CallFor(g)] /\ Calls[a] = CallFor(h)
               /\ CallFor(g) = CallFor(h) => UNCHANGED Calls
    <2>1. NoneRaced'
      BY <1>a, <1>h DEF NoneRaced, TypeOK
    <2>2. Calls' = [Calls EXCEPT ![a] = CallFor(g)] /\ Calls[a] = CallFor(h)
      BY <1>a, <1>h, CallStep
    <2> QED
      BY <2>1, <2>2 DEF Calls
  <1>b. UNCHANGED <<content, Calls>> => [Cas!Next]_(Cas!vars)
    BY DEF Cas!vars, Calls
  <1>c. ASSUME UNCHANGED <<content, handler>> PROVE goal
    <2>1. UNCHANGED Calls
      BY <1>c DEF Calls, CallOf
    <2> QED
      BY <1>b, <1>c, <2>1 DEF NoneRaced
  \* A request is opened.
  <1>e. ASSUME NEW g \in Handler, g.pc \in OpenPc, h.pc = "idle", UNCHANGED content, ~g.raced,
               handler' = [handler EXCEPT ![a] = g]
        PROVE  goal
    <2> DEFINE r == [path |-> g.path, expected |-> g.expected, bytes |-> g.bytes]
    <2>1. Calls' = [Calls EXCEPT ![a] = [request |-> r, status |-> "open", hash |-> NoHash]]
      BY <1>a, <1>e DEF CallFor
    <2>2. r \in Cas!Request
      BY DEF Cas!Request, Cas!Hash, Handler, Hash
    <2>3. Calls[a].status # "open"
      <3>1. Calls[a] = CallFor(h)
        BY <1>a, <1>e
      <3>2. CallFor(h).status = h.outcome
        BY <1>e DEF CallFor, OpenPc
      <3>3. h.outcome # "open"
        BY <1>h DEF Handler
      <3> QED
        BY <3>1, <3>2, <3>3
    <2>4. Cas!Invoke(a)
      BY <1>e, <2>1, <2>2, <2>3 DEF Cas!Invoke, Calls
    <2> QED
      BY <1>a, <1>e, <2>4 DEF Cas!Next
  \* A request fails.
  <1>f. ASSUME UNCHANGED content, handler' = [handler EXCEPT ![a] = IdleHandler] PROVE goal
    <2>1. CallFor(IdleHandler) = [request |-> none, status |-> "failed", hash |-> NoHash]
      BY DEF CallFor, IdleHandler, Idle, OpenPc
    <2>2. Calls' = [Calls EXCEPT ![a] = [request |-> none, status |-> "failed", hash |-> NoHash]]
      BY <1>a, <1>d, <1>f, <2>1
    <2>3. Cas!Fail(a)
      BY <1>f, <2>2 DEF Cas!Fail, Cas!Reply, Cas!NoRequest, Calls
    <2> QED
      BY <1>a, <1>d, <1>f, <2>3 DEF Cas!Next
  \* A look at the target.
  <1>g. ASSUME h.pc \in OpenPc, UNCHANGED content, NEW pc \in OpenPc,
               handler' = [handler EXCEPT ![a] =
                  IF content[h.path] = h.expected THEN [h EXCEPT !.pc = pc]
                  ELSE [h EXCEPT !.pc = "conflict", !.hash = content[h.path]]]
        PROVE  goal
    <2> DEFINE g == IF content[h.path] = h.expected THEN [h EXCEPT !.pc = pc]
                    ELSE [h EXCEPT !.pc = "conflict", !.hash = content[h.path]]
               r == [path |-> h.path, expected |-> h.expected, bytes |-> h.bytes]
    <2>0. ~g.raced
      BY <1>h DEF Handler
    <2>1. CASE content[h.path] = h.expected
      <3>1. CallFor(g) = CallFor(h)
        BY <1>g, <1>h, <2>1 DEF CallFor, Handler
      <3> QED
        BY <1>a, <1>b, <1>g, <2>0, <3>1
    <2>2. CASE content[h.path] # h.expected
      <3>1. CallFor(g) = [request |-> none, status |-> "conflict", hash |-> content[h.path]]
        BY <1>h, <2>2 DEF CallFor, Handler, OpenPc
      <3>2. Calls[a].request = r /\ Calls[a].status = "open"
        <4>1. Calls[a] = CallFor(h)
          BY <1>a, <1>g, <2>0
        <4>2. CallFor(h) = [request |-> r, status |-> "open", hash |-> NoHash]
          BY <1>g DEF CallFor
        <4> QED
          BY <4>1, <4>2, SMTT(40)
      <3>3. Calls' = [Calls EXCEPT ![a] = CallFor(g)] /\ NoneRaced'
        BY <1>a, <1>g, <2>0
      <3>4. Cas!Conflict(a)
        <4>1. content[Calls[a].request.path] # Calls[a].request.expected
          BY <2>2, <3>2
        <4>2. Calls' = [Calls EXCEPT ![a] = [request |-> none, status |-> "conflict",
                                            hash |-> content[Calls[a].request.path]]]
          <5> HIDE DEF g
          <5>1. Calls[a].request.path = h.path
            BY <3>2, SMTT(40)
          <5> QED
            BY <3>1, <3>3, <5>1
        <4> QED
          BY <1>g, <3>2, <4>1, <4>2 DEF Cas!Conflict, Cas!Reply, Cas!NoRequest, Calls
      <3> QED
        BY <3>3, <3>4 DEF Cas!Next
    <2> QED
      BY <2>1, <2>2
  \* A reply that repeats what the call says already.
  <1>i. ASSUME NEW outcome, NEW hash, UNCHANGED content,
               handler' = [handler EXCEPT ![a] = Idle(outcome, hash)],
               \/ h.pc = "conflict" /\ outcome = "conflict" /\ hash = h.hash
               \/ h.pc = "report" /\ outcome = "applied" /\ hash = h.bytes
        PROVE  goal
    <2>1. CallFor(Idle(outcome, hash)) = CallFor(h) /\ ~Idle(outcome, hash).raced
      BY <1>i DEF CallFor, Idle, OpenPc
    <2> QED
      BY <1>a, <1>b, <1>i, <2>1
  <1> SUFFICES goal
    OBVIOUS
  <1> HIDE DEF goal, h
  <1>1. ASSUME NEW p \in Path, NEW e \in Hash, NEW c \in Content, WriteFileCas(a, p, e, c)
        PROVE  goal
    <2> DEFINE g == [IdleHandler EXCEPT !.pc = "first", !.kind = "cas", !.path = p,
                                        !.expected = e, !.bytes = c]
    <2>1. g \in Handler /\ g.pc \in OpenPc /\ ~g.raced
      BY <1>d DEF Handler, OpenPc
    <2>2. handler' = [handler EXCEPT ![a] = g] /\ UNCHANGED content /\ h.pc = "idle"
      BY <1>1 DEF WriteFileCas, disk, h
    <2> HIDE DEF g
    <2> QED
      BY <1>e, <2>1, <2>2
  <1>2. ASSUME NEW p \in Path, NEW e \in Hash, NEW c \in Content, NEW size \in Nat,
               BeginWriteFileCas(a, p, e, c, size)
        PROVE  goal
    <2> DEFINE g == [IdleHandler EXCEPT !.pc = "first", !.kind = "begin", !.path = p,
                                        !.expected = e, !.bytes = c, !.size = size]
    <2>1. g \in Handler /\ g.pc \in OpenPc /\ ~g.raced
      BY <1>d DEF Handler, OpenPc
    <2>2. handler' = [handler EXCEPT ![a] = g] /\ UNCHANGED content /\ h.pc = "idle"
      BY <1>2 DEF BeginWriteFileCas, h
    <2> HIDE DEF g
    <2> QED
      BY <1>e, <2>1, <2>2
  <1>3. ASSUME NEW u \in uploads[a], NEW offset, NEW c \in Content, WriteFileChunk(a, u, offset, c)
        PROVE  goal
    BY <1>3, <1>c DEF WriteFileChunk
  <1>4. ASSUME NEW u \in uploads[a], FinishWriteFileCas(a, u) PROVE goal
    <2> DEFINE k == [IdleHandler EXCEPT !.kind = "finish", !.path = u.path, !.expected = u.expected,
                                        !.bytes = u.content_hash, !.tmp = u.tmp, !.id = u.id]
               g == [k EXCEPT !.pc = "second"]
    <2>0. u \in Upload
      BY <1>h DEF TypeOK
    <2>1. g \in Handler /\ g.pc \in OpenPc /\ ~g.raced
      BY <1>d, <2>0 DEF Handler, OpenPc, Upload
    <2>2. /\ UNCHANGED content /\ h.pc = "idle"
          /\ \/ handler' = [handler EXCEPT ![a] = g]
             \/ handler' = [handler EXCEPT ![a] = IdleHandler]
      BY <1>4 DEF FinishWriteFileCas, h
    <2> HIDE DEF g
    <2> QED
      BY <1>e, <1>f, <2>1, <2>2
  <1>5. ASSUME NEW aborted \in SUBSET uploads[a], AbortWriteFileCas(a, aborted) PROVE goal
    BY <1>5, <1>c DEF AbortWriteFileCas
  <1>6. CASE FirstHash(a)
    <2>1. "write" \in OpenPc /\ h.pc \in OpenPc /\ UNCHANGED content
      BY <1>6 DEF FirstHash, h, disk, OpenPc
    <2> QED
      BY <1>6, <1>g, <2>1 DEF FirstHash, h
  <1>7. CASE ReportConflict(a)
    BY <1>7, <1>i DEF ReportConflict, Return, disk, h
  <1>8. CASE WriteTemp(a)
    <2> DEFINE g == [h EXCEPT !.pc = "second", !.id = ids']
    <2>1. h.pc = "write" /\ handler' = [handler EXCEPT ![a] = g] /\ UNCHANGED content
      BY <1>8 DEF WriteTemp, h
    <2>2. CallFor(g) = CallFor(h) /\ ~g.raced
      BY <1>h, <2>1 DEF CallFor, Handler, OpenPc
    <2> HIDE DEF g
    <2> QED
      BY <1>a, <1>b, <2>1, <2>2 DEF goal
  <1>9. CASE StartUpload(a)
    BY <1>9, <1>f DEF StartUpload
  <1>10. CASE SecondHash(a)
    <2>1. "rename" \in OpenPc /\ h.pc \in OpenPc /\ UNCHANGED content
      BY <1>10 DEF SecondHash, h, OpenPc
    <2>2. handler' = [handler EXCEPT ![a] =
             IF content[h.path] = h.expected THEN [h EXCEPT !.pc = "rename"]
             ELSE [h EXCEPT !.pc = "conflict", !.hash = content[h.path]]]
      BY <1>10 DEF SecondHash, h
    <2> QED
      BY <1>g, <2>1, <2>2
  <1>11. CASE RenameTemp(a)
    <2> DEFINE r == [path |-> h.path, expected |-> h.expected, bytes |-> h.bytes]
               done == [request |-> none, status |-> "applied", hash |-> h.bytes]
    <2>1. h.pc = "rename" /\ content' = [content EXCEPT ![h.path] = Candidate(h)]
      BY <1>11 DEF RenameTemp, h
    <2>2. Candidate(h) = h.bytes
      BY <2>1 DEF Inv, AllVerified, Verified, Candidate, h
    <2>3. content[h.path] = h.expected
      BY <1>h, <2>1 DEF Inv, OnlyForeignRaces, h
    <2>4. PICK g : handler' = [handler EXCEPT ![a] = g] /\ CallFor(g) = done /\ ~g.raced
      <3> DEFINE k == [h EXCEPT !.pc = "report"]
      <3>1. handler' = [handler EXCEPT ![a] = k]
        BY <1>11 DEF RenameTemp, h
      <3>2. CallFor(k) = done /\ ~k.raced
        BY <1>h DEF CallFor, Handler, OpenPc
      <3> QED
        BY <3>1, <3>2
    <2>5. /\ NoneRaced' /\ Calls' = [Calls EXCEPT ![a] = done]
          /\ Calls[a].request = r /\ Calls[a].status = "open"
      <3>1. Calls[a] = CallFor(h) /\ Calls' = [Calls EXCEPT ![a] = done] /\ NoneRaced'
        BY <1>a, <2>4
      <3>2. CallFor(h) = [request |-> r, status |-> "open", hash |-> NoHash]
        BY <2>1 DEF CallFor, OpenPc
      <3> QED
        BY <3>1, <3>2, SMTT(40)
    <2>6. Cas!Apply(a)
      <3>0. /\ Calls[a].request.path = h.path
            /\ Calls[a].request.expected = h.expected
            /\ Calls[a].request.bytes = h.bytes
        <4>1. Calls[a].request = [path |-> h.path, expected |-> h.expected, bytes |-> h.bytes]
          BY <2>5
        <4> HIDE DEF h
        <4> QED
          BY <4>1, SMTT(40)
      <3>b. content' = [content EXCEPT ![h.path] = h.bytes]
        BY <2>1, <2>2
      <3>1. /\ content[Calls[a].request.path] = Calls[a].request.expected
            /\ content' = [content EXCEPT ![Calls[a].request.path] = Calls[a].request.bytes]
        BY <2>3, <3>0, <3>b, Zenon
      <3>2. Calls' = [Calls EXCEPT ![a] = [request |-> none, status |-> "applied",
                                          hash |-> Calls[a].request.bytes]]
        BY <2>5
      <3> QED
        BY <2>5, <3>1, <3>2 DEF Cas!Apply, Cas!Reply, Cas!NoRequest, Calls
    <2> QED
      BY <2>5, <2>6 DEF goal, Cas!Next
  <1>12. CASE ReportApplied(a)
    <2>1. h.pc = "report" /\ content[h.path] = h.bytes
      BY <1>12, <1>h DEF ReportApplied, Inv, OnlyForeignRaces, h
    <2>2. h.kind = "finish" => BytesOf(h.tmp) = h.bytes
      BY <2>1 DEF Inv, AllVerified, Verified, h
    <2>3. UNCHANGED content /\ handler' = [handler EXCEPT ![a] = Idle("applied", h.bytes)]
      BY <1>12, <2>1, <2>2 DEF ReportApplied, Return, disk, h
    <2> QED
      BY <1>i, <2>1, <2>3
  <1>13. CASE IoError(a)
    BY <1>13, <1>f DEF IoError, Return, IdleHandler
  <1>14. CASE Exit(a)
    BY <1>14, <1>f DEF Exit, disk
  <1>15. ASSUME NEW u \in uploads[a], Expire(a, u) PROVE goal
    BY <1>15, <1>c DEF Expire, disk
  <1>16. ASSUME NEW size \in {Size[d] : d \in Content} PROVE size \in Nat
    BY SizeAssumption
  <1> QED
    BY <1>1, <1>2, <1>3, <1>4, <1>5, <1>6, <1>7, <1>8, <1>9, <1>10, <1>11, <1>12, <1>13, <1>14,
       <1>15, <1>16 DEF AgentStep, Request, Progress

\* For any number of agents, targets and contents: the write requests of agents
\* that take the lock implement one indivisible compare-and-swap (AtomicCas).
THEOREM AgentsAreAtomic == AgentSpec => CasIsAtomic
  <1>1. Init => Inv /\ NoneRaced /\ Cas!Init
    <2> SUFFICES ASSUME Init PROVE NoneRaced /\ Cas!Init
      BY InvInit
    <2>1. NoneRaced
      BY DEF Init, NoneRaced, IdleHandler, Idle
    <2>2. \A a \in Agent : CallOf(a) = [request |-> Cas!NoRequest, status |-> "failed",
                                        hash |-> NoHash]
      BY DEF Init, CallOf, IdleHandler, Idle, OpenPc, Cas!NoRequest
    <2> QED
      BY <2>1, <2>2 DEF Init, Cas!Init, Cas!Hash, Hash
  <1>2. Inv /\ NoneRaced /\ [AgentNext]_vars => NoneRaced' /\ [Cas!Next]_(Cas!vars)
    <2> SUFFICES ASSUME Inv, NoneRaced, [AgentNext]_vars
                 PROVE  NoneRaced' /\ [Cas!Next]_(Cas!vars)
      OBVIOUS
    <2>1. CASE AgentNext
      BY <2>1, CasStep DEF AgentNext
    <2>2. CASE UNCHANGED vars
      BY <2>2 DEF vars, NoneRaced, Cas!vars, CallOf
    <2> QED
      BY <2>1, <2>2
  <1>3. [AgentNext]_vars => [Next]_vars
    BY DEF Next
  <1> QED
    BY <1>1, <1>2, <1>3, InvStep, PTL DEF AgentSpec, CasIsAtomic, Cas!Spec
=============================================================================
