------------------------------ MODULE AtomicCas ------------------------------
(***************************************************************************)
(* What the write requests of nrm-agent promise, seen from a client: a     *)
(* request names a path, the hash it expects there and the bytes to put    *)
(* there; in one indivisible step the file is replaced if it still has     *)
(* the expected hash, and otherwise the hash it has instead is reported.   *)
(* A request may also fail, before or after it took effect.                *)
(***************************************************************************)
CONSTANTS Agent,     \* agent processes that serve the same workspace
          Path,      \* files of the workspace
          Content,   \* whole file contents, identified with their hashes
          NoHash     \* the hash of a file that does not exist

VARIABLES content,   \* content[p]: what file p holds
          call       \* call[a]: the write request agent a works on, or its last reply

vars == <<content, call>>

Hash == Content \cup {NoHash}

Request == [path: Path, expected: Hash, bytes: Content]
NoRequest == [path |-> {}, expected |-> NoHash, bytes |-> NoHash]

Init ==
    /\ content \in [Path -> Hash]
    /\ call = [a \in Agent |-> [request |-> NoRequest, status |-> "failed", hash |-> NoHash]]

Invoke(a) ==
    /\ call[a].status # "open"
    /\ \E r \in Request :
         call' = [call EXCEPT ![a] = [request |-> r, status |-> "open", hash |-> NoHash]]
    /\ UNCHANGED content

Reply(a, status, hash) ==
    call' = [call EXCEPT ![a] = [request |-> NoRequest, status |-> status, hash |-> hash]]

Apply(a) ==
    LET r == call[a].request
    IN  /\ call[a].status = "open" /\ content[r.path] = r.expected
        /\ content' = [content EXCEPT ![r.path] = r.bytes]
        /\ Reply(a, "applied", r.bytes)

Conflict(a) ==
    LET r == call[a].request
    IN  /\ call[a].status = "open" /\ content[r.path] # r.expected
        /\ Reply(a, "conflict", content[r.path])
        /\ UNCHANGED content

Fail(a) == Reply(a, "failed", NoHash) /\ UNCHANGED content

Next == \E a \in Agent : Invoke(a) \/ Apply(a) \/ Conflict(a) \/ Fail(a)

Spec == Init /\ [][Next]_vars
=============================================================================
