-------------------------- MODULE MCRemoteScheduler --------------------------
(* Instances of RemoteScheduler for TLC. *)
EXTENDS RemoteScheduler

CONSTANTS p

Req(method, paths, flags) == [method |-> method, paths |-> paths, flags |-> flags]

\* A write, a read and background work, all of one path.
PathRequests ==
    {Req("flush_queued", {p}, {}), Req("open", {p}, {}), Req("prefetch", {p}, {})}

\* Also a write of unknown paths.
WriteRequests == PathRequests \cup {Req("accept_local_conflict", {}, {})}

\* A search that depends on every path but stays on the read lane, with a write
\* and background work.
SearchRequests ==
    {Req("flush_queued", {p}, {}), Req("prefetch", {p}, {}),
     Req("grep", {}, {"hydrate", "session_id"})}
=============================================================================
