----------------------- MODULE MCRequestSerialization -----------------------
(* Small instances of RequestSerialization for TLC.                        *)
EXTENDS RequestSerialization

Scope(kind, name) == [kind |-> kind, name |-> name]

\* One resource that is both read and written, the one background work uses.
ReadWriteScopes ==
    {Scope("Global", "config"), Scope("GlobalSharedRead", "config")}

\* A resource per connection besides.
MixedScopes == ReadWriteScopes \cup {Scope("FsWatch", "w")}

\* The processor rests when nothing can arrive and nothing is unfinished; any
\* other state without a successor is a deadlock TLC reports.
Quiescent ==
    /\ \A r \in Requests : Finished(r) \/ (status[r] = "new" /\ ~CanArrive(r))
    /\ \A r \in Requests : drain[r] \in {"none", "ended"}
    /\ \A c \in Conns : conn[c] \in {"drained", "timed_out"}
    /\ UNCHANGED vars

MCSpec == Init /\ [][Next \/ Quiescent]_vars /\ TaskFairness
=============================================================================
