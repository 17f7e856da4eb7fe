--------------------------- MODULE MCRemoteInbound ---------------------------
(***************************************************************************)
(* Small logs for RemoteInbound.                                           *)
(***************************************************************************)
EXTENDS RemoteInbound

CONSTANTS k1, k2

E(key, kind, seq) == [key |-> key, kind |-> kind, seq |-> seq, seg |-> 0, count |-> 1]
C(key, seq, seg) == [key |-> key, kind |-> "chunk", seq |-> seq, seg |-> seg, count |-> 2]

\* A message in two chunks between two whole ones.
Chunked == <<E(k1, "initialize", 1), C(k1, 2, 0), C(k1, 2, 1), E(k1, "message", 3)>>

\* A client that initializes its stream again.
Reinitialized == <<E(k1, "initialize", 1), E(k1, "initialize", 2), E(k1, "message", 3)>>

\* A message sent twice, and a stream that is closed.
Repeated == <<E(k1, "initialize", 1), E(k1, "message", 2), E(k1, "message", 2),
              E(k1, "closed", 3), E(k1, "ping", 3)>>

\* Two streams, each with a message in two chunks.
TwoStreams == <<E(k1, "initialize", 1), E(k2, "initialize", 1), C(k1, 2, 0), C(k1, 2, 1),
                C(k2, 2, 0), C(k2, 2, 1), E(k1, "message", 3)>>

\* Not steady: the second stream opened between two chunks of the first.
Interleaved == <<E(k1, "initialize", 1), C(k1, 2, 0), E(k2, "initialize", 1), C(k1, 2, 1),
                 E(k2, "ping", 1)>>

SteadyLogs == {Chunked, Reinitialized, Repeated, TwoStreams}
ASSUME LogsAreSteady == \A l \in SteadyLogs : Steady(l)

AllLogs == SteadyLogs \union {Interleaved}
ReinitializedOnly == {Reinitialized}
=============================================================================
