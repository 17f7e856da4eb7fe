-------------------------- MODULE ReliableStreams --------------------------
(***************************************************************************)
(* What the server-to-client half of remote control promises: every stream *)
(* is a log that only grows, the client side gets its entries one by one in*)
(* the order of the log, and an entry that is in the log arrives.          *)
(***************************************************************************)
EXTENDS Naturals, Sequences

CONSTANTS Streams, MaxSegments

VARIABLES
    log,        \* per stream, the envelopes the server numbered
    delivered   \* per stream, the envelopes that arrived

Init ==
    /\ log = [s \in Streams |-> <<>>]
    /\ delivered = [s \in Streams |-> <<>>]

\* The server adds the segments of one message.
Extend(s) ==
    /\ \E n \in 0..MaxSegments :
          /\ Len(log'[s]) = Len(log[s]) + n
          /\ SubSeq(log'[s], 1, Len(log[s])) = log[s]
    /\ \A r \in Streams \ {s} : log'[r] = log[r]
    /\ UNCHANGED delivered

\* The next envelope of the stream arrives.
Deliver(s) ==
    /\ Len(delivered[s]) < Len(log[s])
    /\ delivered' = [delivered EXCEPT ![s] = Append(@, log[s][Len(@) + 1])]
    /\ UNCHANGED log

Next == \E s \in Streams : Extend(s) \/ Deliver(s)

Steps == Init /\ [][Next]_<<log, delivered>>

Spec ==
    /\ Steps
    /\ \A s \in Streams : WF_<<log, delivered>>(Deliver(s))

=============================================================================
