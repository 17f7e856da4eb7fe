-------------------------- MODULE MCRemoteOutbound --------------------------
(***************************************************************************)
(* RemoteOutbound with two streams that share the buffer; one of them      *)
(* carries two messages, so that a message can follow a replayed one.      *)
(***************************************************************************)
EXTENDS RemoteOutbound

CONSTANTS s1, s2

Messages == [s \in Streams |-> IF s = s1 THEN 2 ELSE 1]

=============================================================================
