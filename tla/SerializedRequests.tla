-------------------------- MODULE SerializedRequests --------------------------
(***************************************************************************)
(* What the app-server promises about the client requests it serializes,   *)
(* without queues, drain tasks or notifications: requests arrive, start    *)
(* and finish; a request may start only when every earlier request that    *)
(* conflicts with it has finished.  RequestSerialization.tla is the code,  *)
(* and is checked to implement this specification.                         *)
(***************************************************************************)
EXTENDS Naturals

CONSTANTS
    Requests,   \* the requests that may ever be sent
    NoKey       \* the key of a request with no serialization scope

VARIABLES
    req,        \* [Requests -> [key, access]]: what each request asks for
    phase,      \* [Requests -> {"new", "waiting", "started", "finished"}]
    arrival     \* [Requests -> Nat]: arrival number within the key

vars == <<req, phase, arrival>>

\* Two requests conflict when they name the same resource and one writes it.
Conflict(a, b) ==
    /\ a # b
    /\ req[a].key # NoKey
    /\ req[a].key = req[b].key
    /\ "Exclusive" \in {req[a].access, req[b].access}

MayStart(r) ==
    \A e \in Requests :
        (Conflict(e, r) /\ phase[e] # "new" /\ arrival[e] < arrival[r])
            => phase[e] = "finished"

Init ==
    /\ phase = [r \in Requests |-> "new"]
    /\ arrival = [r \in Requests |-> 0]

Arrive(r) ==
    /\ phase[r] = "new"
    /\ phase' = [phase EXCEPT ![r] = "waiting"]
    /\ arrival' = [arrival EXCEPT ![r] = arrival'[r]]
    /\ arrival'[r] \in Nat
    /\ \A e \in Requests :
        (req[r].key # NoKey /\ req[e].key = req[r].key)
            => arrival[e] < arrival'[r]
    /\ UNCHANGED req

Start(r) ==
    /\ phase[r] = "waiting"
    /\ MayStart(r)
    /\ phase' = [phase EXCEPT ![r] = "started"]
    /\ UNCHANGED <<req, arrival>>

\* A request whose connection has closed is dropped instead of started.
Drop(r) ==
    /\ phase[r] = "waiting"
    /\ MayStart(r)
    /\ phase' = [phase EXCEPT ![r] = "finished"]
    /\ UNCHANGED <<req, arrival>>

Finish(r) ==
    /\ phase[r] = "started"
    /\ phase' = [phase EXCEPT ![r] = "finished"]
    /\ UNCHANGED <<req, arrival>>

Next == \E r \in Requests : Arrive(r) \/ Start(r) \/ Drop(r) \/ Finish(r)

SafeSpec == Init /\ [][Next]_vars

\* No request that has arrived starves, whatever its key and access, if those
\* that were started finish.
Spec ==
    /\ SafeSpec
    /\ (\A r \in Requests : WF_vars(Finish(r)))
          => \A r \in Requests : WF_vars(Start(r) \/ Drop(r))
===============================================================================
