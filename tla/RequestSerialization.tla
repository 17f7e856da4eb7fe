------------------------- MODULE RequestSerialization -------------------------
(***************************************************************************)
(* The app-server's request serialization: engine/app-server/src/          *)
(* request_serialization.rs (the per-resource queues and their drain       *)
(* tasks), connection_rpc_gate.rs (the per-connection gate), and the parts *)
(* of message_processor.rs and lib.rs that enqueue requests and close      *)
(* connections.                                                            *)
(*                                                                         *)
(* The queue map and the gate are each behind an async mutex held for one  *)
(* critical section; an action here is one critical section.  Handlers run *)
(* inside the drain task, so they make progress only while the task is     *)
(* polling them and not while it waits for the queue map's lock.           *)
(***************************************************************************)
EXTENDS Naturals, Sequences

CONSTANTS
    Requests,   \* request identities; the drain task an enqueue spawns is
                \* named after the request that spawned it
    Conns,      \* connections, each with its own gate
    Scopes,     \* the [kind, name] serialization scopes clients use
    NoKey, NoGate

ScopeKinds == {"Global", "GlobalSharedRead", "Thread", "ThreadPath",
               "CommandExecProcess", "Process", "FuzzyFileSearchSession",
               "FsWatch", "McpOauth"}

ASSUME ScopesAssumption == \A s \in Scopes : s.kind \in ScopeKinds

ASSUME NoGateAssumption == NoGate \notin Conns

\* Scopes whose key also holds the connection: two connections may use the
\* same process or watch id without sharing a queue.
ConnectionScoped == {"CommandExecProcess", "Process", "FsWatch"}

\* RequestSerializationQueueKey::from_scope.
FromScope(c, s) ==
    [key |-> CASE s.kind = "GlobalSharedRead" -> <<"Global", s.name>>
               [] s.kind \in ConnectionScoped -> <<s.kind, c, s.name>>
               [] OTHER -> <<s.kind, s.name>>,
     access |-> IF s.kind = "GlobalSharedRead" THEN "SharedRead"
                                               ELSE "Exclusive",
     gate |-> c]

\* A request with no scope is spawned directly (message_processor.rs).
Unserialized(c) == [key |-> NoKey, access |-> "Exclusive", gate |-> c]

\* enqueue_background: the app's own work on the config resource, no gate.
Background == [key |-> <<"Global", "config">>, access |-> "Exclusive",
               gate |-> NoGate]

RequestKinds == {FromScope(c, s) : c \in Conns, s \in Scopes}
                    \cup {Unserialized(c) : c \in Conns} \cup {Background}

Keys == {k.key : k \in RequestKinds} \ {NoKey}

VARIABLES
    req,        \* what each request is: fixed by the client before it is sent
    queue,      \* [Keys -> Seq(Requests)]: RequestSerializationQueue.requests
    present,    \* [Keys -> BOOLEAN]: the map holds a queue for the key
    changed,    \* [Keys -> BOOLEAN]: the queue's Notify holds a permit
    drain,      \* [Requests -> pc of the drain task that request spawned]
    batch,      \* [Requests -> SUBSET Requests]: futures the task is polling
    status,     \* [Requests -> progress of the request]
    conn,       \* [Conns -> state of the connection and of its cleanup task]
    arrival,    \* history: arrival number of each request within its key
    arrivals    \* history: number of requests that arrived for each key

queueVars == <<queue, present, changed>>
history == <<arrival, arrivals>>
vars == <<req, queueVars, drain, batch, status, conn, history>>

IsRead(r) == req[r].access = "SharedRead"
\* Gates that let a request run: an open connection's, or no gate at all.
OpenGates == {NoGate} \cup {c \in Conns : conn[c] = "open"}
\* Holders of a TaskTracker token of the connection's gate.
Inflight(c) == {r \in Requests : req[r].gate = c /\ status[r] = "running"}
Finished(r) == status[r] \in {"done", "skipped"}

Init ==
    /\ req \in [Requests -> RequestKinds]
    /\ queue = [k \in Keys |-> <<>>]
    /\ present = [k \in Keys |-> FALSE]
    /\ changed = [k \in Keys |-> FALSE]
    /\ drain = [r \in Requests |-> "none"]
    /\ batch = [r \in Requests |-> {}]
    /\ status = [r \in Requests |-> "new"]
    /\ conn = [c \in Conns |-> "open"]
    /\ arrival = [r \in Requests |-> 0]
    /\ arrivals = [k \in Keys |-> 0]

\* The processor loop takes a connection's requests only until it has handled
\* that connection's close; the app's own work has no connection.
CanArrive(r) ==
    /\ status[r] = "new"
    /\ req[r].gate \in OpenGates

\* Bug: the request is queued without waking the drain task's select!.
Enqueue_NoNotify(r) ==
    LET k == req[r].key IN
    /\ CanArrive(r)
    /\ k # NoKey
    /\ status' = [status EXCEPT ![r] = "queued"]
    /\ queue' = [queue EXCEPT ![k] = Append(@, r)]
    /\ present' = [present EXCEPT ![k] = TRUE]
    /\ drain' = IF present[k] THEN drain ELSE [drain EXCEPT ![r] = "pop"]
    /\ arrivals' = [arrivals EXCEPT ![k] = @ + 1]
    /\ arrival' = [arrival EXCEPT ![r] = arrivals[k] + 1]
    /\ UNCHANGED <<req, changed, batch, conn>>

\* enqueue: append and notify, or create the queue and spawn its drain task.
Enqueue(r) ==
    LET k == req[r].key IN
    /\ CanArrive(r)
    /\ k # NoKey
    /\ status' = [status EXCEPT ![r] = "queued"]
    /\ queue' = [queue EXCEPT ![k] = Append(@, r)]
    /\ present' = [present EXCEPT ![k] = TRUE]
    /\ changed' = [changed EXCEPT ![k] = present[k]]
    /\ drain' = IF present[k] THEN drain ELSE [drain EXCEPT ![r] = "pop"]
    /\ arrivals' = [arrivals EXCEPT ![k] = @ + 1]
    /\ arrival' = [arrival EXCEPT ![r] = arrivals[k] + 1]
    /\ UNCHANGED <<req, batch, conn>>

\* tokio::spawn(request.run()) for a request with no serialization scope.
SpawnUnserialized(r) ==
    /\ CanArrive(r)
    /\ req[r].key = NoKey
    /\ status' = [status EXCEPT ![r] = "held"]
    /\ UNCHANGED <<req, queueVars, drain, batch, conn, history>>

\* n requests leave the front of the queue and drain task d polls them.
TakeFront(d, n) ==
    LET k == req[d].key
        taken == {queue[k][i] : i \in 1..n}
    IN  /\ queue' = [queue EXCEPT ![k] = SubSeq(@, n + 1, Len(@))]
        /\ batch' = [batch EXCEPT ![d] = @ \cup taken]
        /\ status' = [r \in Requests |->
                        IF r \in taken THEN "held" ELSE status[r]]

\* Bug: everything queued is admitted, exclusive requests too.
IsReadRun_TakesAll(q, n) == n = Len(q) /\ (n > 0 => IsRead(q[1]))

\* n is the length of the run of shared reads at the front of queue q.
IsReadRun(q, n) ==
    /\ \A i \in 1..n : IsRead(q[i])
    /\ n < Len(q) => ~IsRead(q[n + 1])

\* drain, top of the loop: an exclusive request is taken alone.
PopExclusive(d) ==
    LET q == queue[req[d].key] IN
    /\ drain[d] = "pop"
    /\ q # <<>>
    /\ ~IsRead(q[1])
    /\ TakeFront(d, 1)
    /\ drain' = [drain EXCEPT ![d] = "exclusive"]
    /\ UNCHANGED <<req, present, changed, conn, history>>

\* drain, top of the loop: a read takes the reads queued right behind it.
PopReads(d) ==
    LET q == queue[req[d].key] IN
    /\ drain[d] = "pop"
    /\ \E n \in 1..Len(q) : IsReadRun(q, n) /\ TakeFront(d, n)
    /\ drain' = [drain EXCEPT ![d] = "reads"]
    /\ UNCHANGED <<req, present, changed, conn, history>>

\* Bug: the task ends and leaves the empty queue in the map.
PopNone_KeepsKey(d) ==
    /\ drain[d] = "pop"
    /\ queue[req[d].key] = <<>>
    /\ drain' = [drain EXCEPT ![d] = "ended"]
    /\ UNCHANGED <<req, queueVars, batch, status, conn, history>>

\* Bug: the queue was found empty in an earlier critical section and is removed
\* in a later one without looking again.
PopNone_Unchecked(d) ==
    LET k == req[d].key IN
    /\ drain[d] = "pop"
    /\ present' = [present EXCEPT ![k] = FALSE]
    /\ drain' = [drain EXCEPT ![d] = "ended"]
    /\ UNCHANGED <<req, queue, changed, batch, status, conn, history>>

\* drain, top of the loop: nothing left, so the queue leaves the map and the
\* task ends, in one critical section.
PopNone(d) ==
    LET k == req[d].key IN
    /\ drain[d] = "pop"
    /\ queue[k] = <<>>
    /\ present' = [present EXCEPT ![k] = FALSE]
    /\ drain' = [drain EXCEPT ![d] = "ended"]
    /\ UNCHANGED <<req, queue, changed, batch, status, conn, history>>

\* drain, select!: the Notify permit wins over the running reads.
Notified(d) ==
    LET k == req[d].key IN
    /\ drain[d] = "reads"
    /\ changed[k]
    /\ changed' = [changed EXCEPT ![k] = FALSE]
    /\ drain' = [drain EXCEPT ![d] = "admit"]
    /\ UNCHANGED <<req, queue, present, batch, status, conn, history>>

\* drain, after the notification: reads now at the front join the running ones.
AdmitReads(d) ==
    LET q == queue[req[d].key] IN
    /\ drain[d] = "admit"
    /\ \E n \in 0..Len(q) : IsReadRun(q, n) /\ TakeFront(d, n)
    /\ drain' = [drain EXCEPT ![d] = "reads"]
    /\ UNCHANGED <<req, present, changed, conn, history>>

\* A request's future is polled by its own task, or by the drain task holding
\* it unless that task is waiting for the queue lock.
Polled(r) ==
    \/ req[r].key = NoKey
    \/ \E d \in Requests : r \in batch[d] /\ drain[d] \in {"exclusive", "reads"}

\* The request's future completes: it leaves the batch that polled it, and a
\* drain task whose batch is empty goes back to the top of its loop.
LeaveBatch(r) ==
    /\ batch' = [d \in Requests |-> batch[d] \ {r}]
    /\ drain' = [d \in Requests |->
                    IF batch[d] = {r} THEN "pop" ELSE drain[d]]

\* Bug: the handler starts without looking at the gate.
GateEnter_Ungated(r) ==
    /\ status[r] = "held"
    /\ Polled(r)
    /\ status' = [status EXCEPT ![r] = "running"]
    /\ UNCHANGED <<req, queueVars, drain, batch, conn, history>>

\* ConnectionRpcGate::run with an open gate, or a background request.
GateEnter(r) ==
    /\ status[r] = "held"
    /\ Polled(r)
    /\ req[r].gate \in OpenGates
    /\ status' = [status EXCEPT ![r] = "running"]
    /\ UNCHANGED <<req, queueVars, drain, batch, conn, history>>

\* ConnectionRpcGate::run with a closed gate: the request is skipped.
GateSkip(r) ==
    /\ status[r] = "held"
    /\ Polled(r)
    /\ req[r].gate \notin OpenGates
    /\ status' = [status EXCEPT ![r] = "skipped"]
    /\ LeaveBatch(r)
    /\ UNCHANGED <<req, queueVars, conn, history>>

\* The handler returns and its token is dropped.
HandlerDone(r) ==
    /\ status[r] = "running"
    /\ Polled(r)
    /\ status' = [status EXCEPT ![r] = "done"]
    /\ LeaveBatch(r)
    /\ UNCHANGED <<req, queueVars, conn, history>>

\* TransportEvent::ConnectionClosed: close the gate, spawn the cleanup task.
ConnectionClosed(c) ==
    /\ conn[c] = "open"
    /\ conn' = [conn EXCEPT ![c] = "draining"]
    /\ UNCHANGED <<req, queueVars, drain, batch, status, history>>

\* MessageProcessor::connection_closed: rpc_gate.shutdown() returned.
Drained(c) ==
    /\ conn[c] = "draining"
    /\ Inflight(c) = {}
    /\ conn' = [conn EXCEPT ![c] = "drained"]
    /\ UNCHANGED <<req, queueVars, drain, batch, status, history>>

\* MessageProcessor::connection_closed: CONNECTION_RPC_DRAIN_TIMEOUT passed.
DrainTimeout(c) ==
    /\ conn[c] = "draining"
    /\ Inflight(c) # {}
    /\ conn' = [conn EXCEPT ![c] = "timed_out"]
    /\ UNCHANGED <<req, queueVars, drain, batch, status, history>>

DrainStep(d) == PopExclusive(d) \/ PopReads(d) \/ PopNone(d) \/ AdmitReads(d)
Cleanup(c) == Drained(c) \/ DrainTimeout(c)

Next ==
    \/ \E r \in Requests :
        \/ Enqueue(r) \/ SpawnUnserialized(r)
        \/ PopExclusive(r) \/ PopReads(r) \/ PopNone(r)
        \/ Notified(r) \/ AdmitReads(r)
        \/ GateEnter(r) \/ GateSkip(r) \/ HandlerDone(r)
    \/ \E c \in Conns : ConnectionClosed(c) \/ Drained(c) \/ DrainTimeout(c)

\* The runtime polls every runnable task.
TaskFairness ==
    /\ \A r \in Requests :
        /\ WF_vars(DrainStep(r))
        /\ WF_vars(Notified(r))
        /\ WF_vars(GateEnter(r) \/ GateSkip(r))
    /\ \A c \in Conns : WF_vars(Cleanup(c))

Spec == Init /\ [][Next]_vars

\* Nothing is promised of the handlers: one that never returns holds its key.
FairSpec == Spec /\ TaskFairness
-------------------------------------------------------------------------------
\* Types, and what the map's entries make sure of in the code: a queue that is
\* not in the map holds no requests (drain removes it only when it is empty).
TypeOK ==
    /\ req \in [Requests -> RequestKinds]
    /\ queue \in [Keys -> Seq(Requests)]
    /\ present \in [Keys -> BOOLEAN]
    /\ changed \in [Keys -> BOOLEAN]
    /\ drain \in [Requests -> {"none", "pop", "exclusive", "reads", "admit",
                               "ended"}]
    /\ batch \in [Requests -> SUBSET Requests]
    /\ status \in [Requests -> {"new", "queued", "held", "running", "done",
                                "skipped"}]
    /\ conn \in [Conns -> {"open", "draining", "drained", "timed_out"}]
    /\ arrival \in [Requests -> Nat]
    /\ arrivals \in [Keys -> Nat]
    /\ \A k \in Keys : ~present[k] => queue[k] = <<>>

\* Requests of one key conflict unless both are shared reads.
Conflict(a, b) ==
    /\ a # b
    /\ req[a].key # NoKey
    /\ req[a].key = req[b].key
    /\ ~(IsRead(a) /\ IsRead(b))

Started(r) == status[r] \notin {"new", "queued"}

\* A request leaves the queue only when every conflicting request that arrived
\* before it has finished: exclusive requests of a key never overlap anything,
\* and no read overtakes an exclusive request queued before it (drain).
NoOvertaking ==
    \A e, l \in Requests :
        (Conflict(e, l) /\ status[e] # "new" /\ arrival[e] < arrival[l]
            /\ Started(l)) => Finished(e)

LiveDrains(k) == {d \in Requests : req[d].key = k
                                     /\ drain[d] \notin {"none", "ended"}}

\* A key with unfinished work has exactly one drain task: a request enqueued
\* while the task is about to end is neither stranded in a queue nobody drains
\* nor drained by two tasks at once (enqueue and drain).
OneDrainTask ==
    \A k \in Keys :
        /\ \A d, e \in LiveDrains(k) : d = e
        /\ (\E r \in Requests : req[r].key = k
                /\ status[r] \in {"queued", "held", "running"})
              => LiveDrains(k) # {}

\* Once a connection's handlers are reported drained, none of them runs again,
\* so the per-connection state its cleanup removes is not recreated
\* (ConnectionRpcGate::shutdown, MessageProcessor::connection_closed).
DrainedMeansIdle == \A c \in Conns : conn[c] = "drained" => Inflight(c) = {}

\* Every unfinished request of r's key up to r is a read.
OnlyReadsAhead(r) ==
    \A e \in Requests :
        (req[e].key = req[r].key /\ status[e] # "new"
            /\ arrival[e] <= arrival[r] /\ ~Finished(e)) => IsRead(e)

\* A read that arrives while only reads of its key are unfinished starts (or is
\* skipped) even if those reads never return: the Notify wake-up is never lost
\* (drain's select!).
ReadsJoin ==
    \A r \in Requests :
        (status[r] = "queued" /\ OnlyReadsAhead(r)) ~> Started(r)

\* The queues implement the abstract promise: a request is waiting until its
\* handler starts, and a skipped request is finished without starting.
phaseBar == [r \in Requests |->
    CASE status[r] = "new" -> "new"
      [] status[r] \in {"queued", "held"} -> "waiting"
      [] status[r] = "running" -> "started"
      [] OTHER -> "finished"]

Promise == INSTANCE SerializedRequests WITH phase <- phaseBar

\* Every request that arrived is handled or dropped, in an order the abstract
\* specification allows, and as long as handlers return none waits for ever
\* (enqueue, drain and ConnectionRpcGate::run).
ImplementsPromise == Promise!Spec
===============================================================================
