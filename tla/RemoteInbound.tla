---------------------------- MODULE RemoteInbound ----------------------------
(***************************************************************************)
(* The client-to-server half of the remote control transport.  The backend *)
(* forwards the envelopes of the remote clients over one websocket; the    *)
(* connection's reader task (websocket.rs) reassembles chunked messages    *)
(* (segment.rs) and hands every envelope to the ClientTracker              *)
(* (client_tracker.rs), which gives each (client, stream) a connection of  *)
(* its own in the app-server: ConnectionOpened, IncomingMessage and        *)
(* ConnectionClosed events on a bounded channel.  Sends to that channel    *)
(* time out, the websocket breaks, and a reader that does not stop in time *)
(* is aborted wherever it awaits; tracker and WebsocketState survive, and  *)
(* the next connection subscribes behind the last cursor that was recorded.*)
(*                                                                         *)
(* The backend is external: it holds a log of envelopes, a cursor is a     *)
(* position in it.  All keys are streams of one client.  Legacy clients    *)
(* without a stream id and malformed chunks are left out.                  *)
(***************************************************************************)
EXTENDS Naturals, Sequences, FiniteSets, SequencesExt

CONSTANTS
    Keys,           \* (client_id, stream_id) of one client
    Logs,           \* the logs the backend may hold
    EventCapacity,  \* capacity of the transport event channel
    MaxFaults,      \* bound: websocket failures, sends that time out, connections
                    \* the app-server drops and idle sweeps, together
    None

Kinds == {"initialize", "message", "chunk", "ping", "closed"}

\* A ClientEnvelope; seg and count matter for a chunk only.
Envelope == [key : Keys, kind : Kinds, seq : Nat \ {0}, seg : Nat, count : Nat \ {0}]

\* A TransportEvent of one connection.
Event == [type : {"opened", "message", "closed"}, seq : Nat]

ASSUME RemoteInboundAssumption ==
    /\ IsFiniteSet(Keys) /\ None \notin Keys
    /\ Logs \subseteq Seq(Envelope)
    /\ EventCapacity \in Nat \ {0}
    /\ MaxFaults \in Nat

VARIABLES
    log,        \* the backend's log
    pos,        \* how much of it this connection's reader has read
    cursor,     \* subscribe_cursor
    at,         \* where the reader task is
    env,        \* the envelope it handles
    conn,       \* the connection whose event it waits to send
    todo,       \* clients it has still to close
    gone,       \* closed clients whose chunk state it has still to forget
    stopping,   \* the connection's shutdown token
    clients,    \* ClientTracker.clients: the connection id, 0 if there is none
    lastSeq,    \* last_inbound_seq_id of the client, 0 if there is none
    keyOf,      \* per connection id, the client it was opened for
    cancelled,  \* connections whose disconnect token is cancelled
    tasks,      \* connections whose run_client_outbound task runs
    finished,   \* connections whose task ended and waits in the join set
    closers,    \* detached tasks that send ConnectionClosed
    backlog,    \* events in the channel to the app-server
    feed,       \* history: per connection, the events sent to the app-server
    assembly,   \* client_segment_reassembler
    chunkDone,  \* last_completed_client_chunk_seq_id_by_stream, 0 if there is none
    halted,     \* the tracker was shut down
    faults      \* how many of them happened

reader == <<pos, at, env, conn, todo, gone, stopping>>
tracker == <<clients, lastSeq, keyOf, cancelled, tasks, finished>>
channel == <<closers, backlog, feed>>
chunks == <<assembly, chunkDone>>
vars == <<log, cursor, reader, tracker, channel, chunks, halted, faults>>

Conns == DOMAIN keyOf
NoAssembly == [key |-> None, seq |-> 0, count |-> 0, next |-> 0]

TypeOK ==
    /\ log \in Logs
    /\ pos \in 0..Len(log) /\ cursor \in 0..Len(log)
    /\ at \in {"down", "select", "close", "open", "send", "record"}
    /\ env \in Envelope \union {None}
    /\ conn \in 0..Len(keyOf)
    /\ todo \subseteq Keys /\ gone \subseteq Keys
    /\ stopping \in BOOLEAN /\ halted \in BOOLEAN
    /\ clients \in [Keys -> 0..Len(keyOf)] /\ lastSeq \in [Keys -> Nat]
    /\ keyOf \in Seq(Keys)
    /\ \A set \in {cancelled, tasks, finished, closers} : set \subseteq Conns
    /\ backlog \in 0..EventCapacity
    /\ DOMAIN feed = Conns
    /\ \A c \in Conns : feed[c] \in Seq(Event)
    /\ assembly \in [key : Keys \union {None}, seq : Nat, count : Nat, next : Nat]
    /\ chunkDone \in [Keys -> Nat]
    /\ faults \in 0..MaxFaults

Init ==
    /\ log \in Logs
    /\ pos = 0 /\ cursor = 0
    /\ at = "down" /\ env = None /\ conn = 0 /\ todo = {} /\ gone = {}
    /\ stopping = FALSE
    /\ clients = [k \in Keys |-> 0] /\ lastSeq = [k \in Keys |-> 0]
    /\ keyOf = <<>> /\ cancelled = {} /\ tasks = {} /\ finished = {}
    /\ closers = {} /\ backlog = 0 /\ feed = <<>>
    /\ assembly = NoAssembly /\ chunkDone = [k \in Keys |-> 0]
    /\ halted = FALSE
    /\ faults = 0

-----------------------------------------------------------------------------
(* The parts handlers are made of *)

Fault == faults < MaxFaults /\ faults' = faults + 1

\* transport_event_tx.send succeeds: the event is in the channel.
HasRoom_Inclusive == backlog <= EventCapacity
HasRoom == backlog < EventCapacity
Put(c, type, seq) ==
    /\ HasRoom
    /\ backlog' = backlog + 1
    /\ feed' = [feed EXCEPT ![c] = Append(@, [type |-> type, seq |-> seq])]

\* The reader task ends.
Leave == /\ at' = "down" /\ env' = None /\ conn' = 0 /\ todo' = {} /\ gone' = {}
         /\ UNCHANGED <<pos, stopping>>

GoTo(place) == at' = place /\ UNCHANGED <<pos, env, conn, todo, gone, stopping>>

\* remove_client, then cancel its disconnect token.
RemoveClient(k) ==
    /\ clients' = [clients EXCEPT ![k] = 0]
    /\ lastSeq' = [lastSeq EXCEPT ![k] = 0]
    /\ cancelled' = cancelled \union {clients[k]}

\* close_client of a client that exists: ConnectionClosed is sent by a
\* detached task, for which the reader then waits.
CloseClient(k) ==
    /\ RemoveClient(k)
    /\ closers' = closers \union {clients[k]}
    /\ conn' = clients[k]
    /\ at' = "close"

\* invalidate_stream and invalidate_client_message_stream of closed clients.
Forget(keys) ==
    /\ assembly' = IF assembly.key \in keys THEN NoAssembly ELSE assembly
    /\ chunkDone' = [k \in Keys |-> IF k \in keys THEN 0 ELSE chunkDone[k]]

\* handle_message of a new connection: its id is drawn before the first send.
StartOpen(k) ==
    /\ keyOf' = Append(keyOf, k)
    /\ conn' = Len(keyOf) + 1
    /\ at' = "open"

-----------------------------------------------------------------------------
(* ClientTracker::handle_message, up to its first await *)

IsInitialize(e) == e.kind = "initialize"

IsDuplicate_Strict(e) ==
    /\ e.kind \in {"message", "chunk"}
    /\ clients[e.key] # 0
    /\ lastSeq[e.key] > e.seq
IsDuplicate(e) ==
    /\ e.kind \in {"message", "chunk"}
    /\ clients[e.key] # 0
    /\ lastSeq[e.key] >= e.seq

HandleMessage(e) ==
    LET k == e.key
        known == clients[k] # 0
    IN  \* a first initialize opens a connection
        \/ /\ IsInitialize(e) /\ ~known
           /\ StartOpen(k)
           /\ feed' = Append(feed, <<>>)
           /\ UNCHANGED <<clients, lastSeq, cancelled, closers>>
        \* another one first closes the connection there is
        \/ /\ (IsInitialize(e) \/ e.kind = "closed") /\ known
           /\ CloseClient(k)
           /\ UNCHANGED <<keyOf, feed>>
        \/ /\ e.kind \in {"message", "chunk"} /\ known /\ ~IsDuplicate(e)
           /\ at' = "send" /\ conn' = clients[k]
           /\ UNCHANGED <<clients, lastSeq, cancelled, keyOf, closers, feed>>
        \* duplicates, messages of unknown clients, pings
        \/ /\ \/ e.kind = "ping" \/ IsDuplicate(e)
              \/ ~IsInitialize(e) /\ ~known
           /\ at' = "record" /\ conn' = 0
           /\ UNCHANGED <<clients, lastSeq, cancelled, keyOf, closers, feed>>

-----------------------------------------------------------------------------
(* The reader's loop *)

\* run_connection, after connect subscribed behind the recorded cursor.
Connect_SameToken ==
    /\ at = "down" /\ ~halted
    /\ at' = "select" /\ pos' = cursor
    /\ UNCHANGED <<log, cursor, env, conn, todo, gone, stopping, tracker, channel, chunks, halted,
                   faults>>
Connect ==
    /\ at = "down" /\ ~halted
    /\ at' = "select" /\ pos' = cursor /\ stopping' = FALSE
    /\ UNCHANGED <<log, cursor, env, conn, todo, gone, tracker, channel, chunks, halted, faults>>

\* should_ignore_chunk, and the check against the last completed chunk.
IgnoreChunk(e) ==
    \/ chunkDone[e.key] >= e.seq
    \/ /\ assembly.key = e.key
       /\ \/ e.seq < assembly.seq
          \/ e.seq = assembly.seq /\ e.seg < assembly.next

\* The assembly a chunk belongs to; a chunk of another stream resets it.
AssemblyFor(e) ==
    IF assembly.key = e.key THEN assembly
    ELSE [key |-> e.key, seq |-> e.seq, count |-> e.count, next |-> 0]

InOrder(e) ==
    LET a == AssemblyFor(e) IN a.seq = e.seq /\ a.count = e.count /\ a.next = e.seg

\* ClientSegmentReassembler::observe: the chunk that completes the message.
Completes(e) == ~IgnoreChunk(e) /\ InOrder(e) /\ e.seg + 1 = e.count

\* The next envelope; a chunk that completes nothing is dropped or kept, and
\* the cursor stays where it is.
Read ==
    /\ at = "select" /\ pos < Len(log)
    /\ pos' = pos + 1
    /\ LET e == log[pos + 1]
       IN  \/ /\ e.kind = "chunk" => Completes(e)
              /\ HandleMessage(e)
              /\ env' = e
              /\ assembly' = IF e.kind = "chunk" THEN NoAssembly ELSE assembly
           \/ /\ e.kind = "chunk" /\ ~Completes(e)
              /\ assembly' = IF IgnoreChunk(e) THEN assembly
                             ELSE IF InOrder(e)
                                  THEN [AssemblyFor(e) EXCEPT !.next = @ + 1]
                                  ELSE NoAssembly
              /\ UNCHANGED <<at, env, conn, clients, lastSeq, cancelled, keyOf, closers, feed>>
    /\ UNCHANGED <<log, cursor, todo, gone, stopping, tasks, finished, backlog,
                   chunkDone, halted, faults>>

\* ConnectionOpened is sent: the outbound task starts, the client is inserted
\* and the initialize message is sent next.
OpenSent ==
    /\ at = "open"
    /\ Put(conn, "opened", 0)
    /\ tasks' = tasks \union {conn}
    /\ clients' = [clients EXCEPT ![env.key] = conn]
    /\ GoTo("send")
    /\ UNCHANGED <<log, cursor, lastSeq, keyOf, cancelled, finished, closers, chunks, halted, faults>>

\* IncomingMessage is sent, record_inbound_message_delivery follows.
MessageSent ==
    /\ at = "send"
    /\ Put(conn, "message", env.seq)
    /\ lastSeq' = [lastSeq EXCEPT ![env.key] = env.seq]
    /\ GoTo("record")
    /\ UNCHANGED <<log, cursor, clients, keyOf, cancelled, tasks, finished, closers,
                   chunks, halted, faults>>

\* The channel stayed full for REMOTE_CONTROL_TRANSPORT_EVENT_SEND_TIMEOUT:
\* the reader gives up.  A client whose initialize did not get through is
\* removed, its ConnectionClosed left to a detached task.
SendTimesOut_KeepsClient ==
    /\ at \in {"open", "send"} /\ ~HasRoom
    /\ Fault
    /\ IF at = "send" /\ IsInitialize(env)
       THEN /\ closers' = closers \union {conn}
            /\ UNCHANGED <<clients, lastSeq, cancelled>>
       ELSE UNCHANGED <<clients, lastSeq, cancelled, closers>>
    /\ Leave
    /\ UNCHANGED <<log, cursor, keyOf, tasks, finished, backlog, feed, chunks, halted>>
SendTimesOut_Silent ==
    /\ at \in {"open", "send"} /\ ~HasRoom
    /\ Fault
    /\ IF at = "send" /\ IsInitialize(env)
       THEN RemoveClient(env.key) /\ UNCHANGED closers
       ELSE UNCHANGED <<clients, lastSeq, cancelled, closers>>
    /\ Leave
    /\ UNCHANGED <<log, cursor, keyOf, tasks, finished, backlog, feed, chunks, halted>>
SendTimesOut ==
    /\ at \in {"open", "send"} /\ ~HasRoom
    /\ Fault
    /\ IF at = "send" /\ IsInitialize(env)
       THEN /\ RemoveClient(env.key)
            /\ closers' = closers \union {conn}
       ELSE UNCHANGED <<clients, lastSeq, cancelled, closers>>
    /\ Leave
    /\ UNCHANGED <<log, cursor, keyOf, tasks, finished, backlog, feed, chunks, halted>>

\* ConnectionClosed is sent: go on with what the close was part of.
CloseSent ==
    /\ at = "close" /\ conn \notin closers
    /\ \/ \E k \in todo :
            /\ CloseClient(k) /\ todo' = todo \ {k}
            /\ UNCHANGED <<keyOf, feed, chunks, env, gone>>
       \/ /\ todo = {} /\ gone # {}
          /\ Forget(gone) /\ gone' = {}
          /\ at' = "select" /\ conn' = 0
          /\ UNCHANGED <<todo, env, clients, lastSeq, cancelled, closers, keyOf, feed>>
       \/ /\ todo = {} /\ gone = {} /\ IsInitialize(env)
          /\ StartOpen(env.key)
          /\ feed' = Append(feed, <<>>)
          /\ UNCHANGED <<todo, gone, env, clients, lastSeq, cancelled, closers, chunks>>
       \/ /\ todo = {} /\ gone = {} /\ env.kind = "closed"
          /\ at' = "record" /\ conn' = 0
          /\ UNCHANGED <<todo, gone, env, clients, lastSeq, cancelled, closers, keyOf, feed, chunks>>
    /\ UNCHANGED <<log, cursor, pos, stopping, tasks, finished, backlog, halted, faults>>

\* record_client_message_delivery; a closed stream forgets its chunk state.
Record ==
    /\ at = "record"
    /\ cursor' = pos
    /\ IF env.kind = "closed" THEN Forget({env.key})
       ELSE /\ chunkDone' = IF env.kind = "chunk"
                            THEN [chunkDone EXCEPT ![env.key] = env.seq] ELSE chunkDone
            /\ UNCHANGED assembly
    /\ at' = "select" /\ env' = None /\ conn' = 0
    /\ UNCHANGED <<log, pos, todo, gone, stopping, tracker, channel, halted, faults>>

\* bookkeep_join_set reports the key of a task that ended, and the reader
\* closes the client of that key.
Bookkeep_KeepsClient(c) ==
    /\ at = "select" /\ c \in finished
    /\ finished' = finished \ {c}
    /\ Forget({keyOf[c]})
    /\ UNCHANGED <<log, cursor, reader, clients, lastSeq, cancelled, keyOf, tasks, channel, halted,
                   faults>>
Bookkeep(c) ==
    /\ at = "select" /\ c \in finished
    /\ finished' = finished \ {c}
    /\ \/ /\ clients[keyOf[c]] # 0
          /\ CloseClient(keyOf[c])
          /\ gone' = {keyOf[c]}
          /\ UNCHANGED chunks
       \/ /\ clients[keyOf[c]] = 0
          /\ Forget({keyOf[c]})
          /\ UNCHANGED <<clients, lastSeq, cancelled, closers, conn, at, gone>>
    /\ UNCHANGED <<log, cursor, pos, env, todo, stopping, keyOf, tasks, backlog, feed, halted, faults>>

\* close_expired_clients closes the clients that were idle for too long.
Sweep(keys) ==
    /\ at = "select" /\ keys # {}
    /\ \A k \in keys : clients[k] # 0
    /\ Fault
    /\ \E k \in keys : CloseClient(k) /\ todo' = keys \ {k}
    /\ gone' = keys
    /\ UNCHANGED <<log, cursor, pos, env, stopping, keyOf, tasks, finished, backlog, feed,
                   chunks, halted>>

\* The websocket fails, a deadline passes or remote control is disabled.
Break ==
    /\ at # "down" /\ ~stopping
    /\ Fault
    /\ stopping' = TRUE
    /\ UNCHANGED <<log, cursor, pos, at, env, conn, todo, gone, tracker, channel, chunks, halted>>

\* The reader stops by itself at its select.  Elsewhere it goes on, and
\* join_connection_workers aborts it where it awaits when that takes too long.
Stop ==
    /\ stopping /\ at # "down"
    /\ Leave
    /\ UNCHANGED <<log, cursor, tracker, channel, chunks, halted, faults>>

\* ClientTracker::shutdown at the end of the run loop.
Shutdown ==
    /\ at = "down" /\ ~halted
    /\ halted' = TRUE
    /\ LET open == Range(clients) \ {0}
       IN  cancelled' = cancelled \union open /\ closers' = closers \union open
    /\ clients' = [k \in Keys |-> 0] /\ lastSeq' = [k \in Keys |-> 0]
    /\ finished' = {}
    /\ UNCHANGED <<log, cursor, reader, keyOf, tasks, backlog, feed, chunks, faults>>

-----------------------------------------------------------------------------
(* The other tasks *)

\* run_client_outbound returns: the tracker's JoinSet holds its result.
ReturnFromTask(c) ==
    /\ tasks' = tasks \ {c}
    /\ finished' = IF halted THEN finished ELSE finished \union {c}
    /\ UNCHANGED <<log, cursor, reader, clients, lastSeq, keyOf, cancelled, channel, chunks,
                   halted>>

\* run_client_outbound ends when its token is cancelled.
TaskEnds(c) ==
    /\ c \in tasks \intersect cancelled
    /\ ReturnFromTask(c)
    /\ UNCHANGED faults

\* run_client_outbound also ends, its token not cancelled, when nobody holds the
\* writer any more (the app-server dropped it, or its ConnectionOpened was never
\* delivered) or the queue it sends to is gone.
WriterGone(c) ==
    /\ c \in tasks \ cancelled
    /\ Fault
    /\ ReturnFromTask(c)

\* The detached task of send_connection_closed gets its event through.
CloserSends(c) ==
    /\ c \in closers
    /\ Put(c, "closed", 0)
    /\ closers' = closers \ {c}
    /\ UNCHANGED <<log, cursor, reader, tracker, chunks, halted, faults>>

\* The app-server takes an event (transport_event_rx.recv()).
AppTakes ==
    /\ backlog > 0
    /\ backlog' = backlog - 1
    /\ UNCHANGED <<log, cursor, reader, tracker, closers, feed, chunks, halted, faults>>

\* The app-server drops a connection whose outbound queue is full or closed:
\* disconnect_connection, disconnect_sender.cancel().
AppDisconnects(c) ==
    /\ c \in tasks \ cancelled
    /\ Fault
    /\ cancelled' = cancelled \union {c}
    /\ UNCHANGED <<log, cursor, reader, clients, lastSeq, keyOf, tasks, finished, channel,
                   chunks, halted>>

-----------------------------------------------------------------------------

Next ==
    \/ Connect \/ Read \/ OpenSent \/ MessageSent \/ SendTimesOut \/ CloseSent \/ Record
    \/ \E c \in finished : Bookkeep(c)
    \/ \E keys \in SUBSET Keys : Sweep(keys)
    \/ Break \/ Stop \/ Shutdown
    \/ \E c \in tasks : TaskEnds(c) \/ WriterGone(c) \/ AppDisconnects(c)
    \/ \E c \in closers : CloserSends(c)
    \/ AppTakes

Spec == Init /\ [][Next]_vars

\* tokio polls every ready task and wakes the senders of a channel as room
\* appears; the run loop reconnects until it is shut down; the app-server
\* takes the events of its channel.
Fairness ==
    /\ WF_vars(Connect) /\ WF_vars(Read) /\ WF_vars(OpenSent) /\ WF_vars(MessageSent)
    /\ WF_vars(CloseSent) /\ WF_vars(Record) /\ WF_vars(Stop)
    /\ WF_vars(\E c \in finished : Bookkeep(c))
    /\ WF_vars(\E c \in tasks : TaskEnds(c))
    /\ WF_vars(\E c \in closers : CloserSends(c))
    /\ WF_vars(AppTakes)

FairSpec == Spec /\ Fairness

-----------------------------------------------------------------------------
(* Properties *)

Opened(c) == feed[c] # <<>>
Closed(c) == Opened(c) /\ Last(feed[c]).type = "closed"

\* The app-server sees a connection opened before anything else and nothing of
\* it after it is closed, although the close is sent by a detached task and
\* the reader may be aborted between the two.
EventsInOrder ==
    \A c \in Conns : \A i \in DOMAIN feed[c] :
        /\ feed[c][i].type = "opened" <=> i = 1
        /\ feed[c][i].type = "closed" => i = Len(feed[c])

\* A ClientMessage or a chunk of one, numbered by its stream.
Numbered(e) == e.kind \in {"initialize", "message", "chunk"}
IsChunk(e) == e.kind = "chunk"

\* The logs a well-behaved client and backend produce: a stream's numbers do not
\* decrease (a message may be sent twice) and have no gap after an initialize,
\* the chunks of a message arrive together, and a stream is not initialized
\* again directly behind its own chunks.
Steady(l) ==
    \A j \in DOMAIN l : Numbered(l[j]) =>
        /\ \A i \in 1..(j - 1) : Numbered(l[i]) /\ l[i].key = l[j].key =>
             /\ l[i].seq <= l[j].seq
             /\ IsChunk(l[i]) /\ IsInitialize(l[j]) =>
                  \E m \in (i + 1)..(j - 1) : ~IsChunk(l[m])
             /\ IsChunk(l[i]) /\ IsChunk(l[j]) /\ l[i].seq = l[j].seq => l[i].count = l[j].count
        /\ ~IsInitialize(l[j]) =>
             \E i \in 1..(j - 1) :
               Numbered(l[i]) /\ l[i].key = l[j].key /\ l[i].seq + 1 = l[j].seq
        /\ IsChunk(l[j]) =>
             /\ l[j].seg < l[j].count /\ l[j].seg < j
             /\ \A m \in 0..(l[j].count - 1) :
                  /\ j - l[j].seg + m \in DOMAIN l
                  /\ l[j - l[j].seg + m] = [l[j] EXCEPT !.seg = m]

\* Within one connection the app-server gets the initialize that opened it and
\* then the messages of the stream numbered without a gap or a repetition.
NoGap ==
    \A c \in Conns : \A i \in DOMAIN feed[c] :
        feed[c][i].type = "message" =>
            IF i = 2
            THEN \E e \in Range(log) :
                    IsInitialize(e) /\ e.key = keyOf[c] /\ e.seq = feed[c][i].seq
            ELSE feed[c][i].seq = feed[c][i - 1].seq + 1

\* On a steady log every connection gets its initialize and then every message
\* of the stream, in order, each once: timed out sends, aborted readers, replays
\* behind the cursor, retransmissions and chunks neither lose a message nor
\* deliver one twice.
MessagesWithoutGap == Steady(log) => NoGap

\* Wherever the reader is aborted or gives up, a connection the app-server
\* believes open is one the tracker still knows or is about to close, and an
\* outbound task without a client has been told to end.
NoOrphan ==
    \A c \in Conns :
        /\ Opened(c) /\ ~Closed(c) => c \in Range(clients) \union closers
        /\ c \in tasks => c \in Range(clients) \union cancelled

\* A connection that was dropped, by either side, is eventually reported
\* closed to the app-server, also when the websocket is down at that time.
DroppedIsClosed == []<>(\A c \in cancelled : Closed(c))

\* The reader gets to the end of the backend's log: no timeout, replay or
\* half-assembled message makes it start over for ever.
LogIsRead == []<>(halted \/ cursor = Len(log))

\* The end of an outbound task closes the connection the task belonged to and
\* no other (the test cancelled_outbound_task_emits_connection_closed).
ClosesItsOwn ==
    [][\A c \in finished \ finished' : ~halted' => closers' \ closers \subseteq {c}]_vars

=============================================================================
