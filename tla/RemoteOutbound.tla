--------------------------- MODULE RemoteOutbound ---------------------------
(***************************************************************************)
(* The server-to-client half of the remote control transport: what the     *)
(* app-server writes for a remote client reaches the backend over a        *)
(* websocket that may break at any time.  websocket.rs keeps one           *)
(* WebsocketState over all connections: a sequence number per stream and   *)
(* the BoundedOutboundBuffer of envelopes not yet acknowledged.  Every new *)
(* connection starts a writer that first replays the buffer, then takes    *)
(* queued envelopes while the buffer has room, numbers them, splits large  *)
(* ones into segments (segment.rs) and sends them; the connection's reader *)
(* applies the backend's acknowledgements.                                 *)
(*                                                                         *)
(* A payload is abstracted to the number of segments it is split into.     *)
(* The backend is external: it takes envelopes in the order in which one   *)
(* connection carries them and acknowledges what it has, whenever it likes.*)
(***************************************************************************)
EXTENDS Naturals, Sequences, FiniteSets, SequencesExt

CONSTANTS
    Streams,        \* (client_id, stream_id) pairs
    Capacity,       \* CHANNEL_CAPACITY
    MaxSegments,    \* the most segments one message is split into
    MaxMessages,    \* bound: messages the app-server writes per stream
    MaxBreaks,      \* bound: websocket connections that break
    MaxAcks         \* bound: acknowledgements in flight

ASSUME RemoteOutboundAssumption ==
    /\ Streams # {} /\ IsFiniteSet(Streams)
    /\ Capacity \in Nat \ {0} /\ MaxSegments \in Nat \ {0}
    /\ MaxMessages \in [Streams -> Nat] /\ MaxBreaks \in Nat /\ MaxAcks \in Nat \ {0}

VARIABLES
    queue,      \* server_event_rx: the streams of the queued envelopes
    written,    \* how many messages the app-server wrote to each stream
    nextSeq,    \* next_seq_id_by_stream
    buffer,     \* outbound_buffer.buffer_by_stream
    used,       \* the watch channel used_tx / used_rx
    writer,     \* where the connection's writer task is
    batch,      \* envelopes the writer still has to send
    wire,       \* envelopes the websocket carries to the backend
    acks,       \* acknowledgements the websocket carries back
    received,   \* per stream, the envelopes the backend has
    numbered,   \* history: per stream, the envelopes in the order they were made
    breaks      \* websocket connections that broke so far

vars == <<queue, written, nextSeq, buffer, used, writer, batch, wire, acks,
          received, numbered, breaks>>

-----------------------------------------------------------------------------

\* A ServerEnvelope.  An envelope that is not a chunk counts as segment 0,
\* as segment_id().unwrap_or_default() does in BoundedOutboundBuffer::ack;
\* count is the segment_count of a chunk and 1 for a whole message or a pong.
Envelope == [stream : Streams, seq : Nat \ {0}, seg : Nat, count : Nat \ {0}]

\* ClientEvent::Ack.  A missing segment_id stands for usize::MAX.
Whole == MaxSegments
Ack == [stream : Streams, seq : Nat, seg : Nat]

\* Cursors (seq_id, segment_id) are compared as Rust compares tuples.
CursorLeq_BySeq(e, f) == e.seq <= f.seq
CursorLeq(e, f) == e.seq < f.seq \/ (e.seq = f.seq /\ e.seg <= f.seg)

\* split_server_envelope_for_transport into n segments; none when the
\* message is too large to be sent at all.
Split(s, seq, n) ==
    [i \in 1..n |-> [stream |-> s, seq |-> seq, seg |-> i - 1, count |-> n]]

\* The places of the buffer: (stream, index in the stream's queue).
Entries == UNION {{s} \X DOMAIN buffer[s] : s \in Streams}

\* BoundedOutboundBuffer::server_envelopes visits the streams one after the
\* other in the order of a hash map, each stream's envelopes in the order they
\* were inserted.
Visits ==
    {v \in Bijection(1..Cardinality(Entries), Entries) :
        \A i, j \in DOMAIN v :
            i < j /\ v[i][1] = v[j][1] =>
                /\ v[i][2] < v[j][2]
                /\ \A k \in i..j : v[k][1] = v[i][1]}

Replays_None == {<<>>}
Replays == {[i \in DOMAIN v |-> buffer[v[i][1]][v[i][2]]] : v \in Visits}

TypeOK ==
    /\ queue \in Seq(Streams) /\ Len(queue) <= Capacity
    /\ written \in [Streams -> Nat]
    /\ nextSeq \in [Streams -> Nat \ {0}]
    /\ buffer \in [Streams -> Seq(Envelope)]
    /\ used \in Nat
    /\ writer \in {"down", "replay", "idle", "send"}
    /\ batch \in Seq(Envelope) /\ wire \in Seq(Envelope)
    /\ acks \in Seq(Ack) /\ Len(acks) <= MaxAcks
    /\ received \in [Streams -> SUBSET Envelope]
    /\ numbered \in [Streams -> Seq(Envelope)]
    /\ breaks \in 0..MaxBreaks

Init ==
    /\ queue = <<>> /\ written = [s \in Streams |-> 0]
    /\ nextSeq = [s \in Streams |-> 1]
    /\ buffer = [s \in Streams |-> <<>>] /\ used = 0
    /\ writer = "down" /\ batch = <<>> /\ wire = <<>> /\ acks = <<>>
    /\ received = [s \in Streams |-> {}]
    /\ numbered = [s \in Streams |-> <<>>]
    /\ breaks = 0

-----------------------------------------------------------------------------
(* The app-server side *)

\* run_client_outbound forwards a message of the app-server, or a pong, to
\* the shared channel; it waits while the channel is full.
Write_Unbounded(s) ==
    /\ written[s] < MaxMessages[s]
    /\ queue' = Append(queue, s)
    /\ written' = [written EXCEPT ![s] = @ + 1]
    /\ UNCHANGED <<nextSeq, buffer, used, writer, batch, wire, acks, received, numbered, breaks>>
Write(s) ==
    /\ written[s] < MaxMessages[s]
    /\ Len(queue) < Capacity
    /\ queue' = Append(queue, s)
    /\ written' = [written EXCEPT ![s] = @ + 1]
    /\ UNCHANGED <<nextSeq, buffer, used, writer, batch, wire, acks, received, numbered, breaks>>

-----------------------------------------------------------------------------
(* A connection *)

\* run_connection starts a writer, which copies the buffer under the lock.
Connect ==
    /\ writer = "down"
    /\ batch' \in Replays
    /\ writer' = "replay"
    /\ UNCHANGED <<queue, written, nextSeq, buffer, used, wire, acks, received, numbered, breaks>>

\* The websocket fails, the pong deadline passes, remote control is disabled
\* or one of the two workers stops: run_connection cancels both.  What is in
\* flight in either direction is lost; WebsocketState stays.
Break ==
    /\ writer # "down"
    /\ breaks < MaxBreaks
    /\ breaks' = breaks + 1
    /\ writer' = "down" /\ batch' = <<>> /\ wire' = <<>> /\ acks' = <<>>
    /\ UNCHANGED <<queue, written, nextSeq, buffer, used, received, numbered>>

\* The writer puts the next replayed or freshly numbered envelope on the
\* websocket.
Send ==
    /\ writer \in {"replay", "send"}
    /\ batch # <<>>
    /\ wire' = Append(wire, Head(batch))
    /\ batch' = Tail(batch)
    /\ UNCHANGED <<queue, written, nextSeq, buffer, used, writer, acks, received, numbered, breaks>>

\* All are sent: the writer goes on to the select of its loop.
Sent ==
    /\ writer \in {"replay", "send"}
    /\ batch = <<>>
    /\ writer' = "idle"
    /\ UNCHANGED <<queue, written, nextSeq, buffer, used, batch, wire, acks, received, numbered, breaks>>

\* outbound_has_capacity
HasCapacity_Inclusive == used <= Capacity
HasCapacity == used < Capacity

\* BoundedOutboundBuffer::insert of every segment.
Insert(s, envelopes) ==
    /\ buffer' = [buffer EXCEPT ![s] = @ \o envelopes]
    /\ used' = used + Len(envelopes)

\* The writer takes the next queued envelope when the buffer has room,
\* numbers it, splits it in n segments and buffers them under one lock.
Take(n) ==
    /\ writer = "idle"
    /\ HasCapacity
    /\ queue # <<>>
    /\ LET s == Head(queue)
           envelopes == Split(s, nextSeq[s], n)
       IN  /\ nextSeq' = [nextSeq EXCEPT ![s] = @ + 1]
           /\ Insert(s, envelopes)
           /\ numbered' = [numbered EXCEPT ![s] = @ \o envelopes]
           /\ batch' = envelopes
    /\ queue' = Tail(queue)
    /\ writer' = "send"
    /\ UNCHANGED <<written, wire, acks, received, breaks>>

\* A message that cannot be serialized is dropped; the number is not used.
TakeUnserializable ==
    /\ writer = "idle"
    /\ HasCapacity
    /\ queue # <<>>
    /\ queue' = Tail(queue)
    /\ UNCHANGED <<written, nextSeq, buffer, used, writer, batch, wire, acks,
                   received, numbered, breaks>>

\* VecDeque::retain: the elements at the indices in keep, in their order.
Retain(q, keep) ==
    [j \in 1..Cardinality(keep) |->
        q[CHOOSE i \in keep : Cardinality(keep \intersect (1..i)) = j]]

\* BoundedOutboundBuffer::ack keeps the envelopes after the acknowledged one.
AckBuffer_OneMessage(ack) ==
    LET old == buffer[ack.stream]
        keep == {i \in DOMAIN old : old[i].seq # ack.seq}
    IN  /\ buffer' = [buffer EXCEPT ![ack.stream] = Retain(old, keep)]
        /\ used' = used - Cardinality(DOMAIN old \ keep)
AckBuffer(ack) ==
    LET old == buffer[ack.stream]
        keep == {i \in DOMAIN old : ~CursorLeq(old[i], ack)}
    IN  /\ buffer' = [buffer EXCEPT ![ack.stream] = Retain(old, keep)]
        /\ used' = used - Cardinality(DOMAIN old \ keep)

\* The reader handles an Ack: nothing to deliver to the app-server, then
\* record_client_message_delivery.
ReadAck ==
    /\ writer # "down"
    /\ acks # <<>>
    /\ AckBuffer(Head(acks))
    /\ acks' = Tail(acks)
    /\ UNCHANGED <<queue, written, nextSeq, writer, batch, wire, received, numbered, breaks>>

-----------------------------------------------------------------------------
(* The backend *)

Receive ==
    /\ wire # <<>>
    /\ LET e == Head(wire)
       IN  received' = [received EXCEPT ![e.stream] = @ \union {e}]
    /\ wire' = Tail(wire)
    /\ UNCHANGED <<queue, written, nextSeq, buffer, used, writer, batch, acks, numbered, breaks>>

\* "Backend-generated acknowledgement for all server envelopes ... less than
\* or equal to this ack's seq_id.  Chunk acknowledgements carry segment_id":
\* the backend acknowledges any envelope it has, the same one again too; it
\* leaves the segment out when it has the whole message.
AckOf(e) ==
    {[stream |-> e.stream, seq |-> e.seq, seg |-> e.seg] : x \in {e.count} \ {1}}
      \union
    {[stream |-> e.stream, seq |-> e.seq, seg |-> Whole] : x \in {e.seg + 1} \intersect {e.count}}

Acknowledge(e) ==
    /\ writer # "down"
    /\ Len(acks) < MaxAcks
    /\ e \in received[e.stream]
    /\ \E ack \in AckOf(e) : acks' = Append(acks, ack)
    /\ UNCHANGED <<queue, written, nextSeq, buffer, used, writer, batch, wire, received, numbered, breaks>>

-----------------------------------------------------------------------------

Next ==
    \/ \E s \in Streams : Write(s)
    \/ Connect \/ Break \/ Send \/ Sent
    \/ \E n \in 0..MaxSegments : Take(n)
    \/ TakeUnserializable
    \/ ReadAck \/ Receive
    \/ \E e \in UNION {received[s] : s \in Streams} : Acknowledge(e)

Spec == Init /\ [][Next]_vars

-----------------------------------------------------------------------------
(* Fairness: tokio polls every ready task, the run loop reconnects for as  *)
(* long as remote control is enabled, and the backend reads its socket and *)
(* acknowledges the last envelope it has of every stream.                  *)

Latest(s) == {e \in received[s] : \A f \in received[s] : CursorLeq(f, e)}

\* The backend acknowledges the newest envelope that is still buffered here.
AcknowledgeLatest(s) ==
    \E e \in Latest(s) \intersect Range(buffer[s]) : Acknowledge(e)

Fairness ==
    /\ WF_vars(Connect) /\ WF_vars(Send) /\ WF_vars(Sent)
    /\ WF_vars(TakeUnserializable \/ \E n \in 0..MaxSegments : Take(n))
    /\ WF_vars(ReadAck) /\ WF_vars(Receive)
    /\ \A s \in Streams : SF_vars(AcknowledgeLatest(s))

FairSpec == Spec /\ Fairness

-----------------------------------------------------------------------------
(* Properties *)

\* Whatever breaks, an envelope leaves the outbound buffer only once the
\* backend has it: the buffer holds every numbered envelope the backend still
\* lacks, so that the next connection replays it.
NothingLost ==
    \A s \in Streams :
        Range(numbered[s]) \ received[s] \subseteq Range(buffer[s])

\* The usage counter the writer's capacity check reads is the number of
\* buffered envelopes, and the buffer exceeds its limit by no more than the
\* other segments of the one message that was admitted below it: admission is
\* checked before the message is split.
BufferBound ==
    /\ used = Cardinality(Entries)
    /\ used <= Capacity - 1 + MaxSegments

\* What the backend has of a stream, in the order of the cursors.
Delivered(s) ==
    [j \in 1..Cardinality(received[s]) |->
        CHOOSE e \in received[s] : Cardinality({f \in received[s] : CursorLeq(f, e)}) = j]

\* What remote control promises to a remote client.

Streaming == INSTANCE ReliableStreams WITH
    log <- numbered, delivered <- [s \in Streams |-> Delivered(s)]

\* Across broken connections, replays and acknowledgements the backend gets
\* every stream's envelopes in order, without a gap, and, the connection
\* permitting, all of them.
ImplementsReliableStreams == Streaming!Spec

\* A full buffer, replays of what the backend already has and acknowledgements
\* lost with a connection never stop the flow: again and again the channel and
\* the buffer are empty.
Drains == []<>(queue = <<>> /\ used = 0)

=============================================================================
