------------------------ MODULE RemoteOutboundProofs ------------------------
(***************************************************************************)
(* Proofs about RemoteOutbound, for any number of streams, messages,       *)
(* segments and broken connections.  The argument is about order: every    *)
(* list of envelopes the transport keeps (the log, a stream's buffer, the  *)
(* writer's batch, the websocket) is such that what precedes an envelope   *)
(* in its stream is at the backend, or further ahead on the same way.      *)
(***************************************************************************)
EXTENDS RemoteOutbound, FiniteSetTheorems, WellFoundedInduction, TLAPS

-----------------------------------------------------------------------------
(* The inductive invariant *)

\* e has the smaller cursor.
Before(e, f) == e.seq < f.seq \/ (e.seq = f.seq /\ e.seg < f.seg)

Sorted(q) == \A i, j \in DOMAIN q : i < j => Before(q[i], q[j])

\* The numbers a stream gave out, and how a message was split.
LogOK ==
    \A s \in Streams :
        /\ \A e \in Range(numbered[s]) :
              e.stream = s /\ e.seq < nextSeq[s] /\ e.seg < e.count /\ e.count <= MaxSegments
        /\ Sorted(numbered[s])
        /\ \A e, f \in Range(numbered[s]) : e.seq = f.seq => e.count = f.count

BufferOK ==
    \A s \in Streams :
        Sorted(buffer[s]) /\ Range(buffer[s]) \subseteq Range(numbered[s])

\* The backend has no envelope without the ones before it.
ReceivedOK ==
    \A s \in Streams :
        /\ received[s] \subseteq Range(numbered[s])
        /\ \A e \in received[s], f \in Range(numbered[s]) :
              CursorLeq(f, e) => f \in received[s]

\* What precedes the i-th envelope of q in its stream is at the backend, in
\* ahead, or in q not behind it.
InOrder(q, ahead) ==
    \A i \in DOMAIN q :
        /\ q[i] \in Range(numbered[q[i].stream])
        /\ \A f \in Range(numbered[q[i].stream]) :
              CursorLeq(f, q[i]) =>
                \/ f \in received[q[i].stream] \/ f \in ahead
                \/ \E j \in 1..i : f = q[j]

FlightOK == InOrder(wire, {}) /\ InOrder(batch, Range(wire))

\* While a connection is up the backend has, or is about to get, everything
\* that is buffered.
WriterOK ==
    /\ writer = "down" => wire = <<>> /\ batch = <<>> /\ acks = <<>>
    /\ writer = "idle" => batch = <<>>
    /\ writer # "down" =>
          \A s \in Streams :
              Range(buffer[s]) \subseteq received[s] \union Range(wire) \union Range(batch)

\* An acknowledgement speaks of envelopes the backend has.
AcksOK ==
    \A i \in DOMAIN acks :
        /\ acks[i].seq < nextSeq[acks[i].stream]
        /\ \A f \in Range(numbered[acks[i].stream]) :
              CursorLeq(f, acks[i]) => f \in received[acks[i].stream]

UsedOK == IsFiniteSet(Entries) /\ BufferBound

IInv ==
    /\ TypeOK /\ LogOK /\ BufferOK /\ ReceivedOK /\ FlightOK /\ WriterOK
    /\ AcksOK /\ NothingLost /\ UsedOK

-----------------------------------------------------------------------------
(* Lists of envelopes *)

LEMMA AppendRange ==
    ASSUME NEW S, NEW q \in Seq(S), NEW e \in S
    PROVE  /\ Append(q, e) \in Seq(S)
           /\ DOMAIN Append(q, e) = 1..Len(q) + 1
           /\ \A i \in DOMAIN q : Append(q, e)[i] = q[i]
           /\ Append(q, e)[Len(q) + 1] = e
           /\ Range(Append(q, e)) = Range(q) \union {e}
  <1>1. Append(q, e) \in Seq(S) /\ DOMAIN Append(q, e) = 1..Len(q) + 1
    OBVIOUS
  <1>2. (\A i \in DOMAIN q : Append(q, e)[i] = q[i]) /\ Append(q, e)[Len(q) + 1] = e
    OBVIOUS
  <1>3. DOMAIN q = 1..Len(q) /\ Len(q) \in Nat
    OBVIOUS
  <1>4. DOMAIN Append(q, e) = DOMAIN q \union {Len(q) + 1}
    BY <1>1, <1>3
  <1>5. Range(Append(q, e)) = Range(q) \union {e}
    BY <1>2, <1>4 DEF Range
  <1> QED
    BY <1>1, <1>2, <1>5

LEMMA TailRange ==
    ASSUME NEW S, NEW q \in Seq(S), q # <<>>
    PROVE  /\ Tail(q) \in Seq(S) /\ Head(q) \in S /\ Head(q) = q[1]
           /\ Len(q) \in Nat \ {0} /\ DOMAIN q = 1..Len(q)
           /\ Len(Tail(q)) = Len(q) - 1 /\ DOMAIN Tail(q) = 1..(Len(q) - 1)
           /\ \A i \in DOMAIN Tail(q) : Tail(q)[i] = q[i + 1]
           /\ Range(q) = {Head(q)} \union Range(Tail(q))
  <1>1. Tail(q) \in Seq(S) /\ Head(q) \in S /\ Head(q) = q[1]
    OBVIOUS
  <1>2. Len(q) \in Nat \ {0} /\ DOMAIN q = 1..Len(q)
    OBVIOUS
  <1>3. Len(Tail(q)) = Len(q) - 1 /\ DOMAIN Tail(q) = 1..(Len(q) - 1)
    BY <1>2
  <1>4. \A i \in DOMAIN Tail(q) : Tail(q)[i] = q[i + 1]
    BY <1>2, <1>3
  <1>5. ASSUME NEW i \in DOMAIN q PROVE q[i] \in {Head(q)} \union Range(Tail(q))
    <2>1. CASE i = 1
      BY <2>1, <1>1
    <2>2. CASE i # 1
      <3>1. i - 1 \in DOMAIN Tail(q) /\ (i - 1) + 1 = i
        BY <1>2, <1>3, <2>2
      <3> QED
        BY <3>1, <1>4 DEF Range
    <2> QED
      BY <2>1, <2>2
  <1>6. ASSUME NEW i \in DOMAIN Tail(q) PROVE Tail(q)[i] \in Range(q)
    <2>1. i + 1 \in DOMAIN q
      BY <1>2, <1>3
    <2> QED
      BY <2>1, <1>4 DEF Range
  <1>7. 1 \in DOMAIN q
    BY <1>2
  <1>8. Range(q) = {Head(q)} \union Range(Tail(q))
    BY <1>1, <1>5, <1>6, <1>7 DEF Range
  <1> QED
    BY <1>1, <1>2, <1>3, <1>4, <1>8

LEMMA ConcatRange ==
    ASSUME NEW S, NEW q \in Seq(S), NEW r \in Seq(S)
    PROVE  /\ q \o r \in Seq(S) /\ Len(q \o r) = Len(q) + Len(r)
           /\ \A i \in DOMAIN q : i \in DOMAIN (q \o r) /\ (q \o r)[i] = q[i]
           /\ \A i \in DOMAIN (q \o r) :
                 \/ i \in DOMAIN q /\ (q \o r)[i] = q[i]
                 \/ i - Len(q) \in DOMAIN r /\ (q \o r)[i] = r[i - Len(q)]
           /\ Range(q \o r) = Range(q) \union Range(r)
  <1>1. q \o r \in Seq(S) /\ Len(q \o r) = Len(q) + Len(r)
    OBVIOUS
  <1>2. /\ DOMAIN q = 1..Len(q) /\ DOMAIN r = 1..Len(r) /\ Len(q) \in Nat /\ Len(r) \in Nat
        /\ DOMAIN (q \o r) = 1..Len(q) + Len(r)
    BY <1>1
  <1>3. \A i \in DOMAIN q : i \in DOMAIN (q \o r) /\ (q \o r)[i] = q[i]
    BY <1>2
  <1>4. ASSUME NEW i \in DOMAIN (q \o r)
        PROVE  \/ i \in DOMAIN q /\ (q \o r)[i] = q[i]
               \/ i - Len(q) \in DOMAIN r /\ (q \o r)[i] = r[i - Len(q)]
    BY <1>2
  <1>5. ASSUME NEW i \in DOMAIN r PROVE r[i] \in Range(q \o r)
    <2>1. i + Len(q) \in DOMAIN (q \o r) /\ (q \o r)[i + Len(q)] = r[i]
      BY <1>2
    <2> QED
      BY <2>1 DEF Range
  <1>6. Range(q \o r) = Range(q) \union Range(r)
    BY <1>3, <1>4, <1>5 DEF Range
  <1> QED
    BY <1>1, <1>3, <1>4, <1>6

\* Every set of numbers with an element has a least one.
LEMMA Least ==
    ASSUME NEW S \in SUBSET Nat, S # {}
    PROVE  \E m \in S : \A x \in S : m <= x
  <1>1. PICK R : R = OpToRel(<, Nat)
    OBVIOUS
  <1>2. IsWellFoundedOn(R, Nat)
    BY <1>1, NatLessThanWellFounded
  <1>3. PICK m \in S : \A y \in S : ~(<<y, m>> \in R)
    BY <1>2, WFMin, Zenon
  <1>4. \A x \in S : <<x, m>> \in R <=> x < m
    <2>1. \A x, y \in Nat : <<x, y>> \in OpToRel(<, Nat) <=> x < y
      BY DEF OpToRel
    <2> QED
      BY <1>1, <2>1
  <1>5. \A x \in S : ~(x < m)
    BY <1>3, <1>4
  <1>6. \A x, y \in Nat : ~(x < y) => y <= x
    OBVIOUS
  <1> QED
    BY <1>5, <1>6

LEMMA IntervalSize ==
    ASSUME NEW a \in Nat, NEW b \in Nat, a <= b
    PROVE  IsFiniteSet((a + 1)..b) /\ Cardinality((a + 1)..b) = b - a
  <1>1. PICK c \in Int : c = a + 1
    OBVIOUS
  <1>2. b \in Int
    OBVIOUS
  <1>3. IsFiniteSet(c..b) /\ Cardinality(c..b) = IF c > b THEN 0 ELSE b - c + 1
    BY <1>2, FS_Interval, Zenon
  <1>4. (IF c > b THEN 0 ELSE b - c + 1) = b - a
    BY <1>1
  <1> QED
    BY <1>1, <1>3, <1>4

LEMMA SegmentSize ==
    ASSUME NEW n \in Nat
    PROVE  IsFiniteSet(1..n) /\ Cardinality(1..n) = n
  <1>1. PICK a \in Int : a = 1
    OBVIOUS
  <1>2. n \in Int
    OBVIOUS
  <1>3. IsFiniteSet(a..n) /\ Cardinality(a..n) = IF a > n THEN 0 ELSE n - a + 1
    BY <1>2, FS_Interval, Zenon
  <1>4. (IF a > n THEN 0 ELSE n - a + 1) = n
    BY <1>1
  <1> QED
    BY <1>1, <1>3, <1>4

\* In a sorted buffer an acknowledgement covers a prefix.
LEMMA AckedPrefix ==
    ASSUME NEW q \in Seq(Envelope), Sorted(q), NEW ack \in Ack
    PROVE  \E m \in 0..Len(q) :
              {i \in DOMAIN q : ~CursorLeq(q[i], ack)} = (m + 1)..Len(q)
  <1> DEFINE keep == {i \in DOMAIN q : ~CursorLeq(q[i], ack)}
  <1>1. Len(q) \in Nat /\ DOMAIN q = 1..Len(q)
    OBVIOUS
  <1>2. CASE keep = {}
    <2>1. (Len(q) + 1)..Len(q) = {} /\ Len(q) \in 0..Len(q)
      BY <1>1
    <2> QED
      BY <1>2, <2>1
  <1>3. CASE keep # {}
    <2>1. PICK k \in keep : \A x \in keep : k <= x
      <3>1. keep \in SUBSET Nat
        BY <1>1
      <3> QED
        BY <1>3, <3>1, Least
    <2>2. \A i \in DOMAIN q : i > k => i \in keep
      <3> SUFFICES ASSUME NEW i \in DOMAIN q, i > k PROVE ~CursorLeq(q[i], ack)
        OBVIOUS
      <3>1. k \in DOMAIN q /\ ~CursorLeq(q[k], ack) /\ Before(q[k], q[i])
        BY DEF Sorted
      <3>2. q[k] \in Envelope /\ q[i] \in Envelope
        BY <3>1
      <3>3. /\ q[k].seq \in Nat /\ q[k].seg \in Nat /\ q[i].seq \in Nat /\ q[i].seg \in Nat
            /\ ack.seq \in Nat /\ ack.seg \in Nat
        BY <3>2 DEF Envelope, Ack
      <3> QED
        BY <3>1, <3>3 DEF CursorLeq, Before
    <2>3. keep = k..Len(q)
      BY <1>1, <2>1, <2>2
    <2>4. k - 1 \in 0..Len(q) /\ (k - 1) + 1 = k
      BY <1>1
    <2> QED
      BY <2>3, <2>4
  <1> QED
    BY <1>2, <1>3

LEMMA RetainSuffix ==
    ASSUME NEW S, NEW q \in Seq(S), NEW m \in 0..Len(q)
    PROVE  /\ Retain(q, (m + 1)..Len(q)) \in Seq(S)
           /\ Len(Retain(q, (m + 1)..Len(q))) = Len(q) - m
           /\ \A j \in 1..(Len(q) - m) : Retain(q, (m + 1)..Len(q))[j] = q[m + j]
  <1> DEFINE keep == (m + 1)..Len(q)
             kept == Retain(q, keep)
  <1>1. Len(q) \in Nat /\ DOMAIN q = 1..Len(q) /\ m \in Nat /\ m <= Len(q)
    OBVIOUS
  <1>2. Cardinality(keep) = Len(q) - m
    BY <1>1, IntervalSize
  <1>3. \A i \in keep : Cardinality(keep \intersect (1..i)) = i - m
    <2> SUFFICES ASSUME NEW i \in keep PROVE Cardinality(keep \intersect (1..i)) = i - m
      OBVIOUS
    <2>1. keep \intersect (1..i) = (m + 1)..i
      BY <1>1
    <2>2. i \in Nat /\ m <= i
      BY <1>1
    <2>3. Cardinality((m + 1)..i) = i - m
      BY <1>1, <2>2, IntervalSize
    <2> QED
      BY <2>1, <2>3
  <1>4. \A j \in 1..(Len(q) - m) :
            (CHOOSE i \in keep : Cardinality(keep \intersect (1..i)) = j) = m + j
    <2> SUFFICES ASSUME NEW j \in 1..(Len(q) - m)
                 PROVE  (CHOOSE i \in keep : Cardinality(keep \intersect (1..i)) = j) = m + j
      OBVIOUS
    <2>1. m + j \in keep /\ (m + j) - m = j
      BY <1>1
    <2>2. \A i \in keep : Cardinality(keep \intersect (1..i)) = j => i = m + j
      BY <1>1, <1>3
    <2>3. Cardinality(keep \intersect (1..(m + j))) = j
      BY <1>3, <2>1
    <2> HIDE DEF keep
    <2> QED
      BY <2>1, <2>2, <2>3
  <1>5. kept = [j \in 1..Cardinality(keep) |->
                    q[CHOOSE i \in keep : Cardinality(keep \intersect (1..i)) = j]]
    BY DEF Retain
  <1> HIDE DEF keep, kept
  <1>6. /\ kept = [j \in 1..(Len(q) - m) |-> q[m + j]]
        /\ \A j \in 1..(Len(q) - m) : kept[j] = q[m + j]
    <2>1. PICK n : n = Len(q) - m
      OBVIOUS
    <2> DEFINE pos(j) == CHOOSE i \in keep : Cardinality(keep \intersect (1..i)) = j
    <2>2. kept = [j \in 1..n |-> q[pos(j)]]
      BY <1>2, <1>5, <2>1
    <2>3. \A j \in 1..n : pos(j) = m + j
      BY <1>4, <2>1
    <2> HIDE DEF pos
    <2>4. kept = [j \in 1..n |-> q[m + j]]
      BY <2>2, <2>3
    <2> QED
      BY <2>1, <2>4
  <1>7. \A j \in 1..(Len(q) - m) : q[m + j] \in S
    BY <1>1
  <1>8. Len(q) - m \in Nat
    BY <1>1
  <1>9. kept \in Seq(S) /\ Len(kept) = Len(q) - m
    BY <1>6, <1>7, <1>8
  <1> QED
    BY <1>6, <1>9 DEF keep, kept

LEMMA RangeIn ==
    ASSUME NEW S, NEW q \in Seq(S)
    PROVE  /\ Range(q) \subseteq S /\ DOMAIN q = 1..Len(q) /\ Len(q) \in Nat
           /\ \A i \in DOMAIN q : q[i] \in S
  BY DEF Range

LEMMA Cursors ==
    \A e \in Envelope \union Ack : e.seq \in Nat /\ e.seg \in Nat /\ e.stream \in Streams
  BY DEF Envelope, Ack

-----------------------------------------------------------------------------
(* The places of the buffer *)

LEMMA RowSize ==
    ASSUME NEW s, NEW a \in Nat, NEW b \in Nat, a <= b
    PROVE  /\ IsFiniteSet({s} \X ((a + 1)..b))
           /\ Cardinality({s} \X ((a + 1)..b)) = b - a
  <1>1. PICK T : T = (a + 1)..b
    OBVIOUS
  <1>2. IsFiniteSet(T) /\ Cardinality(T) = b - a
    BY <1>1, IntervalSize
  <1>3. IsFiniteSet({s}) /\ Cardinality({s}) = 1
    BY FS_Singleton
  <1>4. IsFiniteSet({s} \X T) /\ Cardinality({s} \X T) = Cardinality({s}) * Cardinality(T)
    BY <1>2, <1>3, FS_Product
  <1>5. 1 * (b - a) = b - a
    OBVIOUS
  <1> QED
    BY <1>1, <1>2, <1>3, <1>4, <1>5

LEMMA EntriesAre ==
    \A x : x \in Entries <=> \E s \in Streams : \E i \in DOMAIN buffer[s] : x = <<s, i>>
  BY DEF Entries

LEMMA DisjointSize ==
    ASSUME NEW T, NEW R, IsFiniteSet(T), IsFiniteSet(R), T \intersect R = {}
    PROVE  /\ IsFiniteSet(T \union R)
           /\ Cardinality(T \union R) = Cardinality(T) + Cardinality(R)
  <1>1. /\ IsFiniteSet(T \union R)
        /\ Cardinality(T \union R) =
              Cardinality(T) + Cardinality(R) - Cardinality(T \intersect R)
    BY FS_Union
  <1>2. Cardinality({}) = 0
    BY FS_EmptySet
  <1>3. Cardinality(T) \in Nat /\ Cardinality(R) \in Nat
    BY FS_CardinalityType
  <1>4. \A n, k \in Nat : n + k - 0 = n + k
    OBVIOUS
  <1> QED
    BY <1>1, <1>2, <1>3, <1>4

LEMMA EntriesGrow ==
    ASSUME TypeOK, NEW s \in Streams, NEW new \in Seq(Envelope),
           Len(buffer[s]) <= Len(new), buffer' = [buffer EXCEPT ![s] = new]
    PROVE  /\ Entries' = Entries \union ({s} \X ((Len(buffer[s]) + 1)..Len(new)))
           /\ Entries \intersect ({s} \X ((Len(buffer[s]) + 1)..Len(new))) = {}
  <1> DEFINE row == {s} \X ((Len(buffer[s]) + 1)..Len(new))
  <1>1. /\ \A r \in Streams : buffer[r] \in Seq(Envelope) /\ DOMAIN buffer[r] = 1..Len(buffer[r])
        /\ Len(buffer[s]) \in Nat /\ Len(new) \in Nat /\ DOMAIN new = 1..Len(new)
    BY DEF TypeOK
  <1>2. buffer'[s] = new /\ \A r \in Streams \ {s} : buffer'[r] = buffer[r]
    BY DEF TypeOK
  <1>3. \A x : x \in Entries' <=> \E r \in Streams : \E i \in DOMAIN buffer'[r] : x = <<r, i>>
    BY DEF Entries
  <1>4. DOMAIN new = DOMAIN buffer[s] \union ((Len(buffer[s]) + 1)..Len(new))
    BY <1>1
  <1>5. DOMAIN buffer[s] \intersect ((Len(buffer[s]) + 1)..Len(new)) = {}
    BY <1>1
  <1>6. Entries' = Entries \union row
    BY <1>2, <1>3, <1>4, EntriesAre
  <1>7. Entries \intersect row = {}
    BY <1>5, EntriesAre
  <1> QED
    BY <1>6, <1>7

LEMMA EntriesShrink ==
    ASSUME TypeOK, NEW s \in Streams, NEW new \in Seq(Envelope),
           Len(new) <= Len(buffer[s]), buffer' = [buffer EXCEPT ![s] = new]
    PROVE  /\ Entries = Entries' \union ({s} \X ((Len(new) + 1)..Len(buffer[s])))
           /\ Entries' \intersect ({s} \X ((Len(new) + 1)..Len(buffer[s]))) = {}
  <1> DEFINE row == {s} \X ((Len(new) + 1)..Len(buffer[s]))
  <1>1. /\ \A r \in Streams : buffer[r] \in Seq(Envelope) /\ DOMAIN buffer[r] = 1..Len(buffer[r])
        /\ Len(buffer[s]) \in Nat /\ Len(new) \in Nat /\ DOMAIN new = 1..Len(new)
    BY DEF TypeOK
  <1>2. buffer'[s] = new /\ \A r \in Streams \ {s} : buffer'[r] = buffer[r]
    BY DEF TypeOK
  <1>3. \A x : x \in Entries' <=> \E r \in Streams : \E i \in DOMAIN buffer'[r] : x = <<r, i>>
    BY DEF Entries
  <1>4. DOMAIN buffer[s] = DOMAIN new \union ((Len(new) + 1)..Len(buffer[s]))
    BY <1>1
  <1>5. DOMAIN new \intersect ((Len(new) + 1)..Len(buffer[s])) = {}
    BY <1>1
  <1>6. Entries = Entries' \union row
    BY <1>2, <1>3, <1>4, EntriesAre
  <1>7. Entries' \intersect row = {}
    BY <1>2, <1>3, <1>5
  <1> QED
    BY <1>6, <1>7

-----------------------------------------------------------------------------
(* The invariant holds at first and every action keeps it *)

LEMMA InitIInv == Init => IInv
  <1> SUFFICES ASSUME Init PROVE IInv
    OBVIOUS
  <1> USE RemoteOutboundAssumption DEF Init
  <1>1. TypeOK
    BY DEF TypeOK
  <1>2. \A s \in Streams : Range(numbered[s]) = {} /\ Range(buffer[s]) = {} /\ received[s] = {}
    BY DEF Range
  <1>3. LogOK /\ BufferOK /\ ReceivedOK /\ NothingLost
    BY <1>2 DEF LogOK, BufferOK, ReceivedOK, NothingLost, Sorted
  <1>4. FlightOK /\ WriterOK /\ AcksOK
    BY DEF FlightOK, InOrder, WriterOK, AcksOK
  <1>5. Entries = {}
    BY DEF Entries
  <1>6. UsedOK
    BY <1>5, FS_EmptySet DEF UsedOK, BufferBound
  <1> QED
    BY <1>1, <1>3, <1>4, <1>6 DEF IInv

\* What does not touch the envelopes keeps what is said of them.
LEMMA Untouched ==
    ASSUME IInv,
           UNCHANGED <<nextSeq, buffer, used, wire, acks, received, numbered>>
    PROVE  /\ LogOK' /\ BufferOK' /\ ReceivedOK' /\ AcksOK' /\ NothingLost' /\ UsedOK'
           /\ (UNCHANGED batch => FlightOK')
  <1>1. LogOK' /\ BufferOK' /\ ReceivedOK'
    BY DEF IInv, LogOK, BufferOK, ReceivedOK, Sorted
  <1>2. AcksOK' /\ NothingLost'
    BY DEF IInv, AcksOK, NothingLost
  <1>3. Entries' = Entries
    BY DEF Entries
  <1>4. UsedOK'
    BY <1>3 DEF IInv, UsedOK, BufferBound
  <1>5. UNCHANGED batch => FlightOK'
    BY DEF IInv, FlightOK, InOrder
  <1> QED
    BY <1>1, <1>2, <1>4, <1>5

LEMMA WriteStep ==
    ASSUME IInv, NEW s \in Streams, Write(s)
    PROVE  IInv'
  <1>1. TypeOK'
    <2>1. queue \in Seq(Streams) /\ Len(queue) \in Nat /\ Len(queue) < Capacity /\ Capacity \in Nat
      BY RemoteOutboundAssumption DEF IInv, TypeOK, Write
    <2>2. queue' \in Seq(Streams) /\ Len(queue') = Len(queue) + 1
      BY <2>1 DEF Write
    <2>3. Len(queue') <= Capacity
      BY <2>1, <2>2
    <2>4. written' \in [Streams -> Nat]
      BY DEF IInv, TypeOK, Write
    <2> QED
      BY <2>2, <2>3, <2>4 DEF IInv, TypeOK, Write
  <1>2. WriterOK'
    BY DEF IInv, WriterOK, Write
  <1> QED
    BY <1>1, <1>2, Untouched DEF IInv, Write

LEMMA SentStep ==
    ASSUME IInv, Sent
    PROVE  IInv'
  <1>1. TypeOK'
    BY DEF IInv, TypeOK, Sent
  <1>2. WriterOK'
    BY DEF IInv, WriterOK, Sent
  <1> QED
    BY <1>1, <1>2, Untouched DEF IInv, Sent

LEMMA TakeUnserializableStep ==
    ASSUME IInv, TakeUnserializable
    PROVE  IInv'
  <1>1. TypeOK'
    <2>1. queue \in Seq(Streams) /\ Len(queue) \in Nat /\ Len(queue) <= Capacity /\ Capacity \in Nat
      BY RemoteOutboundAssumption DEF IInv, TypeOK
    <2>2. queue' \in Seq(Streams) /\ Len(queue') = Len(queue) - 1
      BY <2>1, TailRange DEF TakeUnserializable
    <2>3. Len(queue') <= Capacity
      BY <2>1, <2>2
    <2> QED
      BY <2>2, <2>3 DEF IInv, TypeOK, TakeUnserializable
  <1>2. WriterOK'
    BY DEF IInv, WriterOK, TakeUnserializable
  <1> QED
    BY <1>1, <1>2, Untouched DEF IInv, TakeUnserializable

LEMMA BreakStep ==
    ASSUME IInv, Break
    PROVE  IInv'
  <1>1. TypeOK'
    <2>1. breaks' \in 0..MaxBreaks
      BY RemoteOutboundAssumption DEF IInv, TypeOK, Break
    <2>2. Len(<<>>) <= MaxAcks
      BY RemoteOutboundAssumption
    <2> QED
      BY <2>1, <2>2 DEF IInv, TypeOK, Break
  <1>2. LogOK' /\ BufferOK' /\ ReceivedOK'
    BY DEF IInv, LogOK, BufferOK, ReceivedOK, Sorted, Break
  <1>3. FlightOK' /\ WriterOK' /\ AcksOK' /\ NothingLost'
    BY DEF IInv, FlightOK, InOrder, WriterOK, AcksOK, NothingLost, Break
  <1>4. Entries' = Entries
    BY DEF Entries, Break
  <1>5. UsedOK'
    BY <1>4 DEF IInv, UsedOK, BufferBound, Break
  <1> QED
    BY <1>1, <1>2, <1>3, <1>5 DEF IInv

LEMMA SendStep ==
    ASSUME IInv, Send
    PROVE  IInv'
  <1> DEFINE e == Head(batch)
  <1>1. /\ batch \in Seq(Envelope) /\ wire \in Seq(Envelope) /\ batch # <<>>
        /\ wire' = Append(wire, e) /\ batch' = Tail(batch)
    BY DEF IInv, TypeOK, Send
  <1>2. /\ batch' \in Seq(Envelope) /\ e \in Envelope /\ e = batch[1]
        /\ Len(batch) \in Nat \ {0} /\ DOMAIN batch = 1..Len(batch)
        /\ DOMAIN batch' = 1..(Len(batch) - 1)
        /\ \A i \in DOMAIN batch' : batch'[i] = batch[i + 1]
        /\ Range(batch) = {e} \union Range(batch')
    BY <1>1, TailRange
  <1>3. /\ wire' \in Seq(Envelope) /\ DOMAIN wire' = 1..Len(wire) + 1
        /\ \A i \in DOMAIN wire : wire'[i] = wire[i]
        /\ wire'[Len(wire) + 1] = e /\ Range(wire') = Range(wire) \union {e}
        /\ DOMAIN wire = 1..Len(wire) /\ Len(wire) \in Nat
    BY <1>1, <1>2, AppendRange, RangeIn
  <1>4. TypeOK'
    BY <1>2, <1>3 DEF IInv, TypeOK, Send
  <1>5. LogOK' /\ BufferOK' /\ ReceivedOK'
    BY DEF IInv, LogOK, BufferOK, ReceivedOK, Sorted, Send
  <1>6. AcksOK' /\ NothingLost'
    BY DEF IInv, AcksOK, NothingLost, Send
  <1>7. Entries' = Entries
    BY DEF Entries, Send
  <1>8. UsedOK'
    BY <1>7 DEF IInv, UsedOK, BufferBound, Send
  <1>9. WriterOK'
    BY <1>2, <1>3 DEF IInv, WriterOK, Send
  <1>10. InOrder(wire, {})'
    <2> SUFFICES ASSUME NEW i \in DOMAIN wire'
                 PROVE  /\ wire'[i] \in Range(numbered[wire'[i].stream])
                        /\ \A f \in Range(numbered[wire'[i].stream]) :
                              CursorLeq(f, wire'[i]) =>
                                \/ f \in received[wire'[i].stream]
                                \/ \E j \in 1..i : f = wire'[j]
      BY DEF InOrder, Send
    <2>1. CASE i \in DOMAIN wire
      <3>1. \A j \in 1..i : wire'[j] = wire[j]
        BY <1>3, <2>1
      <3> QED
        BY <1>3, <2>1, <3>1 DEF IInv, FlightOK, InOrder
    <2>2. CASE i = Len(wire) + 1
      <3>1. 1 \in DOMAIN batch /\ \A j \in 1..1 : batch[j] = e
        BY <1>2
      <3>2. /\ e \in Range(numbered[e.stream])
            /\ \A f \in Range(numbered[e.stream]) : CursorLeq(f, e) =>
                  f \in received[e.stream] \/ f \in Range(wire) \/ f = e
        BY <1>2, <3>1 DEF IInv, FlightOK, InOrder
      <3>3. \A f \in Range(wire') : \E j \in 1..i : f = wire'[j]
        BY <1>3, <2>2 DEF Range
      <3>4. wire'[i] = e
        BY <1>3, <2>2
      <3> QED
        BY <1>3, <3>2, <3>3, <3>4
    <2> QED
      BY <1>3, <2>1, <2>2
  <1>11. InOrder(batch, Range(wire))'
    <2> SUFFICES ASSUME NEW i \in DOMAIN batch'
                 PROVE  /\ batch'[i] \in Range(numbered[batch'[i].stream])
                        /\ \A f \in Range(numbered[batch'[i].stream]) :
                              CursorLeq(f, batch'[i]) =>
                                \/ f \in received[batch'[i].stream] \/ f \in Range(wire')
                                \/ \E j \in 1..i : f = batch'[j]
      BY DEF InOrder, Send
    <2>1. i + 1 \in DOMAIN batch /\ batch'[i] = batch[i + 1]
      BY <1>2
    <2>2. ASSUME NEW j \in 1..(i + 1)
          PROVE  batch[j] = e \/ \E k \in 1..i : batch[j] = batch'[k]
      <3>1. CASE j = 1
        BY <1>2, <3>1
      <3>2. CASE j # 1
        <4>1. j - 1 \in 1..i /\ j - 1 \in DOMAIN batch' /\ (j - 1) + 1 = j
          BY <1>2, <3>2
        <4> QED
          BY <1>2, <4>1
      <3> QED
        BY <3>1, <3>2
    <2> QED
      BY <1>3, <2>1, <2>2 DEF IInv, FlightOK, InOrder
  <1> QED
    BY <1>4, <1>5, <1>6, <1>8, <1>9, <1>10, <1>11 DEF IInv, FlightOK

LEMMA ReceiveStep ==
    ASSUME IInv, Receive
    PROVE  IInv'
  <1> DEFINE e == Head(wire)
  <1>1. wire \in Seq(Envelope) /\ wire # <<>> /\ wire' = Tail(wire)
    BY DEF IInv, TypeOK, Receive
  <1>2. /\ wire' \in Seq(Envelope) /\ e \in Envelope /\ e = wire[1]
        /\ Len(wire) \in Nat \ {0} /\ DOMAIN wire = 1..Len(wire)
        /\ DOMAIN wire' = 1..(Len(wire) - 1)
        /\ \A i \in DOMAIN wire' : wire'[i] = wire[i + 1]
        /\ Range(wire) = {e} \union Range(wire')
    BY <1>1, TailRange
  <1>3. e.stream \in Streams
    BY <1>2 DEF Envelope
  <1>4. /\ received'[e.stream] = received[e.stream] \union {e}
        /\ \A s \in Streams \ {e.stream} : received'[s] = received[s]
        /\ received' \in [Streams -> SUBSET Envelope]
    BY <1>2, <1>3 DEF IInv, TypeOK, Receive
  <1>5. \A s \in Streams : received[s] \subseteq received'[s]
    BY <1>3, <1>4
  <1>6. /\ e \in Range(numbered[e.stream])
        /\ \A f \in Range(numbered[e.stream]) : CursorLeq(f, e) => f \in received'[e.stream]
    <2>1. 1 \in DOMAIN wire /\ \A j \in 1..1 : wire[j] = e
      BY <1>2
    <2>2. /\ e \in Range(numbered[e.stream])
          /\ \A f \in Range(numbered[e.stream]) : CursorLeq(f, e) =>
                f \in received[e.stream] \/ f = e
      BY <1>2, <2>1 DEF IInv, FlightOK, InOrder
    <2> QED
      BY <1>4, <2>2
  <1>7. TypeOK'
    BY <1>2, <1>4 DEF IInv, TypeOK, Receive
  <1>8. LogOK' /\ BufferOK'
    BY DEF IInv, LogOK, BufferOK, Sorted, Receive
  <1>9. ReceivedOK'
    <2> SUFFICES ASSUME NEW s \in Streams
                 PROVE  /\ received'[s] \subseteq Range(numbered[s])
                        /\ \A g \in received'[s], f \in Range(numbered[s]) :
                              CursorLeq(f, g) => f \in received'[s]
      BY DEF ReceivedOK, Receive
    <2>1. /\ received[s] \subseteq Range(numbered[s])
          /\ \A g \in received[s], f \in Range(numbered[s]) : CursorLeq(f, g) => f \in received[s]
      BY DEF IInv, ReceivedOK
    <2>2. CASE s = e.stream
      BY <1>4, <1>6, <2>1, <2>2
    <2>3. CASE s # e.stream
      BY <1>4, <2>1, <2>3
    <2> QED
      BY <2>2, <2>3
  <1>10. AcksOK'
    <2>1. \A i \in DOMAIN acks : acks[i].stream \in Streams
      <3>1. acks \in Seq(Ack)
        BY DEF IInv, TypeOK
      <3> QED
        BY <3>1, RangeIn, Cursors
    <2> QED
      BY <1>5, <2>1 DEF IInv, AcksOK, Receive
  <1>11. NothingLost'
    BY <1>5 DEF IInv, NothingLost, Receive
  <1>12. Entries' = Entries
    BY DEF Entries, Receive
  <1>13. UsedOK'
    BY <1>12 DEF IInv, UsedOK, BufferBound, Receive
  <1>14. WriterOK'
    <2>1. writer # "down" /\ writer' = writer
      BY <1>1 DEF IInv, WriterOK, Receive
    <2>2. \A s \in Streams :
              Range(buffer[s]) \subseteq received[s] \union Range(wire) \union Range(batch)
      BY <2>1 DEF IInv, WriterOK
    <2>3. ASSUME NEW s \in Streams, e \in Range(buffer[s]) PROVE e \in received'[s]
      <3>1. e \in Range(numbered[s])
        BY <2>3 DEF IInv, BufferOK
      <3>2. e.stream = s
        BY <3>1 DEF IInv, LogOK
      <3> QED
        BY <1>4, <3>2
    <2>4. \A s \in Streams :
              Range(buffer[s]) \subseteq received'[s] \union Range(wire') \union Range(batch)
      BY <1>2, <1>5, <2>2, <2>3
    <2> QED
      BY <2>1, <2>4 DEF IInv, WriterOK, Receive
  <1>15. InOrder(wire, {})'
    <2> SUFFICES ASSUME NEW i \in DOMAIN wire'
                 PROVE  /\ wire'[i] \in Range(numbered[wire'[i].stream])
                        /\ \A f \in Range(numbered[wire'[i].stream]) :
                              CursorLeq(f, wire'[i]) =>
                                \/ f \in received'[wire'[i].stream]
                                \/ \E j \in 1..i : f = wire'[j]
      BY DEF InOrder, Receive
    <2>1. i + 1 \in DOMAIN wire /\ wire'[i] = wire[i + 1] /\ wire'[i].stream \in Streams
      BY <1>2, RangeIn, Cursors
    <2>2. ASSUME NEW j \in 1..(i + 1)
          PROVE  wire[j] = e \/ \E k \in 1..i : wire[j] = wire'[k]
      <3>1. CASE j = 1
        BY <1>2, <3>1
      <3>2. CASE j # 1
        <4>1. j - 1 \in 1..i /\ j - 1 \in DOMAIN wire' /\ (j - 1) + 1 = j
          BY <1>2, <3>2
        <4> QED
          BY <1>2, <4>1
      <3> QED
        BY <3>1, <3>2
    <2>3. wire'[i] \in Range(numbered[wire'[i].stream])
      BY <2>1 DEF IInv, FlightOK, InOrder
    <2>4. ASSUME NEW f \in Range(numbered[wire'[i].stream]), CursorLeq(f, wire'[i])
          PROVE  f \in received'[wire'[i].stream] \/ \E j \in 1..i : f = wire'[j]
      <3>1. f \in received[wire'[i].stream] \/ \E j \in 1..(i + 1) : f = wire[j]
        BY <2>1, <2>4 DEF IInv, FlightOK, InOrder
      <3>2. f.stream = wire'[i].stream
        BY <2>1, <2>4 DEF IInv, LogOK
      <3>3. f = e => f \in received'[wire'[i].stream]
        BY <1>4, <3>2
      <3> QED
        BY <1>5, <2>1, <2>2, <3>1, <3>3
    <2> QED
      BY <2>3, <2>4
  <1>16. InOrder(batch, Range(wire))'
    <2> SUFFICES ASSUME NEW i \in DOMAIN batch
                 PROVE  /\ batch[i] \in Range(numbered[batch[i].stream])
                        /\ \A f \in Range(numbered[batch[i].stream]) :
                              CursorLeq(f, batch[i]) =>
                                \/ f \in received'[batch[i].stream] \/ f \in Range(wire')
                                \/ \E j \in 1..i : f = batch[j]
      BY DEF InOrder, Receive
    <2>1. batch[i].stream \in Streams
      <3>1. batch \in Seq(Envelope)
        BY DEF IInv, TypeOK
      <3> QED
        BY <3>1, RangeIn, Cursors
    <2>2. batch[i] \in Range(numbered[batch[i].stream])
      BY DEF IInv, FlightOK, InOrder
    <2>3. ASSUME NEW f \in Range(numbered[batch[i].stream]), CursorLeq(f, batch[i])
          PROVE  \/ f \in received'[batch[i].stream] \/ f \in Range(wire')
                 \/ \E j \in 1..i : f = batch[j]
      <3>1. \/ f \in received[batch[i].stream] \/ f \in Range(wire)
            \/ \E j \in 1..i : f = batch[j]
        BY <2>3 DEF IInv, FlightOK, InOrder
      <3>2. f.stream = batch[i].stream
        BY <2>1, <2>3 DEF IInv, LogOK
      <3>3. f = e => f \in received'[batch[i].stream]
        BY <1>4, <3>2
      <3> QED
        BY <1>2, <1>5, <2>1, <3>1, <3>3
    <2> QED
      BY <2>2, <2>3
  <1> QED
    BY <1>7, <1>8, <1>9, <1>10, <1>11, <1>13, <1>14, <1>15, <1>16 DEF IInv, FlightOK

LEMMA AcknowledgeStep ==
    ASSUME IInv, NEW s \in Streams, NEW e \in received[s], Acknowledge(e)
    PROVE  IInv'
  <1>1. PICK ack \in AckOf(e) : acks' = Append(acks, ack)
    BY DEF Acknowledge
  <1>2. /\ e \in Range(numbered[s]) /\ numbered[s] \in Seq(Envelope)
        /\ Range(numbered[s]) \subseteq Envelope
    BY RangeIn DEF IInv, ReceivedOK, TypeOK
  <1>3. e \in Envelope /\ e.stream = s /\ e.seg < e.count /\ e.count <= MaxSegments
    BY <1>2 DEF IInv, LogOK
  <1>4. /\ e.seq \in Nat /\ e.seg \in Nat /\ e.count \in Nat /\ MaxSegments \in Nat
    BY <1>3, RemoteOutboundAssumption DEF Envelope
  <1>5. /\ ack = [stream |-> s, seq |-> e.seq, seg |-> ack.seg] /\ ack \in Ack
        /\ (ack.seg = e.seg \/ (ack.seg = MaxSegments /\ e.seg + 1 = e.count))
    <2>1. \/ ack = [stream |-> e.stream, seq |-> e.seq, seg |-> e.seg]
          \/ ack = [stream |-> e.stream, seq |-> e.seq, seg |-> Whole] /\ e.seg + 1 = e.count
      BY <1>1 DEF AckOf
    <2>2. CASE ack = [stream |-> e.stream, seq |-> e.seq, seg |-> e.seg]
      BY <2>2, <1>3, <1>4 DEF Ack
    <2>3. CASE ack = [stream |-> e.stream, seq |-> e.seq, seg |-> Whole] /\ e.seg + 1 = e.count
      BY <2>3, <1>3, <1>4 DEF Ack, Whole
    <2> QED
      BY <2>1, <2>2, <2>3
  <1>6. /\ acks \in Seq(Ack) /\ acks' \in Seq(Ack) /\ DOMAIN acks' = 1..Len(acks) + 1
        /\ \A i \in DOMAIN acks : acks'[i] = acks[i]
        /\ acks'[Len(acks) + 1] = ack
        /\ DOMAIN acks = 1..Len(acks) /\ Len(acks) \in Nat /\ Len(acks') = Len(acks) + 1
    BY <1>1, <1>5, AppendRange, RangeIn DEF IInv, TypeOK
  <1>7. TypeOK'
    <2>1. Len(acks') <= MaxAcks
      BY <1>6, RemoteOutboundAssumption DEF Acknowledge
    <2> QED
      BY <1>6, <2>1 DEF IInv, TypeOK, Acknowledge
  <1>8. LogOK' /\ BufferOK' /\ ReceivedOK'
    BY DEF IInv, LogOK, BufferOK, ReceivedOK, Sorted, Acknowledge
  <1>9. FlightOK' /\ NothingLost'
    BY DEF IInv, FlightOK, InOrder, NothingLost, Acknowledge
  <1>10. Entries' = Entries
    BY DEF Entries, Acknowledge
  <1>11. UsedOK'
    BY <1>10 DEF IInv, UsedOK, BufferBound, Acknowledge
  <1>12. WriterOK'
    BY DEF IInv, WriterOK, Acknowledge
  <1>13. ASSUME NEW f \in Range(numbered[s]), CursorLeq(f, ack) PROVE f \in received[s]
    <2>1. /\ f \in Envelope /\ f.seg < f.count /\ (f.seq = e.seq => f.count = e.count)
      BY <1>2 DEF IInv, LogOK
    <2>2. f.seq \in Nat /\ f.seg \in Nat /\ f.count \in Nat
      BY <2>1 DEF Envelope
    <2>3. f.seq < e.seq \/ (f.seq = e.seq /\ f.seg <= ack.seg)
      BY <1>5, <1>13 DEF CursorLeq
    <2>4. CursorLeq(f, e)
      BY <1>4, <1>5, <2>1, <2>2, <2>3 DEF CursorLeq
    <2> QED
      BY <2>4 DEF IInv, ReceivedOK
  <1>14. AcksOK'
    <2> SUFFICES ASSUME NEW i \in DOMAIN acks'
                 PROVE  /\ acks'[i].seq < nextSeq[acks'[i].stream]
                        /\ \A f \in Range(numbered[acks'[i].stream]) :
                              CursorLeq(f, acks'[i]) => f \in received[acks'[i].stream]
      BY DEF AcksOK, Acknowledge
    <2>1. CASE i \in DOMAIN acks
      BY <2>1, <1>6 DEF IInv, AcksOK
    <2>2. CASE i = Len(acks) + 1
      <3>1. acks'[i] = ack /\ ack.stream = s /\ ack.seq = e.seq
        BY <1>5, <1>6, <2>2
      <3>2. e.seq < nextSeq[s]
        BY <1>2 DEF IInv, LogOK
      <3> QED
        BY <1>13, <3>1, <3>2
    <2> QED
      BY <1>6, <2>1, <2>2
  <1> QED
    BY <1>7, <1>8, <1>9, <1>11, <1>12, <1>14 DEF IInv

\* An order of the replay lists every place of the buffer, those of a stream
\* by index.
LEMMA VisitsAre ==
    ASSUME IInv, NEW v \in Visits
    PROVE  /\ Cardinality(Entries) \in Nat /\ DOMAIN v = 1..Cardinality(Entries)
           /\ \A i \in DOMAIN v : v[i] \in Entries
           /\ \A x \in Entries : \E i \in DOMAIN v : v[i] = x
           /\ \A i, j \in DOMAIN v : i < j /\ v[i][1] = v[j][1] => v[i][2] < v[j][2]
  <1>1. IsFiniteSet(Entries)
    BY DEF IInv, UsedOK
  <1>2. Cardinality(Entries) \in Nat
    BY <1>1, FS_CardinalityType
  <1>3. v \in Bijection(1..Cardinality(Entries), Entries)
    BY DEF Visits
  <1>4. v \in [1..Cardinality(Entries) -> Entries]
    BY <1>3 DEF Bijection, Injection
  <1>5. \A x \in Entries : \E i \in 1..Cardinality(Entries) : v[i] = x
    BY <1>3 DEF Bijection, Surjection
  <1>6. \A i, j \in DOMAIN v : i < j /\ v[i][1] = v[j][1] => v[i][2] < v[j][2]
    BY DEF Visits
  <1> QED
    BY <1>2, <1>4, <1>5, <1>6

LEMMA ConnectStep ==
    ASSUME IInv, Connect
    PROVE  IInv'
  <1>1. PICK v \in Visits : batch' = [i \in DOMAIN v |-> buffer[v[i][1]][v[i][2]]]
    BY DEF Connect, Replays
  <1>2. /\ Cardinality(Entries) \in Nat /\ DOMAIN v = 1..Cardinality(Entries)
        /\ \A i \in DOMAIN v : v[i] \in Entries
        /\ \A x \in Entries : \E i \in DOMAIN v : v[i] = x
        /\ \A i, j \in DOMAIN v : i < j /\ v[i][1] = v[j][1] => v[i][2] < v[j][2]
    BY VisitsAre
  <1>3. \A i \in DOMAIN v :
            /\ v[i] = <<v[i][1], v[i][2]>>
            /\ v[i][1] \in Streams /\ v[i][2] \in DOMAIN buffer[v[i][1]]
            /\ batch'[i] = buffer[v[i][1]][v[i][2]]
    BY <1>1, <1>2, EntriesAre
  <1>4. \A s \in Streams :
            /\ buffer[s] \in Seq(Envelope) /\ numbered[s] \in Seq(Envelope)
            /\ Range(buffer[s]) \subseteq Range(numbered[s])
            /\ Range(numbered[s]) \subseteq Envelope
            /\ \A k \in DOMAIN buffer[s] :
                  buffer[s][k] \in Range(buffer[s]) /\ buffer[s][k].stream = s
    <2> SUFFICES ASSUME NEW s \in Streams
                 PROVE  /\ buffer[s] \in Seq(Envelope) /\ numbered[s] \in Seq(Envelope)
                        /\ Range(buffer[s]) \subseteq Range(numbered[s])
                        /\ Range(numbered[s]) \subseteq Envelope
                        /\ \A k \in DOMAIN buffer[s] :
                              buffer[s][k] \in Range(buffer[s]) /\ buffer[s][k].stream = s
      OBVIOUS
    <2>1. buffer[s] \in Seq(Envelope) /\ numbered[s] \in Seq(Envelope)
      BY DEF IInv, TypeOK
    <2>2. Range(numbered[s]) \subseteq Envelope
      BY <2>1, RangeIn
    <2>3. Range(buffer[s]) \subseteq Range(numbered[s])
      BY DEF IInv, BufferOK
    <2>4. \A k \in DOMAIN buffer[s] : buffer[s][k] \in Range(buffer[s])
      BY DEF Range
    <2>5. \A e \in Range(numbered[s]) : e.stream = s
      BY DEF IInv, LogOK
    <2> QED
      BY <2>1, <2>2, <2>3, <2>4, <2>5
  <1>5. batch' \in Seq(Envelope) /\ DOMAIN batch' = DOMAIN v
    <2>1. \A i \in 1..Cardinality(Entries) : buffer[v[i][1]][v[i][2]] \in Envelope
      BY <1>2, <1>3, <1>4
    <2>2. PICK n \in Nat : n = Cardinality(Entries)
      BY <1>2
    <2>3. batch' = [i \in 1..n |-> buffer[v[i][1]][v[i][2]]]
      BY <1>1, <1>2, <2>2
    <2>4. batch' \in [1..n -> Envelope]
      BY <2>1, <2>2, <2>3
    <2> QED
      BY <1>2, <2>2, <2>4
  <1>6. /\ UNCHANGED <<nextSeq, buffer, used, wire, acks, received, numbered>>
        /\ wire = <<>> /\ writer' = "replay"
    BY DEF IInv, WriterOK, Connect
  <1>7. TypeOK'
    BY <1>5 DEF IInv, TypeOK, Connect
  <1>8. ASSUME NEW s \in Streams, NEW k \in DOMAIN buffer[s]
        PROVE  \E i \in DOMAIN v : v[i] = <<s, k>> /\ batch'[i] = buffer[s][k]
    <2>1. <<s, k>> \in Entries
      BY EntriesAre
    <2>2. PICK i \in DOMAIN v : v[i] = <<s, k>>
      BY <1>2, <2>1
    <2>3. v[i][1] = s /\ v[i][2] = k
      BY <2>2
    <2> QED
      BY <1>3, <2>2, <2>3
  <1>9. WriterOK'
    <2>1. \A s \in Streams : Range(buffer[s]) \subseteq Range(batch')
      BY <1>5, <1>8 DEF Range
    <2> QED
      BY <1>6, <2>1 DEF WriterOK
  <1>10. InOrder(wire, {})'
    BY <1>6 DEF InOrder
  <1>11. InOrder(batch, Range(wire))'
    <2> SUFFICES ASSUME NEW i \in DOMAIN v
                 PROVE  /\ batch'[i] \in Range(numbered[batch'[i].stream])
                        /\ \A f \in Range(numbered[batch'[i].stream]) :
                              CursorLeq(f, batch'[i]) =>
                                \/ f \in received[batch'[i].stream]
                                \/ \E j \in 1..i : f = batch'[j]
      BY <1>5, <1>6 DEF InOrder
    <2>1. PICK s \in Streams : s = v[i][1]
      BY <1>3
    <2>2. PICK k \in DOMAIN buffer[s] : k = v[i][2]
      BY <1>3, <2>1
    <2>3. batch'[i] = buffer[s][k] /\ batch'[i].stream = s /\ batch'[i] \in Range(numbered[s])
      <3>1. batch'[i] = buffer[s][k]
        BY <1>3, <2>1, <2>2
      <3>2. buffer[s][k] \in Range(buffer[s]) /\ buffer[s][k].stream = s
        BY <1>4
      <3>3. Range(buffer[s]) \subseteq Range(numbered[s])
        BY <1>4
      <3> QED
        BY <3>1, <3>2, <3>3
    <2>4. ASSUME NEW f \in Range(numbered[s]), CursorLeq(f, batch'[i]), f \notin received[s]
          PROVE  \E j \in 1..i : f = batch'[j]
      <3>1. f \in Range(buffer[s])
        BY <2>4 DEF IInv, NothingLost
      <3>2. PICK m \in DOMAIN buffer[s] : f = buffer[s][m]
        BY <3>1 DEF Range
      <3>3. PICK j \in DOMAIN v : v[j] = <<s, m>> /\ batch'[j] = f
        BY <1>8, <3>2
      <3>4. i < j => Before(buffer[s][k], f)
        <4>1. v[j][1] = s /\ v[j][2] = m
          BY <3>3
        <4>2. i < j => k < m
          BY <1>2, <2>1, <2>2, <4>1
        <4> QED
          BY <3>2, <4>2 DEF IInv, BufferOK, Sorted
      <3>5. ~Before(buffer[s][k], f)
        <4>1. f \in Envelope /\ batch'[i] \in Envelope
          BY <1>4, <2>3
        <4>2. /\ f.seq \in Nat /\ f.seg \in Nat /\ batch'[i].seq \in Nat /\ batch'[i].seg \in Nat
          BY <4>1, Cursors
        <4> QED
          BY <2>3, <2>4, <4>2 DEF Before, CursorLeq
      <3>6. j \in 1..i
        BY <1>2, <3>4, <3>5
      <3> QED
        BY <3>3, <3>6
    <2> QED
      BY <2>3, <2>4
  <1> QED
    BY <1>6, <1>7, <1>9, <1>10, <1>11, Untouched DEF IInv, FlightOK

LEMMA SplitIs ==
    ASSUME NEW s \in Streams, NEW seq \in Nat \ {0}, NEW n \in 0..MaxSegments,
           NEW new, new = Split(s, seq, n)
    PROVE  /\ new \in Seq(Envelope) /\ Len(new) = n /\ DOMAIN new = 1..n
           /\ \A i \in 1..n :
                 /\ new[i].stream = s /\ new[i].seq = seq
                 /\ new[i].seg = i - 1 /\ new[i].count = n
  <1>1. MaxSegments \in Nat
    BY RemoteOutboundAssumption
  <1>2. n \in Nat
    BY <1>1
  <1>3. \A i \in 1..n : [stream |-> s, seq |-> seq, seg |-> i - 1, count |-> n] \in Envelope
    BY <1>2 DEF Envelope
  <1>4. new \in [1..n -> Envelope]
    BY <1>3 DEF Split
  <1>5. new \in Seq(Envelope) /\ Len(new) = n
    BY <1>2, <1>4
  <1> QED
    BY <1>4, <1>5 DEF Split

\* Appending newer envelopes to a sorted list keeps it sorted.
LEMMA SortedConcat ==
    ASSUME NEW q \in Seq(Envelope), NEW r \in Seq(Envelope), Sorted(q), Sorted(r),
           \A i \in DOMAIN q, j \in DOMAIN r : Before(q[i], r[j])
    PROVE  Sorted(q \o r)
  <1> SUFFICES ASSUME NEW i \in DOMAIN (q \o r), NEW j \in DOMAIN (q \o r), i < j
               PROVE  Before((q \o r)[i], (q \o r)[j])
    BY DEF Sorted
  <1>1. /\ q \o r \in Seq(Envelope) /\ DOMAIN q = 1..Len(q) /\ Len(q) \in Nat
        /\ DOMAIN r = 1..Len(r) /\ Len(r) \in Nat /\ DOMAIN (q \o r) = 1..Len(q \o r)
        /\ Len(q \o r) = Len(q) + Len(r)
    BY ConcatRange, RangeIn
  <1>2. /\ \/ i \in DOMAIN q /\ (q \o r)[i] = q[i]
           \/ i - Len(q) \in DOMAIN r /\ (q \o r)[i] = r[i - Len(q)]
        /\ \/ j \in DOMAIN q /\ (q \o r)[j] = q[j]
           \/ j - Len(q) \in DOMAIN r /\ (q \o r)[j] = r[j - Len(q)]
    BY ConcatRange
  <1>3. CASE j \in DOMAIN q /\ (q \o r)[j] = q[j]
    <2>1. i \in DOMAIN q
      BY <1>1, <1>3
    <2>2. (q \o r)[i] = q[i]
      BY <2>1, ConcatRange
    <2> QED
      BY <1>3, <2>1, <2>2 DEF Sorted
  <1>4. CASE j - Len(q) \in DOMAIN r /\ (q \o r)[j] = r[j - Len(q)]
    <2>1. CASE i \in DOMAIN q /\ (q \o r)[i] = q[i]
      BY <1>4, <2>1
    <2>2. CASE i - Len(q) \in DOMAIN r /\ (q \o r)[i] = r[i - Len(q)]
      <3>1. i - Len(q) < j - Len(q)
        BY <1>1
      <3> QED
        BY <1>4, <2>2, <3>1 DEF Sorted
    <2> QED
      BY <1>2, <2>1, <2>2
  <1> QED
    BY <1>2, <1>3, <1>4

LEMMA TakeStep ==
    ASSUME IInv, NEW n \in 0..MaxSegments, Take(n)
    PROVE  IInv'
  <1>1. queue \in Seq(Streams) /\ queue # <<>>
    BY DEF IInv, TypeOK, Take
  <1>2. PICK s \in Streams : s = Head(queue)
    BY <1>1, TailRange
  <1>3. PICK seq \in Nat \ {0} : seq = nextSeq[s]
    BY DEF IInv, TypeOK
  <1>4. PICK new : new = Split(s, seq, n)
    OBVIOUS
  <1>5. /\ writer = "idle" /\ used < Capacity
        /\ nextSeq' = [nextSeq EXCEPT ![s] = @ + 1]
        /\ buffer' = [buffer EXCEPT ![s] = @ \o new]
        /\ used' = used + Len(new)
        /\ numbered' = [numbered EXCEPT ![s] = @ \o new]
        /\ batch' = new /\ queue' = Tail(queue) /\ writer' = "send"
        /\ UNCHANGED <<written, wire, acks, received, breaks>>
    <2> DEFINE env == Split(Head(queue), nextSeq[Head(queue)], n)
    <2>1. /\ writer = "idle" /\ used < Capacity
          /\ nextSeq' = [nextSeq EXCEPT ![Head(queue)] = @ + 1]
          /\ Insert(Head(queue), env)
          /\ numbered' = [numbered EXCEPT ![Head(queue)] = @ \o env]
          /\ batch' = env /\ queue' = Tail(queue) /\ writer' = "send"
          /\ UNCHANGED <<written, wire, acks, received, breaks>>
      BY DEF Take, HasCapacity
    <2>2. env = new
      BY <1>2, <1>3, <1>4
    <2>3. Insert(s, new)
      BY <1>2, <2>1, <2>2
    <2> HIDE DEF env
    <2> QED
      BY <1>2, <2>1, <2>2, <2>3 DEF Insert
  <1>6. /\ new \in Seq(Envelope) /\ Len(new) = n /\ DOMAIN new = 1..n
        /\ \A i \in 1..n : new[i].stream = s /\ new[i].seq = seq
                           /\ new[i].seg = i - 1 /\ new[i].count = n
    BY <1>4, SplitIs
  <1>7. /\ n \in Nat /\ n <= MaxSegments /\ MaxSegments \in Nat /\ Capacity \in Nat
        /\ used \in Nat
    BY RemoteOutboundAssumption DEF IInv, TypeOK
  <1>8. /\ buffer[s] \in Seq(Envelope) /\ numbered[s] \in Seq(Envelope)
        /\ buffer'[s] = buffer[s] \o new /\ numbered'[s] = numbered[s] \o new
        /\ nextSeq'[s] = seq + 1
    BY <1>3, <1>5 DEF IInv, TypeOK
  <1>9. \A r \in Streams \ {s} :
            buffer'[r] = buffer[r] /\ numbered'[r] = numbered[r] /\ nextSeq'[r] = nextSeq[r]
    BY <1>5 DEF IInv, TypeOK
  <1>10. /\ buffer'[s] \in Seq(Envelope) /\ Len(buffer'[s]) = Len(buffer[s]) + n
         /\ numbered'[s] \in Seq(Envelope)
         /\ Range(buffer'[s]) = Range(buffer[s]) \union Range(new)
         /\ Range(numbered'[s]) = Range(numbered[s]) \union Range(new)
    <2>1. /\ buffer[s] \o new \in Seq(Envelope)
          /\ Range(buffer[s] \o new) = Range(buffer[s]) \union Range(new)
      BY <1>6, <1>8, ConcatRange
    <2>2. /\ numbered[s] \o new \in Seq(Envelope)
          /\ Range(numbered[s] \o new) = Range(numbered[s]) \union Range(new)
      BY <1>6, <1>8, ConcatRange
    <2>3. Len(buffer[s] \o new) = Len(buffer[s]) + Len(new)
      <3>1. PICK old \in Seq(Envelope) : old = buffer[s]
        BY <1>8
      <3>2. new \in Seq(Envelope)
        BY <1>6
      <3>3. Len(old \o new) = Len(old) + Len(new)
        BY <3>2
      <3> QED
        BY <3>1, <3>3
    <2> QED
      BY <1>6, <1>8, <2>1, <2>2, <2>3
  <1>11. TypeOK'
    <2>1. queue' \in Seq(Streams) /\ Len(queue') <= Capacity
      <3>1. queue' \in Seq(Streams) /\ Len(queue') = Len(queue) - 1 /\ Len(queue) \in Nat
        BY <1>1, <1>5, TailRange
      <3>2. Len(queue) <= Capacity
        BY DEF IInv, TypeOK
      <3> QED
        BY <1>7, <3>1, <3>2
    <2>2. nextSeq' \in [Streams -> Nat \ {0}]
      <3>1. seq + 1 \in Nat \ {0}
        OBVIOUS
      <3> QED
        BY <1>3, <1>5, <3>1 DEF IInv, TypeOK
    <2>3. buffer' \in [Streams -> Seq(Envelope)] /\ numbered' \in [Streams -> Seq(Envelope)]
      BY <1>5, <1>8, <1>10 DEF IInv, TypeOK
    <2>4. used' \in Nat
      BY <1>5, <1>6, <1>7
    <2> QED
      BY <1>5, <1>6, <2>1, <2>2, <2>3, <2>4 DEF IInv, TypeOK
  <1>12. /\ \A e \in Range(numbered[s]) : e.seq < seq /\ e.seq \in Nat
         /\ \A e \in Range(new) : e \in Envelope /\ e.stream = s /\ e.seq = seq
                                  /\ e.seg < e.count /\ e.count = n
    <2>1. \A e \in Range(numbered[s]) : e.seq < seq
      BY <1>3 DEF IInv, LogOK
    <2>2. Range(numbered[s]) \subseteq Envelope /\ Range(new) \subseteq Envelope
      BY <1>6, <1>8, RangeIn
    <2>3. \A i \in 1..n : i - 1 < n
      BY <1>7
    <2>4. \A e \in Range(new) : e.stream = s /\ e.seq = seq /\ e.seg < e.count /\ e.count = n
      BY <1>6, <2>3 DEF Range
    <2> QED
      BY <2>1, <2>2, <2>4, Cursors
  <1>13. Sorted(new)
    BY <1>6, <1>7 DEF Sorted, Before
  <1>14. LogOK'
    <2> SUFFICES ASSUME NEW r \in Streams
                 PROVE  /\ \A e \in Range(numbered'[r]) :
                              e.stream = r /\ e.seq < nextSeq'[r] /\ e.seg < e.count
                              /\ e.count <= MaxSegments
                        /\ Sorted(numbered'[r])
                        /\ \A e, f \in Range(numbered'[r]) : e.seq = f.seq => e.count = f.count
      BY DEF LogOK, Sorted
    <2>1. /\ \A e \in Range(numbered[r]) :
                e.stream = r /\ e.seq < nextSeq[r] /\ e.seg < e.count /\ e.count <= MaxSegments
          /\ Sorted(numbered[r])
          /\ \A e, f \in Range(numbered[r]) : e.seq = f.seq => e.count = f.count
      BY DEF IInv, LogOK
    <2>2. CASE r # s
      BY <1>9, <2>1, <2>2
    <2>3. CASE r = s
      <3>1. Sorted(numbered'[r])
        <4>1. \A i \in DOMAIN numbered[s], j \in DOMAIN new : Before(numbered[s][i], new[j])
          BY <1>12 DEF Before, Range
        <4> QED
          BY <1>6, <1>8, <1>13, <2>1, <2>3, <4>1, SortedConcat
      <3>2. \A e \in Range(numbered'[r]) :
                e.stream = r /\ e.seq < nextSeq'[r] /\ e.seg < e.count /\ e.count <= MaxSegments
        <4>1. \A e \in Range(numbered[s]) : e.seq < seq + 1
          BY <1>12
        <4>2. seq < seq + 1
          OBVIOUS
        <4> QED
          BY <1>7, <1>8, <1>10, <1>12, <2>1, <2>3, <4>1, <4>2
      <3>3. \A e, f \in Range(numbered'[r]) : e.seq = f.seq => e.count = f.count
        BY <1>10, <1>12, <2>1, <2>3
      <3> QED
        BY <3>1, <3>2, <3>3
    <2> QED
      BY <2>2, <2>3
  <1>15. BufferOK'
    <2> SUFFICES ASSUME NEW r \in Streams
                 PROVE  Sorted(buffer'[r]) /\ Range(buffer'[r]) \subseteq Range(numbered'[r])
      BY DEF BufferOK, Sorted
    <2>1. Sorted(buffer[r]) /\ Range(buffer[r]) \subseteq Range(numbered[r])
      BY DEF IInv, BufferOK
    <2>2. CASE r # s
      BY <1>9, <2>1, <2>2
    <2>3. CASE r = s
      <3>1. \A i \in DOMAIN buffer[s], j \in DOMAIN new : Before(buffer[s][i], new[j])
        BY <1>12, <2>1, <2>3 DEF Before, Range
      <3> QED
        BY <1>6, <1>8, <1>10, <1>13, <2>1, <2>3, <3>1, SortedConcat
    <2> QED
      BY <2>2, <2>3
  <1>16. ReceivedOK'
    <2> SUFFICES ASSUME NEW r \in Streams
                 PROVE  /\ received[r] \subseteq Range(numbered'[r])
                        /\ \A e \in received[r], f \in Range(numbered'[r]) :
                              CursorLeq(f, e) => f \in received[r]
      BY <1>5 DEF ReceivedOK
    <2>1. /\ received[r] \subseteq Range(numbered[r])
          /\ \A e \in received[r], f \in Range(numbered[r]) : CursorLeq(f, e) => f \in received[r]
      BY DEF IInv, ReceivedOK
    <2>2. CASE r # s
      BY <1>9, <2>1, <2>2
    <2>3. CASE r = s
      <3>1. \A e \in received[s], f \in Range(new) : ~CursorLeq(f, e)
        BY <1>12, <2>1, <2>3 DEF CursorLeq
      <3> QED
        BY <1>10, <2>1, <2>3, <3>1
    <2> QED
      BY <2>2, <2>3
  <1>17. NothingLost'
    <2> SUFFICES ASSUME NEW r \in Streams
                 PROVE  Range(numbered'[r]) \ received[r] \subseteq Range(buffer'[r])
      BY <1>5 DEF NothingLost
    <2>1. Range(numbered[r]) \ received[r] \subseteq Range(buffer[r])
      BY DEF IInv, NothingLost
    <2>2. CASE r # s
      BY <1>9, <2>1, <2>2
    <2>3. CASE r = s
      BY <1>10, <2>1, <2>3
    <2> QED
      BY <2>2, <2>3
  <1>18. AcksOK'
    <2> SUFFICES ASSUME NEW i \in DOMAIN acks
                 PROVE  /\ acks[i].seq < nextSeq'[acks[i].stream]
                        /\ \A f \in Range(numbered'[acks[i].stream]) :
                              CursorLeq(f, acks[i]) => f \in received[acks[i].stream]
      BY <1>5 DEF AcksOK
    <2>1. acks[i].stream \in Streams /\ acks[i].seq \in Nat
      <3>1. acks \in Seq(Ack)
        BY DEF IInv, TypeOK
      <3> QED
        BY <3>1, RangeIn, Cursors
    <2>2. /\ acks[i].seq < nextSeq[acks[i].stream]
          /\ \A f \in Range(numbered[acks[i].stream]) :
                CursorLeq(f, acks[i]) => f \in received[acks[i].stream]
      BY DEF IInv, AcksOK
    <2>3. CASE acks[i].stream # s
      BY <1>9, <2>1, <2>2, <2>3
    <2>4. CASE acks[i].stream = s
      <3>1. acks[i].seq < seq
        BY <1>3, <2>2, <2>4
      <3>2. \A f \in Range(new) : ~CursorLeq(f, acks[i])
        BY <1>12, <2>1, <3>1 DEF CursorLeq
      <3>3. acks[i].seq < nextSeq'[s]
        BY <1>8, <2>1, <3>1
      <3> QED
        BY <1>10, <2>2, <2>4, <3>2, <3>3
    <2> QED
      BY <2>3, <2>4
  <1>19. UsedOK'
    <2>1. IsFiniteSet(Entries) /\ Cardinality(Entries) = used
      BY DEF IInv, UsedOK, BufferBound
    <2>2. PICK len \in Nat : len = Len(buffer[s])
      BY <1>8
    <2>3. PICK longer \in Nat : longer = Len(buffer'[s]) /\ longer = len + n
      BY <1>7, <1>10, <2>2
    <2>4. len <= longer /\ longer - len = n
      BY <1>7, <2>3
    <2>5. buffer' = [buffer EXCEPT ![s] = buffer'[s]]
      BY <1>5, <1>8
    <2>6. /\ Entries' = Entries \union ({s} \X ((len + 1)..longer))
          /\ Entries \intersect ({s} \X ((len + 1)..longer)) = {}
      <3>1. PICK full \in Seq(Envelope) : full = buffer'[s]
        BY <1>10
      <3>2. buffer' = [buffer EXCEPT ![s] = full] /\ Len(full) = longer /\ Len(buffer[s]) = len
        BY <2>2, <2>3, <2>5, <3>1
      <3>3. Len(buffer[s]) <= Len(full)
        BY <2>4, <3>2
      <3>4. TypeOK
        BY DEF IInv
      <3> QED
        BY <3>2, <3>3, <3>4, EntriesGrow
    <2>7. IsFiniteSet(Entries') /\ Cardinality(Entries') = used + n
      <3>1. PICK R : R = {s} \X ((len + 1)..longer)
        OBVIOUS
      <3>2. Entries' = Entries \union R /\ Entries \intersect R = {}
        BY <2>6, <3>1
      <3>3. IsFiniteSet(R) /\ Cardinality(R) = n
        <4>1. /\ IsFiniteSet({s} \X ((len + 1)..longer))
              /\ Cardinality({s} \X ((len + 1)..longer)) = longer - len
          BY <2>4, RowSize
        <4> QED
          BY <2>4, <3>1, <4>1
      <3>4. IsFiniteSet(Entries \union R) /\ Cardinality(Entries \union R) = used + n
        <4>1. /\ IsFiniteSet(Entries \union R)
              /\ Cardinality(Entries \union R) = Cardinality(Entries) + Cardinality(R)
          BY <2>1, <3>2, <3>3, DisjointSize, Zenon
        <4> QED
          BY <2>1, <3>3, <4>1
      <3> QED
        BY <3>2, <3>4
    <2>8. used' = used + n /\ used' <= Capacity - 1 + MaxSegments
      BY <1>5, <1>6, <1>7
    <2> QED
      BY <2>4, <2>7, <2>8 DEF UsedOK, BufferBound
  <1>20. WriterOK'
    <2>1. batch = <<>>
      BY <1>5 DEF IInv, WriterOK
    <2>2. \A r \in Streams : Range(buffer[r]) \subseteq received[r] \union Range(wire)
      <3>1. Range(<<>>) = {}
        BY DEF Range
      <3> QED
        BY <1>5, <2>1, <3>1 DEF IInv, WriterOK
    <2>3. ASSUME NEW r \in Streams
          PROVE  Range(buffer'[r]) \subseteq received[r] \union Range(wire) \union Range(new)
      BY <1>9, <1>10, <2>2
    <2> QED
      BY <1>5, <2>3 DEF WriterOK
  <1>21. InOrder(wire, {})'
    <2> SUFFICES ASSUME NEW i \in DOMAIN wire
                 PROVE  /\ wire[i] \in Range(numbered'[wire[i].stream])
                        /\ \A f \in Range(numbered'[wire[i].stream]) :
                              CursorLeq(f, wire[i]) =>
                                \/ f \in received[wire[i].stream]
                                \/ \E j \in 1..i : f = wire[j]
      BY <1>5 DEF InOrder
    <2>1. PICK r \in Streams : r = wire[i].stream
      <3>1. wire \in Seq(Envelope)
        BY DEF IInv, TypeOK
      <3> QED
        BY <3>1, RangeIn, Cursors
    <2>2. /\ wire[i] \in Range(numbered[r])
          /\ \A f \in Range(numbered[r]) : CursorLeq(f, wire[i]) =>
                f \in received[r] \/ \E j \in 1..i : f = wire[j]
      BY <2>1 DEF IInv, FlightOK, InOrder
    <2>3. CASE r # s
      BY <1>9, <2>1, <2>2, <2>3
    <2>4. CASE r = s
      <3>1. \A f \in Range(new) : ~CursorLeq(f, wire[i])
        BY <1>12, <2>2, <2>4 DEF CursorLeq
      <3> QED
        BY <1>10, <2>1, <2>2, <2>4, <3>1
    <2> QED
      BY <2>3, <2>4
  <1>22. InOrder(batch, Range(wire))'
    <2> SUFFICES ASSUME NEW i \in 1..n
                 PROVE  /\ new[i] \in Range(numbered'[new[i].stream])
                        /\ \A f \in Range(numbered'[new[i].stream]) :
                              CursorLeq(f, new[i]) =>
                                \/ f \in received[new[i].stream] \/ f \in Range(wire)
                                \/ \E j \in 1..i : f = new[j]
      BY <1>5, <1>6 DEF InOrder
    <2>1. new[i].stream = s /\ new[i] \in Range(new)
      BY <1>6 DEF Range
    <2>2. Range(buffer[s]) \subseteq received[s] \union Range(wire)
      <3>1. Range(<<>>) = {}
        BY DEF Range
      <3>2. batch = <<>>
        BY <1>5 DEF IInv, WriterOK
      <3> QED
        BY <1>5, <3>1, <3>2 DEF IInv, WriterOK
    <2>3. Range(numbered[s]) \subseteq received[s] \union Range(wire)
      BY <2>2 DEF IInv, NothingLost
    <2>4. ASSUME NEW f \in Range(new), CursorLeq(f, new[i]) PROVE \E j \in 1..i : f = new[j]
      <3>1. PICK j \in 1..n : f = new[j]
        BY <1>6 DEF Range
      <3>2. j - 1 <= i - 1
        BY <1>6, <2>4, <3>1 DEF CursorLeq
      <3>3. j \in 1..i
        BY <1>7, <3>2
      <3> QED
        BY <3>1, <3>3
    <2> QED
      BY <1>10, <2>1, <2>3, <2>4
  <1> QED
    BY <1>11, <1>14, <1>15, <1>16, <1>17, <1>18, <1>19, <1>20, <1>21, <1>22 DEF IInv, FlightOK

LEMMA ReadAckStep ==
    ASSUME IInv, ReadAck
    PROVE  IInv'
  <1>1. acks \in Seq(Ack) /\ acks # <<>> /\ acks' = Tail(acks)
    BY DEF IInv, TypeOK, ReadAck
  <1>2. PICK ack \in Ack : ack = Head(acks)
    BY <1>1, TailRange
  <1>3. /\ acks' \in Seq(Ack) /\ ack = acks[1] /\ Len(acks) \in Nat \ {0}
        /\ DOMAIN acks = 1..Len(acks) /\ DOMAIN acks' = 1..(Len(acks) - 1)
        /\ Len(acks') = Len(acks) - 1 /\ \A i \in DOMAIN acks' : acks'[i] = acks[i + 1]
    BY <1>1, <1>2, TailRange
  <1>4. PICK s \in Streams : s = ack.stream
    BY Cursors
  <1>5. PICK old \in Seq(Envelope) : old = buffer[s]
    BY DEF IInv, TypeOK
  <1>6. PICK keep : keep = {i \in DOMAIN old : ~CursorLeq(old[i], ack)}
    OBVIOUS
  <1>7. PICK kept : kept = Retain(old, keep)
    OBVIOUS
  <1>8. /\ buffer' = [buffer EXCEPT ![s] = kept]
        /\ used' = used - Cardinality(DOMAIN old \ keep)
        /\ writer # "down"
        /\ UNCHANGED <<queue, written, nextSeq, writer, batch, wire, received, numbered, breaks>>
    <2>1. AckBuffer(ack)
      BY <1>2 DEF ReadAck
    <2> QED
      BY <2>1, <1>4, <1>5, <1>6, <1>7 DEF AckBuffer, ReadAck
  <1>9. Sorted(old) /\ Range(old) \subseteq Range(numbered[s])
    BY <1>5 DEF IInv, BufferOK
  <1>10. PICK m \in 0..Len(old) : keep = (m + 1)..Len(old)
    BY <1>6, <1>9, AckedPrefix
  <1>11. /\ kept \in Seq(Envelope) /\ Len(kept) = Len(old) - m
         /\ \A j \in 1..(Len(old) - m) : kept[j] = old[m + j]
    BY <1>7, <1>10, RetainSuffix
  <1>12. /\ Len(old) \in Nat /\ DOMAIN old = 1..Len(old) /\ m \in Nat /\ m <= Len(old)
         /\ DOMAIN kept = 1..(Len(old) - m)
    BY <1>11, RangeIn
  <1>13. buffer'[s] = kept /\ \A r \in Streams \ {s} : buffer'[r] = buffer[r]
    BY <1>8 DEF IInv, TypeOK
  <1>14. Range(kept) \subseteq Range(old)
    <2>1. \A j \in DOMAIN kept : m + j \in DOMAIN old
      BY <1>12
    <2> QED
      BY <1>11, <1>12, <2>1 DEF Range
  <1>15. \A f \in Range(old) : ~CursorLeq(f, ack) => f \in Range(kept)
    <2> SUFFICES ASSUME NEW i \in DOMAIN old, ~CursorLeq(old[i], ack) PROVE old[i] \in Range(kept)
      BY DEF Range
    <2>1. i \in keep
      BY <1>6
    <2>2. i - m \in DOMAIN kept /\ m + (i - m) = i
      BY <1>10, <1>12, <2>1
    <2> QED
      BY <1>11, <1>12, <2>2 DEF Range
  <1>16. \A f \in Range(numbered[s]) : CursorLeq(f, ack) => f \in received[s]
    <2>1. 1 \in DOMAIN acks
      BY <1>3
    <2> QED
      BY <1>3, <1>4, <2>1 DEF IInv, AcksOK
  <1>17. used' = used - m /\ used - m \in Nat /\ IsFiniteSet(Entries') /\ Cardinality(Entries') = used'
    <2>1. Cardinality(DOMAIN old \ keep) = m
      <3>1. DOMAIN old \ keep = 1..m
        BY <1>10, <1>12
      <3> QED
        BY <1>12, <3>1, SegmentSize
    <2>2. PICK len \in Nat : len = Len(old)
      BY <1>12
    <2>3. PICK short \in Nat : short = Len(kept) /\ short = len - m
      <3>1. Len(kept) = len - m
        BY <1>11, <2>2
      <3>2. len - m \in Nat
        BY <1>12, <2>2
      <3> QED
        BY <3>1, <3>2
    <2>4. short <= len /\ len - short = m
      BY <1>12, <2>2, <2>3
    <2>5. PICK R : R = {s} \X ((short + 1)..len)
      OBVIOUS
    <2>6. Entries = Entries' \union R /\ Entries' \intersect R = {}
      <3>1. /\ TypeOK /\ Len(buffer[s]) = len /\ Len(kept) = short /\ kept \in Seq(Envelope)
            /\ Len(kept) <= Len(buffer[s]) /\ buffer' = [buffer EXCEPT ![s] = kept]
        BY <1>5, <1>8, <1>11, <2>2, <2>3, <2>4 DEF IInv
      <3>2. /\ Entries = Entries' \union ({s} \X ((Len(kept) + 1)..Len(buffer[s])))
            /\ Entries' \intersect ({s} \X ((Len(kept) + 1)..Len(buffer[s]))) = {}
        BY <3>1, EntriesShrink
      <3> QED
        BY <2>5, <3>1, <3>2
    <2>7. IsFiniteSet(R) /\ Cardinality(R) = m
      <3>1. /\ IsFiniteSet({s} \X ((short + 1)..len))
            /\ Cardinality({s} \X ((short + 1)..len)) = len - short
        BY <2>4, RowSize
      <3> QED
        BY <2>4, <2>5, <3>1
    <2>8. IsFiniteSet(Entries) /\ Cardinality(Entries) = used /\ used \in Nat
      BY DEF IInv, UsedOK, BufferBound, TypeOK
    <2>9. IsFiniteSet(Entries')
      <3>1. Entries' \subseteq Entries
        BY <2>6
      <3> QED
        BY <2>8, <3>1, FS_Subset
    <2>10. Cardinality(Entries) = Cardinality(Entries') + Cardinality(R)
      BY <2>6, <2>7, <2>9, DisjointSize, Zenon
    <2>11. Cardinality(Entries') \in Nat
      BY <2>9, FS_CardinalityType
    <2>12. \A a, b, c \in Nat : a = b + c => a - c = b
      OBVIOUS
    <2>13. used - m = Cardinality(Entries')
      BY <1>12, <2>7, <2>8, <2>10, <2>11, <2>12
    <2> QED
      BY <1>8, <2>1, <2>9, <2>11, <2>13
  <1>18. UsedOK'
    <2>1. used \in Nat /\ used <= Capacity - 1 + MaxSegments
      BY DEF IInv, UsedOK, BufferBound, TypeOK
    <2>2. used' <= Capacity - 1 + MaxSegments
      BY <1>12, <1>17, <2>1, RemoteOutboundAssumption
    <2> QED
      BY <1>17, <2>2 DEF UsedOK, BufferBound
  <1>19. TypeOK'
    <2>1. buffer' \in [Streams -> Seq(Envelope)]
      BY <1>8, <1>11 DEF IInv, TypeOK
    <2>2. used' \in Nat
      BY <1>17
    <2>3. Len(acks') <= MaxAcks
      BY <1>3, RemoteOutboundAssumption DEF IInv, TypeOK
    <2> QED
      BY <1>3, <1>8, <2>1, <2>2, <2>3 DEF IInv, TypeOK
  <1>20. LogOK' /\ ReceivedOK'
    BY <1>8 DEF IInv, LogOK, ReceivedOK, Sorted
  <1>21. BufferOK'
    <2> SUFFICES ASSUME NEW r \in Streams
                 PROVE  Sorted(buffer'[r]) /\ Range(buffer'[r]) \subseteq Range(numbered[r])
      BY <1>8 DEF BufferOK, Sorted
    <2>1. CASE r # s
      BY <1>13, <2>1 DEF IInv, BufferOK
    <2>2. CASE r = s
      <3>1. Sorted(kept)
        <4> SUFFICES ASSUME NEW i \in DOMAIN kept, NEW j \in DOMAIN kept, i < j
                     PROVE  Before(kept[i], kept[j])
          BY DEF Sorted
        <4>1. m + i \in DOMAIN old /\ m + j \in DOMAIN old /\ m + i < m + j
          BY <1>12
        <4>2. kept[i] = old[m + i] /\ kept[j] = old[m + j]
          BY <1>11, <1>12
        <4> QED
          BY <1>9, <4>1, <4>2 DEF Sorted
      <3> QED
        BY <1>9, <1>13, <1>14, <2>2, <3>1
    <2> QED
      BY <2>1, <2>2
  <1>22. FlightOK'
    BY <1>8 DEF IInv, FlightOK, InOrder
  <1>23. NothingLost'
    <2> SUFFICES ASSUME NEW r \in Streams
                 PROVE  Range(numbered[r]) \ received[r] \subseteq Range(buffer'[r])
      BY <1>8 DEF NothingLost
    <2>1. Range(numbered[r]) \ received[r] \subseteq Range(buffer[r])
      BY DEF IInv, NothingLost
    <2>2. CASE r # s
      BY <1>13, <2>1, <2>2
    <2>3. CASE r = s
      BY <1>5, <1>13, <1>15, <1>16, <2>1, <2>3
    <2> QED
      BY <2>2, <2>3
  <1>24. WriterOK'
    <2>1. \A r \in Streams : Range(buffer'[r]) \subseteq Range(buffer[r])
      BY <1>5, <1>13, <1>14
    <2> QED
      BY <1>8, <2>1 DEF IInv, WriterOK
  <1>25. AcksOK'
    <2> SUFFICES ASSUME NEW i \in DOMAIN acks'
                 PROVE  /\ acks'[i].seq < nextSeq[acks'[i].stream]
                        /\ \A f \in Range(numbered[acks'[i].stream]) :
                              CursorLeq(f, acks'[i]) => f \in received[acks'[i].stream]
      BY <1>8 DEF AcksOK
    <2>1. i + 1 \in DOMAIN acks /\ acks'[i] = acks[i + 1]
      BY <1>3
    <2> QED
      BY <2>1 DEF IInv, AcksOK
  <1> QED
    BY <1>18, <1>19, <1>20, <1>21, <1>22, <1>23, <1>24, <1>25 DEF IInv

LEMMA StutterStep ==
    ASSUME IInv, UNCHANGED vars
    PROVE  IInv'
  <1>1. TypeOK' /\ WriterOK'
    BY DEF IInv, TypeOK, WriterOK, vars
  <1> QED
    BY <1>1, Untouched DEF IInv, vars

LEMMA NextIInv == IInv /\ [Next]_vars => IInv'
  <1> SUFFICES ASSUME IInv, [Next]_vars PROVE IInv'
    OBVIOUS
  <1>1. ASSUME NEW s \in Streams, Write(s) PROVE IInv'
    BY <1>1, WriteStep
  <1>2. CASE Connect
    BY <1>2, ConnectStep
  <1>3. CASE Break
    BY <1>3, BreakStep
  <1>4. CASE Send
    BY <1>4, SendStep
  <1>5. CASE Sent
    BY <1>5, SentStep
  <1>6. ASSUME NEW n \in 0..MaxSegments, Take(n) PROVE IInv'
    BY <1>6, TakeStep
  <1>7. CASE TakeUnserializable
    BY <1>7, TakeUnserializableStep
  <1>8. CASE ReadAck
    BY <1>8, ReadAckStep
  <1>9. CASE Receive
    BY <1>9, ReceiveStep
  <1>10. ASSUME NEW e \in UNION {received[s] : s \in Streams}, Acknowledge(e) PROVE IInv'
    <2>1. PICK s \in Streams : e \in received[s]
      OBVIOUS
    <2> QED
      BY <1>10, <2>1, AcknowledgeStep
  <1>11. CASE UNCHANGED vars
    BY <1>11, StutterStep
  <1> QED
    BY <1>1, <1>2, <1>3, <1>4, <1>5, <1>6, <1>7, <1>8, <1>9, <1>10, <1>11 DEF Next

LEMMA Invariance == Spec => []IInv
  <1>1. Init => IInv
    BY InitIInv
  <1>2. IInv /\ [Next]_vars => IInv'
    BY NextIInv
  <1> QED
    BY <1>1, <1>2, PTL DEF Spec

-----------------------------------------------------------------------------
(* What follows *)

\* The channel and the acknowledgements in flight keep to their bounds and
\* every list holds envelopes of known streams, whatever breaks when.
THEOREM TypeCorrect == Spec => []TypeOK
  <1>1. IInv => TypeOK
    BY DEF IInv
  <1> QED
    BY <1>1, Invariance, PTL

\* For any number of streams, messages, broken connections and repeated or
\* late acknowledgements, the outbound buffer holds every envelope that the
\* backend does not have.
THEOREM NeverLost == Spec => []NothingLost
  <1>1. IInv => NothingLost
    BY DEF IInv
  <1> QED
    BY <1>1, Invariance, PTL

\* The usage counter is the size of the buffer, which exceeds the capacity by
\* less than the segments of one message.
THEOREM BoundedBuffer == Spec => []BufferBound
  <1>1. IInv => BufferBound
    BY DEF IInv, UsedOK
  <1> QED
    BY <1>1, Invariance, PTL

-----------------------------------------------------------------------------
(* The transport implements reliable streams: its steps *)

\* What a sorted log has below an index has as many elements as the index says.
LEMMA PrefixSize ==
    ASSUME NEW q \in Seq(Envelope), Sorted(q), NEW k \in 0..Len(q), NEW S,
           S = {q[i] : i \in 1..k}
    PROVE  IsFiniteSet(S) /\ Cardinality(S) = k
  <1>1. k \in Nat /\ 1..k \subseteq DOMAIN q
    BY RangeIn
  <1>2. PICK f : f = [i \in 1..k |-> q[i]]
    OBVIOUS
  <1>3. \A i, j \in 1..k : i < j => q[i] # q[j]
    <2> SUFFICES ASSUME NEW i \in 1..k, NEW j \in 1..k, i < j, q[i] = q[j] PROVE FALSE
      OBVIOUS
    <2>1. i \in DOMAIN q /\ j \in DOMAIN q
      BY <1>1
    <2>2. Before(q[i], q[i])
      BY <2>1 DEF Sorted
    <2>3. q[i] \in Envelope
      BY <2>1, RangeIn
    <2>4. q[i].seq \in Nat /\ q[i].seg \in Nat
      BY <2>3, Cursors
    <2> QED
      BY <2>2, <2>4 DEF Before
  <1>4. \A i, j \in 1..k : q[i] = q[j] => i = j
    BY <1>1, <1>3
  <1>5. f \in Bijection(1..k, S)
    <2>1. f \in [1..k -> S]
      BY <1>2
    <2>2. f \in Injection(1..k, S)
      <3>1. \A i \in 1..k : f[i] = q[i]
        BY <1>2
      <3>2. \A i, j \in 1..k : f[i] = f[j] => i = j
        BY <1>4, <3>1
      <3> QED
        BY <2>1, <3>2 DEF Injection, IsInjective
    <2>3. f \in Surjection(1..k, S)
      BY <1>2, <2>1 DEF Surjection
    <2> QED
      BY <2>2, <2>3 DEF Bijection
  <1>6. ExistsBijection(1..k, S)
    BY <1>5 DEF ExistsBijection
  <1>7. IsFiniteSet(1..k) /\ Cardinality(1..k) = k
    BY <1>1, SegmentSize
  <1>8. IsFiniteSet(S) /\ Cardinality(S) = Cardinality(1..k)
    BY <1>6, <1>7, FS_Bijection
  <1> QED
    BY <1>7, <1>8

\* The backend has an initial part of the log.
LEMMA PrefixReceived ==
    ASSUME IInv, NEW s \in Streams
    PROVE  \E k \in 0..Len(numbered[s]) : received[s] = {numbered[s][i] : i \in 1..k}
  <1>1. PICK q \in Seq(Envelope) : q = numbered[s]
    BY DEF IInv, TypeOK
  <1>2. DOMAIN q = 1..Len(q) /\ Len(q) \in Nat /\ \A i \in DOMAIN q : q[i] \in Envelope
    BY RangeIn
  <1>3. Sorted(q)
    BY <1>1 DEF IInv, LogOK
  <1>4. /\ received[s] \subseteq Range(q)
        /\ \A e \in received[s], f \in Range(q) : CursorLeq(f, e) => f \in received[s]
    BY <1>1 DEF IInv, ReceivedOK
  <1> DEFINE missing == {i \in DOMAIN q : q[i] \notin received[s]}
  <1>5. CASE missing = {}
    <2>1. received[s] = {q[i] : i \in 1..Len(q)}
      BY <1>2, <1>4, <1>5 DEF Range
    <2>2. Len(q) \in 0..Len(q)
      BY <1>2
    <2> QED
      BY <1>1, <2>1, <2>2
  <1>6. CASE missing # {}
    <2>1. missing \in SUBSET Nat
      BY <1>2
    <2>2. PICK m \in missing : \A x \in missing : m <= x
      BY <1>6, <2>1, Least
    <2>3. \A i \in DOMAIN q : i < m => q[i] \in received[s]
      BY <1>2, <2>2
    <2>4. ASSUME NEW i \in DOMAIN q, m <= i PROVE q[i] \notin received[s]
      <3>1. m \in DOMAIN q /\ q[m] \notin received[s] /\ q[m] \in Range(q)
        BY DEF Range
      <3>2. CASE i = m
        BY <3>1, <3>2
      <3>3. CASE i # m
        <4>1. m < i
          BY <1>2, <2>4, <3>1, <3>3
        <4>2. Before(q[m], q[i])
          BY <1>3, <3>1, <4>1 DEF Sorted
        <4>3. /\ q[m].seq \in Nat /\ q[m].seg \in Nat /\ q[i].seq \in Nat /\ q[i].seg \in Nat
          BY <1>2, <3>1, Cursors
        <4>4. CursorLeq(q[m], q[i])
          BY <4>2, <4>3 DEF Before, CursorLeq
        <4> QED
          BY <1>4, <3>1, <4>4
      <3> QED
        BY <3>2, <3>3
    <2>5. PICK k \in 0..Len(q) : k + 1 = m
      <3>1. m - 1 \in 0..Len(q) /\ (m - 1) + 1 = m
        BY <1>2
      <3> QED
        BY <3>1
    <2>6. \A i \in DOMAIN q : i \in 1..k <=> ~(m <= i)
      BY <1>2, <2>5
    <2>7. 1..k \subseteq DOMAIN q
      BY <1>2
    <2>8. \A i \in DOMAIN q : q[i] \in received[s] <=> i \in 1..k
      <3>1. \A i \in DOMAIN q : i < m <=> ~(m <= i)
        BY <1>2
      <3> QED
        BY <2>3, <2>4, <2>6, <3>1
    <2>9. received[s] = {q[i] : i \in 1..k}
      BY <1>4, <2>7, <2>8 DEF Range
    <2> QED
      BY <1>1, <2>9
  <1> QED
    BY <1>5, <1>6

\* The elements of a set by cursor, as Delivered lists them.
Ranked(S) ==
    [j \in 1..Cardinality(S) |->
        CHOOSE e \in S : Cardinality({f \in S : CursorLeq(f, e)}) = j]

LEMMA DeliveredIsRanked ==
    \A s \in Streams :
        Delivered(s) = Ranked(received[s]) /\ Delivered(s)' = Ranked(received'[s])
  BY DEF Delivered, Ranked, CursorLeq

\* The elements of an initial part of the log, by cursor, are that part.
LEMMA RankedPrefix ==
    ASSUME NEW q \in Seq(Envelope), Sorted(q), NEW k \in 0..Len(q), NEW S,
           S = {q[i] : i \in 1..k}
    PROVE  /\ Ranked(S) \in Seq(Envelope) /\ Len(Ranked(S)) = k
           /\ \A j \in 1..k : Ranked(S)[j] = q[j]
  <1>1. /\ DOMAIN q = 1..Len(q) /\ Len(q) \in Nat /\ (\A i \in DOMAIN q : q[i] \in Envelope)
        /\ k \in Nat /\ 1..k \subseteq DOMAIN q
    BY RangeIn
  <1>2. Sorted(q)
    OBVIOUS
  <1>3. S = {q[i] : i \in 1..k}
    OBVIOUS
  <1>4. Cardinality(S) = k
    BY <1>1, <1>2, <1>3, PrefixSize
  <1>5. ASSUME NEW i \in 1..k, NEW j \in 1..k PROVE CursorLeq(q[i], q[j]) <=> i <= j
    <2>1. /\ q[i].seq \in Nat /\ q[i].seg \in Nat /\ q[j].seq \in Nat /\ q[j].seg \in Nat
          /\ i \in DOMAIN q /\ j \in DOMAIN q
      BY <1>1, Cursors
    <2>2. CASE i = j
      BY <2>1, <2>2 DEF CursorLeq
    <2>3. CASE i < j
      BY <1>2, <2>1, <2>3 DEF CursorLeq, Sorted, Before
    <2>4. CASE j < i
      BY <1>2, <2>1, <2>4 DEF CursorLeq, Sorted, Before
    <2> QED
      BY <2>2, <2>3, <2>4
  <1>6. ASSUME NEW j \in 1..k PROVE Cardinality({f \in S : CursorLeq(f, q[j])}) = j
    <2>1. {f \in S : CursorLeq(f, q[j])} = {q[i] : i \in 1..j}
      <3>1. \A i \in 1..k : i <= j <=> i \in 1..j
        BY <1>1
      <3>2. 1..j \subseteq 1..k
        BY <1>1
      <3> QED
        BY <1>3, <1>5, <3>1, <3>2
    <2>2. j \in 0..Len(q)
      BY <1>1
    <2>3. PICK T : T = {q[i] : i \in 1..j}
      OBVIOUS
    <2>4. Cardinality(T) = j
      BY <1>2, <2>2, <2>3, PrefixSize
    <2> QED
      BY <2>1, <2>3, <2>4
  <1> DEFINE rank(j) == CHOOSE e \in S : Cardinality({f \in S : CursorLeq(f, e)}) = j
  <1>7. \A j \in 1..k : rank(j) = q[j]
    <2> SUFFICES ASSUME NEW j \in 1..k PROVE rank(j) = q[j]
      OBVIOUS
    <2>1. q[j] \in S /\ Cardinality({f \in S : CursorLeq(f, q[j])}) = j
      BY <1>3, <1>6
    <2>2. rank(j) \in S /\ Cardinality({f \in S : CursorLeq(f, rank(j))}) = j
      BY <2>1
    <2>3. PICK i \in 1..k : rank(j) = q[i]
      BY <1>3, <2>2
    <2>4. Cardinality({f \in S : CursorLeq(f, q[i])}) = i
      BY <1>6
    <2> HIDE DEF rank
    <2> QED
      BY <2>2, <2>3, <2>4
  <1>8. Ranked(S) = [j \in 1..Cardinality(S) |-> rank(j)]
    BY DEF Ranked
  <1> HIDE DEF rank
  <1>9. Ranked(S) = [j \in 1..k |-> q[j]]
    BY <1>4, <1>7, <1>8
  <1>10. \A j \in 1..k : q[j] \in Envelope
    BY <1>1
  <1>11. PICK d : d = [j \in 1..k |-> q[j]]
    OBVIOUS
  <1>12. d \in Seq(Envelope) /\ Len(d) = k /\ \A j \in 1..k : d[j] = q[j]
    BY <1>1, <1>10, <1>11
  <1>13. Ranked(S) = d
    BY <1>9, <1>11
  <1> QED
    BY <1>12, <1>13

\* The writer's numbering of a message extends the log of its stream.
LEMMA TakeExtends ==
    ASSUME IInv, NEW n \in 0..MaxSegments, Take(n)
    PROVE  \E s \in Streams : Streaming!Extend(s)
  <1>1. queue \in Seq(Streams) /\ queue # <<>>
    BY DEF IInv, TypeOK, Take
  <1>2. PICK s \in Streams : s = Head(queue)
    BY <1>1, TailRange
  <1>3. PICK seq \in Nat \ {0} : seq = nextSeq[s]
    BY DEF IInv, TypeOK
  <1>4. PICK new : new = Split(s, seq, n)
    OBVIOUS
  <1>5. new \in Seq(Envelope) /\ Len(new) = n
    BY <1>4, SplitIs
  <1>6. numbered' = [numbered EXCEPT ![s] = @ \o new] /\ received' = received
    BY <1>2, <1>3, <1>4 DEF Take
  <1>7. PICK old \in Seq(Envelope) : old = numbered[s]
    BY DEF IInv, TypeOK
  <1>8. numbered'[s] = old \o new /\ \A r \in Streams \ {s} : numbered'[r] = numbered[r]
    BY <1>6, <1>7 DEF IInv, TypeOK
  <1>9. Len(old \o new) = Len(old) + n
    BY <1>5
  <1>10. SubSeq(old \o new, 1, Len(old)) = old
    <2>1. /\ SubSeq(old \o new, 1, Len(old)) \in Seq(Envelope)
          /\ Len(SubSeq(old \o new, 1, Len(old))) = Len(old)
          /\ \A i \in 1..Len(old) : SubSeq(old \o new, 1, Len(old))[i] = (old \o new)[i]
      BY <1>5, <1>9
    <2>2. \A i \in 1..Len(old) : (old \o new)[i] = old[i]
      BY <1>5
    <2> QED
      BY <2>1, <2>2
  <1>11. UNCHANGED [r \in Streams |-> Delivered(r)]
    BY <1>6 DEF Delivered, CursorLeq
  <1>12. Streaming!Extend(s)
    BY <1>7, <1>8, <1>9, <1>10, <1>11 DEF Streaming!Extend
  <1> QED
    BY <1>12

\* An envelope arrives that the backend has, or the next one of its stream.
LEMMA ReceiveDelivers ==
    ASSUME IInv, Receive, received' # received
    PROVE  \E s \in Streams : Streaming!Deliver(s)
  <1> DEFINE D == [r \in Streams |-> Delivered(r)]
  <1>1. wire \in Seq(Envelope) /\ wire # <<>>
    BY DEF IInv, TypeOK, Receive
  <1>2. PICK e \in Envelope : e = Head(wire) /\ e = wire[1]
    BY <1>1, TailRange
  <1>3. PICK s \in Streams : s = e.stream
    BY Cursors
  <1>4. /\ received'[s] = received[s] \union {e} /\ numbered' = numbered
        /\ \A r \in Streams \ {s} : received'[r] = received[r]
    BY <1>2, <1>3 DEF IInv, TypeOK, Receive
  <1>5. e \notin received[s]
    <2>1. e \in received[s] => received' = received
      BY <1>2, <1>3 DEF IInv, TypeOK, Receive
    <2> QED
      BY <2>1
  <1>6. PICK q \in Seq(Envelope) : q = numbered[s]
    BY DEF IInv, TypeOK
  <1>7. Sorted(q)
    BY <1>6 DEF IInv, LogOK
  <1>8. PICK k \in 0..Len(q) : received[s] = {q[i] : i \in 1..k}
    BY <1>6, PrefixReceived
  <1>9. /\ DOMAIN q = 1..Len(q) /\ Len(q) \in Nat /\ k \in Nat /\ k <= Len(q)
        /\ \A i \in DOMAIN q : q[i] \in Envelope
    BY RangeIn
  <1>10. /\ e \in Range(q)
         /\ \A f \in Range(q) : CursorLeq(f, e) => f \in received[s] \/ f = e
    <2>1. 1 \in DOMAIN wire /\ \A j \in 1..1 : wire[j] = e
      BY <1>1, <1>2, TailRange
    <2> QED
      BY <1>2, <1>3, <1>6, <2>1 DEF IInv, FlightOK, InOrder
  <1>11. PICK x \in DOMAIN q : e = q[x]
    BY <1>10 DEF Range
  <1>12. x = k + 1
    <2>1. ~(x \in 1..k)
      BY <1>5, <1>8, <1>11
    <2>2. k + 1 <= x
      BY <1>9, <2>1
    <2>3. ASSUME k + 1 < x PROVE FALSE
      <3>1. k + 1 \in DOMAIN q
        BY <1>9, <2>3
      <3>2. PICK f \in Envelope : f = q[k + 1]
        BY <1>9, <3>1
      <3>3. Before(f, e)
        BY <1>7, <1>11, <2>3, <3>1, <3>2 DEF Sorted
      <3>4. f.seq \in Nat /\ f.seg \in Nat /\ e.seq \in Nat /\ e.seg \in Nat
        BY Cursors
      <3>5. CursorLeq(f, e) /\ f # e
        BY <3>3, <3>4 DEF Before, CursorLeq
      <3>6. f \in received[s]
        BY <1>10, <3>1, <3>2, <3>5 DEF Range
      <3>7. PICK i \in 1..k : f = q[i]
        BY <1>8, <3>6
      <3>8. i \in DOMAIN q /\ i < k + 1
        BY <1>9
      <3>9. Before(f, f)
        BY <1>7, <3>1, <3>2, <3>7, <3>8 DEF Sorted
      <3> QED
        BY <3>4, <3>9 DEF Before
    <2> QED
      BY <1>9, <2>2, <2>3
  <1>13. k + 1 \in 0..Len(q) /\ k < Len(q)
    BY <1>9, <1>12
  <1>14. received'[s] = {q[i] : i \in 1..(k + 1)}
    <2>1. 1..(k + 1) = 1..k \union {k + 1}
      BY <1>9
    <2> QED
      BY <1>4, <1>8, <1>11, <1>12, <2>1
  <1>15. PICK d : d = Delivered(s)
    OBVIOUS
  <1>16. d \in Seq(Envelope) /\ Len(d) = k /\ \A j \in 1..k : d[j] = q[j]
    <2>1. PICK S : S = received[s] /\ S = {q[i] : i \in 1..k}
      BY <1>8
    <2>2. d = Ranked(S)
      BY <1>15, <2>1, DeliveredIsRanked
    <2>3. /\ Ranked(S) \in Seq(Envelope) /\ Len(Ranked(S)) = k
          /\ \A j \in 1..k : Ranked(S)[j] = q[j]
      BY <1>7, <2>1, RankedPrefix
    <2> QED
      BY <2>2, <2>3
  <1>17. PICK l \in 0..Len(q) : l = k + 1
    BY <1>13
  <1>18. PICK new : new = Delivered(s)'
    OBVIOUS
  <1>19. new \in Seq(Envelope) /\ Len(new) = l /\ \A j \in 1..l : new[j] = q[j]
    <2>1. PICK S : S = received'[s] /\ S = {q[i] : i \in 1..l}
      BY <1>14, <1>17
    <2>2. new = Ranked(S)
      BY <1>18, <2>1, DeliveredIsRanked
    <2>3. /\ Ranked(S) \in Seq(Envelope) /\ Len(Ranked(S)) = l
          /\ \A j \in 1..l : Ranked(S)[j] = q[j]
      BY <1>7, <2>1, RankedPrefix
    <2> QED
      BY <2>2, <2>3
  <1>20. new = Append(d, q[Len(d) + 1])
    <2>1. PICK last \in Envelope : last = q[k + 1]
      BY <1>9, <1>13
    <2>2. /\ Append(d, last) \in Seq(Envelope) /\ Len(Append(d, last)) = k + 1
          /\ \A j \in 1..(k + 1) : Append(d, last)[j] = IF j \in 1..k THEN d[j] ELSE last
      BY <1>9, <1>16
    <2>3. \A j \in 1..(k + 1) : j \in 1..k \/ j = k + 1
      BY <1>9
    <2>4. \A j \in 1..(k + 1) : Append(d, last)[j] = new[j]
      BY <1>16, <1>17, <1>19, <2>1, <2>2, <2>3
    <2>5. new = Append(d, last)
      BY <1>17, <1>19, <2>2, <2>4
    <2> QED
      BY <1>16, <2>1, <2>5
  <1>21. \A r \in Streams \ {s} : Delivered(r)' = Delivered(r)
    BY <1>4, DeliveredIsRanked
  <1>22. D' = [D EXCEPT ![s] = Append(d, q[Len(d) + 1])]
    BY <1>18, <1>20, <1>21
  <1>23. D[s] = d
    BY <1>15
  <1>24. Streaming!Deliver(s)
    BY <1>4, <1>6, <1>13, <1>16, <1>22, <1>23 DEF Streaming!Deliver
  <1> QED
    BY <1>24

\* Across broken connections, replays and repeated acknowledgements, the log of
\* every stream only grows and the backend gets its envelopes one by one in the
\* order of the log: every step of the transport is a step of ReliableStreams,
\* or changes nothing there.
THEOREM Implements == Spec => Streaming!Steps
  <1> DEFINE D == [s \in Streams |-> Delivered(s)]
  <1>1. Init => Streaming!Init
    <2> SUFFICES ASSUME Init PROVE Streaming!Init
      OBVIOUS
    <2>1. ASSUME NEW s \in Streams PROVE Delivered(s) = <<>>
      <3>1. received[s] = {} /\ Cardinality({}) = 0
        BY FS_EmptySet DEF Init
      <3> QED
        BY <3>1 DEF Delivered
    <2>2. numbered = [s \in Streams |-> <<>>] /\ D = [s \in Streams |-> <<>>]
      BY <2>1 DEF Init
    <2> QED
      BY <2>2 DEF Streaming!Init
  <1>2. IInv /\ [Next]_vars => [Streaming!Next]_<<numbered, D>>
    <2> SUFFICES ASSUME IInv, [Next]_vars PROVE [Streaming!Next]_<<numbered, D>>
      OBVIOUS
    <2>1. ASSUME UNCHANGED <<numbered, received>> PROVE UNCHANGED <<numbered, D>>
      BY <2>1 DEF Delivered, CursorLeq
    <2>2. ASSUME NEW n \in 0..MaxSegments, Take(n) PROVE Streaming!Next
      BY <2>2, TakeExtends DEF Streaming!Next
    <2>3. CASE Receive
      <3>1. CASE received' = received
        BY <2>1, <2>3, <3>1 DEF Receive
      <3>2. CASE received' # received
        BY <2>3, <3>2, ReceiveDelivers DEF Streaming!Next
      <3> QED
        BY <3>1, <3>2
    <2>4. CASE Connect \/ Break \/ Send \/ Sent \/ TakeUnserializable \/ ReadAck \/ UNCHANGED vars
      BY <2>1, <2>4 DEF Connect, Break, Send, Sent, TakeUnserializable, ReadAck, vars
    <2>5. ASSUME NEW s \in Streams, Write(s) PROVE UNCHANGED <<numbered, received>>
      BY <2>5 DEF Write
    <2>6. ASSUME NEW e, Acknowledge(e) PROVE UNCHANGED <<numbered, received>>
      BY <2>6 DEF Acknowledge
    <2> QED
      BY <2>1, <2>2, <2>3, <2>4, <2>5, <2>6 DEF Next
  <1> QED
    BY <1>1, <1>2, Invariance, PTL DEF Spec, Streaming!Steps

=============================================================================
