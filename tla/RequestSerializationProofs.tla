---------------------- MODULE RequestSerializationProofs ----------------------
(***************************************************************************)
(* NoOvertaking and OneDrainTask hold, and the steps implement those of    *)
(* SerializedRequests, for any number of requests, connections and scopes. *)
(***************************************************************************)
EXTENDS RequestSerialization, TLAPS

Active(r) == status[r] \in {"held", "running"}
Live(d) == drain[d] \notin {"none", "ended"}
SameKey(a, b) == req[a].key # NoKey /\ req[a].key = req[b].key

\* A key's queue holds exactly its queued requests, in arrival order.
QueueContents ==
    \A k \in Keys : \A i \in 1..Len(queue[k]) :
        /\ status[queue[k][i]] = "queued"
        /\ req[queue[k][i]].key = k

QueueComplete ==
    \A r \in Requests : status[r] = "queued" =>
        /\ req[r].key # NoKey
        /\ \E i \in 1..Len(queue[req[r].key]) : queue[req[r].key][i] = r

QueueSorted ==
    \A k \in Keys : \A i, j \in 1..Len(queue[k]) :
        i < j => arrival[queue[k][i]] < arrival[queue[k][j]]

\* Arrival numbers grow, and what has left the queue arrived before what has not.
ArrivalBound ==
    \A r \in Requests :
        req[r].key # NoKey => arrival[r] <= arrivals[req[r].key]

StartedFirst ==
    \A s, q \in Requests :
        (SameKey(s, q) /\ Started(s) /\ status[q] = "queued")
            => arrival[s] < arrival[q]

\* The map entry stands for the one live drain task of the key.
DrainUnique ==
    \A d, e \in Requests :
        (Live(d) /\ Live(e) /\ req[d].key = req[e].key) => d = e

DrainPresent ==
    /\ \A d \in Requests :
        Live(d) => req[d].key # NoKey /\ present[req[d].key]
    /\ \A k \in Keys :
        present[k] => \E d \in Requests : Live(d) /\ req[d].key = k

QueuePresent == \A k \in Keys : queue[k] # <<>> => present[k]

FreshDrain == \A r \in Requests : status[r] = "new" => drain[r] = "none"

\* A drain task polls one exclusive request or only reads, all of its key, and
\* every serialized request past the queue is polled by some drain task.
BatchContents ==
    \A d, r \in Requests : r \in batch[d] =>
        /\ Active(r)
        /\ req[r].key = req[d].key
        /\ drain[d] \in {"exclusive", "reads", "admit"}

BatchComplete ==
    \A r \in Requests : (Active(r) /\ req[r].key # NoKey) =>
        \E d \in Requests : r \in batch[d]

BatchShape ==
    \A d, r, s \in Requests :
        (r \in batch[d] /\ s \in batch[d]) => r = s \/ (IsRead(r) /\ IsRead(s))

BatchReads ==
    \A d, r \in Requests :
        (drain[d] \in {"reads", "admit"} /\ r \in batch[d]) => IsRead(r)

IInv ==
    /\ TypeOK
    /\ QueueContents /\ QueueComplete /\ QueueSorted
    /\ ArrivalBound /\ StartedFirst
    /\ DrainUnique /\ DrainPresent /\ QueuePresent /\ FreshDrain
    /\ BatchContents /\ BatchComplete /\ BatchShape /\ BatchReads
    /\ NoOvertaking
-------------------------------------------------------------------------------
LEMMA KeyType ==
    ASSUME TypeOK, NEW r \in Requests, req[r].key # NoKey
    PROVE  req[r].key \in Keys
BY DEF TypeOK, Keys

\* Taking n requests off the front of a queue keeps the types.
LEMMA TakeFrontType ==
    ASSUME TypeOK, NEW d \in Requests, req[d].key \in Keys,
           NEW n \in 0..Len(queue[req[d].key]), TakeFront(d, n)
    PROVE  /\ queue' \in [Keys -> Seq(Requests)]
           /\ batch' \in [Requests -> SUBSET Requests]
           /\ status' \in [Requests -> {"new", "queued", "held", "running",
                                         "done", "skipped"}]
BY DEF TypeOK, TakeFront

\* Every initial state satisfies the inductive invariant.
LEMMA InitInv == Init => IInv
<1> SUFFICES ASSUME Init PROVE IInv
  OBVIOUS
<1>1. TypeOK
  BY DEF Init, TypeOK
<1>2. QueueContents /\ QueueComplete /\ QueueSorted /\ QueuePresent
  BY DEF Init, QueueContents, QueueComplete, QueueSorted, QueuePresent
<1>3. ArrivalBound
  <2> SUFFICES ASSUME NEW r \in Requests, req[r].key # NoKey
               PROVE  arrival[r] <= arrivals[req[r].key]
    BY DEF ArrivalBound
  <2> QED BY <1>1, KeyType DEF Init
<1>4. StartedFirst /\ DrainUnique /\ FreshDrain /\ NoOvertaking
  BY DEF Init, StartedFirst, Started, DrainUnique, Live, FreshDrain,
         NoOvertaking
<1>5. DrainPresent
  BY DEF Init, DrainPresent, Live
<1>6. BatchContents /\ BatchComplete /\ BatchShape /\ BatchReads
  BY DEF Init, BatchContents, BatchComplete, BatchShape, BatchReads, Active
<1> QED BY <1>1, <1>2, <1>3, <1>4, <1>5, <1>6 DEF IInv

\* An action that changes nothing but a connection's state, or that starts the
\* handler of a held request, keeps the invariant.
LEMMA QuietStep ==
    ASSUME IInv, TypeOK',
           UNCHANGED <<req, queueVars, drain, batch, history>>,
           \A r \in Requests : status'[r] = status[r]
                                 \/ (status[r] = "held" /\ status'[r] = "running")
    PROVE  IInv'
<1> USE DEF queueVars, history
<1>1. QueueContents' /\ QueueComplete' /\ QueueSorted' /\ QueuePresent'
  BY DEF IInv, TypeOK, QueueContents, QueueComplete, QueueSorted, QueuePresent
<1>2. ArrivalBound' /\ StartedFirst'
  BY DEF IInv, TypeOK, ArrivalBound, StartedFirst, SameKey, Started
<1>3. DrainUnique' /\ DrainPresent' /\ FreshDrain'
  BY DEF IInv, TypeOK, DrainUnique, DrainPresent, FreshDrain, Live
<1>4. BatchContents' /\ BatchComplete' /\ BatchShape' /\ BatchReads'
  BY DEF IInv, TypeOK, BatchContents, BatchComplete, BatchShape, BatchReads,
         Active, IsRead
<1>5. NoOvertaking'
  BY DEF IInv, TypeOK, NoOvertaking, Conflict, IsRead, Started, Finished
<1> QED BY <1>1, <1>2, <1>3, <1>4, <1>5 DEF IInv

\* A held or running request finishes and leaves the batch that polled it.
LEMMA LeaveStep ==
    ASSUME IInv, TypeOK', NEW r \in Requests, Active(r),
           LeaveBatch(r), UNCHANGED <<req, queueVars, history>>,
           NEW s \in {"done", "skipped"}, status' = [status EXCEPT ![r] = s]
    PROVE  IInv'
<1> USE DEF queueVars, history
<1>a. \A d \in Requests : Live(d)' <=> Live(d)
  BY DEF IInv, TypeOK, LeaveBatch, Live, BatchContents
<1>1. QueueContents' /\ QueueComplete' /\ QueueSorted' /\ QueuePresent'
  <2>1. QueueContents'
    BY DEF IInv, TypeOK, QueueContents, Active
  <2>2. QueueComplete'
    BY DEF IInv, TypeOK, QueueComplete
  <2>3. QueueSorted' /\ QueuePresent'
    BY DEF IInv, QueueSorted, QueuePresent
  <2> QED BY <2>1, <2>2, <2>3
<1>2. ArrivalBound' /\ StartedFirst'
  BY DEF IInv, TypeOK, ArrivalBound, StartedFirst, SameKey, Started, Active
<1>3. DrainUnique' /\ DrainPresent'
  BY <1>a DEF IInv, DrainUnique, DrainPresent
<1>4. FreshDrain'
  <2> SUFFICES ASSUME NEW x \in Requests, status'[x] = "new"
               PROVE  drain'[x] = "none"
    BY DEF FreshDrain
  <2>1. drain[x] = "none"
    BY DEF IInv, TypeOK, FreshDrain
  <2>2. batch[x] # {r}
    BY <2>1 DEF IInv, BatchContents
  <2> QED BY <2>1, <2>2 DEF LeaveBatch
<1>5. BatchContents'
  <2> SUFFICES ASSUME NEW d \in Requests, NEW x \in Requests, x \in batch'[d]
               PROVE  /\ Active(x)'
                      /\ req'[x].key = req'[d].key
                      /\ drain'[d] \in {"exclusive", "reads", "admit"}
    BY DEF BatchContents
  <2>1. x \in batch[d] /\ x # r
    BY DEF LeaveBatch
  <2>2. Active(x) /\ req[x].key = req[d].key
            /\ drain[d] \in {"exclusive", "reads", "admit"}
    BY <2>1 DEF IInv, BatchContents
  <2> QED BY <2>1, <2>2 DEF LeaveBatch, Active, IInv, TypeOK
<1>6. BatchComplete' /\ BatchShape'
  BY DEF IInv, TypeOK, BatchComplete, BatchShape, LeaveBatch, Active, IsRead
<1>7. BatchReads'
  BY DEF IInv, TypeOK, BatchReads, LeaveBatch, IsRead
<1>8. NoOvertaking'
  BY DEF IInv, TypeOK, NoOvertaking, Conflict, IsRead, Started, Finished, Active
<1> QED BY <1>1, <1>2, <1>3, <1>4, <1>5, <1>6, <1>7, <1>8 DEF IInv

\* What taking n elements off the front leaves of a sequence.
LEMMA QueueTail ==
    ASSUME NEW S, NEW s \in Seq(S), NEW n \in 0..Len(s)
    PROVE  /\ Len(SubSeq(s, n + 1, Len(s))) = Len(s) - n
           /\ \A i \in 1..(Len(s) - n) : SubSeq(s, n + 1, Len(s))[i] = s[i + n]
OBVIOUS

\* A live drain task d takes the first n queued requests.  They join its batch,
\* which is one exclusive request or reads only.
LEMMA TakeStep ==
    ASSUME IInv, TypeOK', NEW d \in Requests, drain[d] \in {"pop", "admit"},
           NEW n \in 0..Len(queue[req[d].key]), TakeFront(d, n),
           NEW p \in {"exclusive", "reads"}, drain' = [drain EXCEPT ![d] = p],
           p = "exclusive" => n = 1 /\ drain[d] = "pop",
           p = "reads" => \A i \in 1..n : IsRead(queue[req[d].key][i]),
           UNCHANGED <<req, present, history>>
    PROVE  IInv'
<1> DEFINE k == req[d].key
<1> DEFINE q == queue[k]
<1> DEFINE taken == {q[i] : i \in 1..n}
<1>a. /\ k \in Keys /\ q \in Seq(Requests) /\ Live(d) /\ taken \subseteq Requests
      /\ Len(q) \in Nat /\ n \in Nat /\ n <= Len(q)
      /\ \A i \in 1..Len(q) : q[i] \in Requests
  <2>1. Live(d)
    BY DEF Live
  <2>2. k \in Keys
    BY <2>1, KeyType DEF IInv, DrainPresent
  <2>3. q \in Seq(Requests)
    BY <2>2 DEF IInv, TypeOK
  <2>4. /\ Len(q) \in Nat /\ n \in Nat /\ n <= Len(q)
        /\ \A i \in 1..Len(q) : q[i] \in Requests
    BY <2>3
  <2> QED BY <2>1, <2>2, <2>3, <2>4
<1>b. /\ queue' = [queue EXCEPT ![k] = SubSeq(q, n + 1, Len(q))]
      /\ batch' = [batch EXCEPT ![d] = batch[d] \cup taken]
      /\ status' = [r \in Requests |-> IF r \in taken THEN "held" ELSE status[r]]
      /\ req' = req /\ arrival' = arrival /\ arrivals' = arrivals
      /\ present' = present
  BY DEF TakeFront, history
\* What remains of the queue is its tail, shifted by n.
<1>c. /\ Len(queue'[k]) = Len(q) - n
      /\ \A i \in 1..(Len(q) - n) : queue'[k][i] = q[i + n]
  <2>1. queue'[k] = SubSeq(q, n + 1, Len(q))
    BY <1>a, <1>b DEF IInv, TypeOK
  <2> HIDE DEF k, q
  <2> QED BY <1>a, <2>1, QueueTail
<1>d. \A i \in 1..Len(q) : q[i] \in taken <=> i <= n
  <2> SUFFICES ASSUME NEW i \in 1..Len(q), q[i] \in taken PROVE i <= n
    OBVIOUS
  <2>1. PICK j \in 1..n : q[i] = q[j]
    OBVIOUS
  <2>2. j \in 1..Len(q) /\ q[i] \in Requests /\ q[j] \in Requests
    BY <1>a
  <2>3. arrival[q[i]] \in Nat
    BY <2>2 DEF IInv, TypeOK
  <2>4. i \in Nat /\ j \in Nat /\ ~(j < i)
    <3>1. j < i => arrival[q[j]] < arrival[q[i]]
      BY <1>a, <2>2 DEF IInv, QueueSorted
    <3>2. i \in Nat /\ j \in Nat
      BY <1>a, <2>2
    <3> HIDE DEF q, taken
    <3> QED BY <2>1, <2>3, <3>1, <3>2
  <2>5. j \in 1..n /\ n \in Nat
    BY <1>a
  <2> HIDE DEF q, taken
  <2> QED BY <2>4, <2>5
<1>e. \A r \in taken : status[r] = "queued" /\ req[r].key = k
  BY <1>a DEF IInv, QueueContents
<1>f. \A r \in Requests : (status[r] = "queued" /\ req[r].key = k /\ r \notin taken)
                           => \A t \in taken : arrival[t] < arrival[r]
  <2> SUFFICES ASSUME NEW r \in Requests, status[r] = "queued", req[r].key = k,
                      r \notin taken, NEW t \in taken
               PROVE  arrival[t] < arrival[r]
    OBVIOUS
  <2>1. PICK j \in 1..Len(q) : q[j] = r
    BY DEF IInv, QueueComplete
  <2>2. PICK i \in 1..n : q[i] = t
    OBVIOUS
  <2>3. n < j
    BY <1>d, <2>1
  <2> QED BY <1>a, <2>1, <2>2, <2>3 DEF IInv, QueueSorted
\* Every serialized request already past the queue is in this task's batch.
<1>g. \A r \in Requests : (Active(r) /\ req[r].key = k) => r \in batch[d]
  <2> SUFFICES ASSUME NEW r \in Requests, Active(r), req[r].key = k
               PROVE  r \in batch[d]
    OBVIOUS
  <2>1. PICK e \in Requests : r \in batch[e]
    BY <1>a DEF IInv, BatchComplete, DrainPresent
  <2>2. Live(e) /\ req[e].key = k
    BY <2>1 DEF IInv, BatchContents, Live
  <2> QED BY <1>a, <2>1, <2>2 DEF IInv, DrainUnique
<1>h. p = "exclusive" => batch[d] = {}
  BY DEF IInv, TypeOK, BatchContents
<1>i. p = "reads" => \A r \in batch[d] \cup taken : IsRead(r)
  <2> SUFFICES ASSUME p = "reads", NEW r \in batch[d] \cup taken
               PROVE  IsRead(r)
    OBVIOUS
  <2>1. CASE r \in taken
    BY <2>1
  <2>2. CASE r \in batch[d]
    <3>1. r \in Requests
      BY <2>2 DEF IInv, TypeOK
    <3> QED BY <2>2, <3>1 DEF IInv, BatchReads, BatchContents
  <2> QED BY <2>1, <2>2
<1> HIDE DEF k, q, taken
<1>1. QueueContents' /\ QueueComplete' /\ QueueSorted' /\ QueuePresent'
  <2>1. QueueContents'
    <3> SUFFICES ASSUME NEW c \in Keys, NEW i \in 1..Len(queue'[c])
                 PROVE  status'[queue'[c][i]] = "queued"
                           /\ req'[queue'[c][i]].key = c
      BY DEF QueueContents
    <3>1. CASE c = k
      <4>1. i + n \in 1..Len(q) /\ queue'[k][i] = q[i + n] /\ q[i + n] \in Requests
        BY <1>a, <1>c, <3>1
      <4>2. q[i + n] \notin taken
        BY <1>d, <4>1
      <4>3. status[q[i + n]] = "queued" /\ req[q[i + n]].key = k
        BY <1>a, <4>1 DEF IInv, QueueContents, q
      <4> QED BY <1>b, <3>1, <4>1, <4>2, <4>3
    <3>2. CASE c # k
      <4>1. queue'[c] = queue[c] /\ queue[c] \in Seq(Requests)
        BY <1>b, <3>2 DEF IInv, TypeOK
      <4>2. status[queue[c][i]] = "queued" /\ req[queue[c][i]].key = c
        BY <4>1 DEF IInv, QueueContents
      <4>3. queue[c][i] \in Requests /\ queue[c][i] \notin taken
        BY <1>e, <3>2, <4>1, <4>2
      <4> QED BY <1>b, <4>1, <4>2, <4>3
    <3> QED BY <3>1, <3>2
  <2>2. QueueComplete'
    <3> SUFFICES ASSUME NEW r \in Requests, status'[r] = "queued"
                 PROVE  /\ req'[r].key # NoKey
                        /\ \E i \in 1..Len(queue'[req'[r].key]) :
                                queue'[req'[r].key][i] = r
      BY DEF QueueComplete
    <3>1. status[r] = "queued" /\ r \notin taken
      BY <1>b
    <3>2. req[r].key # NoKey
      BY <3>1 DEF IInv, QueueComplete
    <3>3. PICK i \in 1..Len(queue[req[r].key]) : queue[req[r].key][i] = r
      BY <3>1 DEF IInv, QueueComplete
    <3>4. CASE req[r].key = k
      <4>1. i > n /\ i - n \in 1..(Len(q) - n)
        BY <1>a, <1>d, <3>1, <3>3, <3>4 DEF q
      <4>2. queue'[k][i - n] = r
        BY <1>a, <1>c, <3>3, <3>4, <4>1 DEF q
      <4> QED BY <1>b, <1>c, <3>2, <3>4, <4>1, <4>2
    <3>5. CASE req[r].key # k
      BY <1>b, <3>2, <3>3, <3>5, KeyType DEF IInv, TypeOK
    <3> QED BY <3>4, <3>5
  <2>3. QueueSorted'
    <3> SUFFICES ASSUME NEW c \in Keys, NEW i \in 1..Len(queue'[c]),
                        NEW j \in 1..Len(queue'[c]), i < j
                 PROVE  arrival'[queue'[c][i]] < arrival'[queue'[c][j]]
      BY DEF QueueSorted
    <3>1. CASE c = k
      <4>1. /\ i + n \in 1..Len(q) /\ j + n \in 1..Len(q) /\ i + n < j + n
            /\ queue'[k][i] = q[i + n] /\ queue'[k][j] = q[j + n]
        BY <1>a, <1>c, <3>1
      <4> QED BY <1>a, <1>b, <3>1, <4>1 DEF IInv, QueueSorted, q
    <3>2. CASE c # k
      BY <1>b, <3>2 DEF IInv, TypeOK, QueueSorted
    <3> QED BY <3>1, <3>2
  <2>4. QueuePresent'
    BY <1>a, <1>b DEF IInv, TypeOK, QueuePresent, DrainPresent, k
  <2> QED BY <2>1, <2>2, <2>3, <2>4
<1>2. ArrivalBound' /\ StartedFirst'
  <2>1. ArrivalBound'
    BY <1>b DEF IInv, ArrivalBound
  <2>2. StartedFirst'
    <3> SUFFICES ASSUME NEW s \in Requests, NEW r \in Requests, SameKey(s, r)',
                        Started(s)', status'[r] = "queued"
                 PROVE  arrival'[s] < arrival'[r]
      BY DEF StartedFirst
    <3>1. status[r] = "queued" /\ r \notin taken /\ SameKey(s, r)
      BY <1>b DEF SameKey
    <3>2. CASE s \in taken
      BY <1>b, <1>e, <1>f, <3>1, <3>2 DEF SameKey
    <3>3. CASE s \notin taken
      BY <1>b, <3>1, <3>3 DEF IInv, StartedFirst, Started
    <3> QED BY <3>2, <3>3
  <2> QED BY <2>1, <2>2
<1>3. DrainUnique' /\ DrainPresent' /\ FreshDrain'
  <2>1. \A e \in Requests : Live(e)' <=> Live(e)
    BY <1>a DEF IInv, TypeOK, Live
  <2>2. DrainUnique' /\ DrainPresent'
    BY <1>b, <2>1 DEF IInv, DrainUnique, DrainPresent
  <2>3. FreshDrain'
    BY <1>b DEF IInv, TypeOK, FreshDrain
  <2> QED BY <2>2, <2>3
<1>4. BatchContents'
  <2> SUFFICES ASSUME NEW e \in Requests, NEW r \in Requests, r \in batch'[e]
               PROVE  /\ Active(r)'
                      /\ req'[r].key = req'[e].key
                      /\ drain'[e] \in {"exclusive", "reads", "admit"}
    BY DEF BatchContents
  <2>1. CASE r \in batch[e]
    BY <1>b, <2>1 DEF IInv, TypeOK, BatchContents, Active
  <2>2. CASE r \notin batch[e]
    <3>1. e = d /\ r \in taken
      BY <1>b, <2>2 DEF IInv, TypeOK
    <3>2. req[r].key = req[d].key
      BY <1>e, <3>1 DEF k
    <3> QED BY <1>b, <3>1, <3>2 DEF IInv, TypeOK, Active
  <2> QED BY <2>1, <2>2
<1>5. BatchComplete'
  BY <1>b, <1>e DEF IInv, TypeOK, BatchComplete, Active
<1>6. BatchShape' /\ BatchReads'
  <2>1. \A r, s \in batch[d] \cup taken : r = s \/ (IsRead(r) /\ IsRead(s))
    <3>1. CASE p = "reads"
      BY <1>i, <3>1
    <3>2. CASE p = "exclusive"
      <4>1. taken = {q[1]}
        BY <3>2 DEF taken
      <4> QED BY <1>h, <3>2, <4>1
    <3> QED BY <3>1, <3>2
  <2>2. BatchShape'
    <3> SUFFICES ASSUME NEW e \in Requests, NEW r \in batch'[e], NEW s \in batch'[e]
                 PROVE  (r = s \/ (IsRead(r) /\ IsRead(s)))'
      BY DEF BatchShape
    <3>1. CASE e = d
      BY <1>b, <2>1, <3>1 DEF IInv, TypeOK, IsRead
    <3>2. CASE e # d
      <4>1. r \in batch[e] /\ s \in batch[e] /\ r \in Requests /\ s \in Requests
        BY <1>b, <3>2 DEF IInv, TypeOK
      <4> QED BY <1>b, <4>1 DEF IInv, BatchShape, IsRead
    <3> QED BY <3>1, <3>2
  <2>3. BatchReads'
    BY <1>b, <1>i DEF IInv, TypeOK, BatchReads, IsRead
  <2> QED BY <2>2, <2>3
<1>7. NoOvertaking'
  <2> SUFFICES ASSUME NEW e \in Requests, NEW l \in Requests, Conflict(e, l)',
                      status'[e] # "new", arrival'[e] < arrival'[l], Started(l)'
               PROVE  Finished(e)'
    BY DEF NoOvertaking
  <2>1. Conflict(e, l) /\ arrival[e] < arrival[l]
    BY <1>b DEF Conflict, IsRead
  <2>2. CASE l \in taken
    <3>1. req[e].key = k /\ status[e] # "new"
      BY <1>b, <1>e, <2>1, <2>2 DEF Conflict
    <3>2. e \notin batch[d] \cup taken
      <4> SUFFICES ASSUME e \in batch[d] \cup taken PROVE FALSE
        OBVIOUS
      <4>1. CASE p = "reads"
        BY <1>i, <2>1, <2>2, <4>1 DEF Conflict
      <4>2. CASE p = "exclusive"
        <5>1. taken = {q[1]}
          BY <4>2 DEF taken
        <5> QED BY <1>h, <2>1, <2>2, <4>2, <5>1 DEF Conflict
      <4> QED BY <4>1, <4>2
    <3>3. status[e] # "queued"
      <4> SUFFICES ASSUME status[e] = "queued" PROVE FALSE
        OBVIOUS
      <4>1. arrival[l] < arrival[e]
        BY <1>f, <2>2, <3>1, <3>2
      <4> QED BY <2>1, <4>1 DEF IInv, TypeOK
    <3>4. ~Active(e)
      BY <1>g, <3>1, <3>2
    <3> QED BY <1>b, <3>1, <3>2, <3>3, <3>4 DEF IInv, TypeOK, Finished, Active
  <2>3. CASE l \notin taken
    <3>1. Started(l)
      BY <1>b, <2>3 DEF Started
    <3>2. CASE e \in taken
      <4>1. status[e] = "queued" /\ SameKey(l, e)
        BY <1>e, <2>1, <3>2 DEF Conflict, SameKey
      <4>2. arrival[l] < arrival[e]
        BY <3>1, <4>1 DEF IInv, StartedFirst
      <4> QED BY <2>1, <4>2 DEF IInv, TypeOK
    <3>3. CASE e \notin taken
      BY <1>b, <2>1, <3>1, <3>3 DEF IInv, NoOvertaking, Finished
    <3> QED BY <3>2, <3>3
  <2> QED BY <2>2, <2>3
<1> QED BY <1>1, <1>2, <1>3, <1>4, <1>5, <1>6, <1>7 DEF IInv

\* enqueue: the new request goes behind everything that has arrived, and a
\* drain task is spawned exactly when the key had none.
LEMMA EnqueueStep ==
    ASSUME IInv, TypeOK', NEW r \in Requests, Enqueue(r)
    PROVE  IInv'
<1> DEFINE k == req[r].key
<1>a. k \in Keys /\ queue[k] \in Seq(Requests) /\ arrivals[k] \in Nat
  <2>1. k \in Keys
    BY KeyType DEF Enqueue, IInv
  <2> QED BY <2>1 DEF IInv, TypeOK
<1>b. /\ req' = req /\ batch' = batch
      /\ queue' = [queue EXCEPT ![k] = Append(queue[k], r)]
      /\ present' = [present EXCEPT ![k] = TRUE]
      /\ status' = [status EXCEPT ![r] = "queued"]
      /\ arrival' = [arrival EXCEPT ![r] = arrivals[k] + 1]
      /\ arrivals' = [arrivals EXCEPT ![k] = arrivals[k] + 1]
      /\ drain' = IF present[k] THEN drain ELSE [drain EXCEPT ![r] = "pop"]
      /\ status[r] = "new" /\ k # NoKey /\ drain[r] = "none"
  BY DEF Enqueue, CanArrive, IInv, FreshDrain
<1>c. /\ Len(queue'[k]) = Len(queue[k]) + 1 /\ Len(queue[k]) \in Nat
      /\ \A i \in 1..Len(queue[k]) : queue'[k][i] = queue[k][i]
      /\ queue'[k][Len(queue[k]) + 1] = r
  <2>1. queue'[k] = Append(queue[k], r)
    BY <1>a, <1>b DEF IInv, TypeOK
  <2> QED BY <1>a, <2>1
<1>d. \A c \in Keys \ {k} : queue'[c] = queue[c]
  BY <1>b DEF IInv, TypeOK
<1>e. \A e \in Requests : (e # r /\ req[e].key = k) =>
            arrival'[e] = arrival[e] /\ arrival'[e] < arrival'[r]
  BY <1>a, <1>b DEF IInv, TypeOK, ArrivalBound
<1>f. \A c \in Keys : \A i \in 1..Len(queue[c]) :
            queue[c][i] \in Requests /\ queue[c][i] # r
  BY <1>b DEF IInv, TypeOK, QueueContents
<1> HIDE DEF k
<1>1. QueueContents'
  <2> SUFFICES ASSUME NEW c \in Keys, NEW i \in 1..Len(queue'[c])
               PROVE  status'[queue'[c][i]] = "queued" /\ req'[queue'[c][i]].key = c
    BY DEF QueueContents
  <2>1. CASE i \in 1..Len(queue[c])
    <3>1. queue'[c][i] = queue[c][i]
      BY <1>c, <1>d, <2>1
    <3> QED BY <1>b, <1>f, <2>1, <3>1 DEF IInv, TypeOK, QueueContents
  <2>2. CASE i \notin 1..Len(queue[c])
    <3>1. c = k /\ queue'[c][i] = r
      BY <1>c, <1>d, <2>2
    <3> QED BY <1>b, <3>1 DEF IInv, TypeOK, k
  <2> QED BY <2>1, <2>2
<1>2. QueueComplete'
  <2> SUFFICES ASSUME NEW x \in Requests, status'[x] = "queued"
               PROVE  /\ req'[x].key # NoKey
                      /\ \E i \in 1..Len(queue'[req'[x].key]) :
                              queue'[req'[x].key][i] = x
    BY DEF QueueComplete
  <2>1. CASE x = r
    BY <1>b, <1>c, <2>1 DEF k
  <2>2. CASE x # r
    <3>1. status[x] = "queued"
      BY <1>b, <2>2 DEF IInv, TypeOK
    <3>2. req[x].key # NoKey /\ req[x].key \in Keys
      BY <3>1, KeyType DEF IInv, QueueComplete
    <3>3. PICK i \in 1..Len(queue[req[x].key]) : queue[req[x].key][i] = x
      BY <3>1 DEF IInv, QueueComplete
    <3>4. i \in 1..Len(queue'[req[x].key]) /\ queue'[req[x].key][i] = x
      BY <1>c, <1>d, <3>2, <3>3
    <3> QED BY <1>b, <3>2, <3>4
  <2> QED BY <2>1, <2>2
<1>3. QueueSorted'
  <2> SUFFICES ASSUME NEW c \in Keys, NEW i \in 1..Len(queue'[c]),
                      NEW j \in 1..Len(queue'[c]), i < j
               PROVE  arrival'[queue'[c][i]] < arrival'[queue'[c][j]]
    BY DEF QueueSorted
  <2>0. i \in 1..Len(queue[c]) /\ queue'[c][i] = queue[c][i]
    BY <1>c, <1>d
  <2>1. CASE j \in 1..Len(queue[c])
    <3>1. queue'[c][j] = queue[c][j]
      BY <1>c, <1>d, <2>1
    <3>2. arrival[queue[c][i]] < arrival[queue[c][j]]
      BY <2>0, <2>1 DEF IInv, QueueSorted
    <3> QED BY <1>b, <1>f, <2>0, <2>1, <3>1, <3>2 DEF IInv, TypeOK
  <2>2. CASE j \notin 1..Len(queue[c])
    <3>1. c = k /\ queue'[c][j] = r
      BY <1>c, <1>d, <2>2
    <3>2. req[queue[c][i]].key = k
      BY <2>0, <3>1 DEF IInv, QueueContents
    <3> QED BY <1>e, <1>f, <2>0, <3>1, <3>2
  <2> QED BY <2>1, <2>2
<1>4. ArrivalBound'
  <2> SUFFICES ASSUME NEW x \in Requests, req'[x].key # NoKey
               PROVE  arrival'[x] <= arrivals'[req'[x].key]
    BY DEF ArrivalBound
  <2>1. req[x].key \in Keys /\ arrival[x] <= arrivals[req[x].key]
    BY <1>b, KeyType DEF IInv, ArrivalBound
  <2> QED BY <1>a, <1>b, <2>1 DEF IInv, TypeOK, k
<1>5. StartedFirst'
  <2> SUFFICES ASSUME NEW s \in Requests, NEW x \in Requests, SameKey(s, x)',
                      Started(s)', status'[x] = "queued"
               PROVE  arrival'[s] < arrival'[x]
    BY DEF StartedFirst
  <2>1. s # r /\ Started(s) /\ SameKey(s, x)
    BY <1>b DEF IInv, TypeOK, Started, SameKey
  <2>2. CASE x = r
    BY <1>e, <2>1, <2>2 DEF SameKey, k
  <2>3. CASE x # r
    BY <1>b, <2>1, <2>3 DEF IInv, TypeOK, StartedFirst
  <2> QED BY <2>2, <2>3
<1>6. DrainUnique' /\ DrainPresent' /\ QueuePresent'
  <2>1. CASE present[k]
    <3>1. drain' = drain /\ present' = present
      BY <1>a, <1>b, <2>1 DEF IInv, TypeOK
    <3>2. DrainUnique' /\ DrainPresent'
      BY <1>b, <3>1 DEF IInv, DrainUnique, DrainPresent, Live
    <3>3. QueuePresent'
      BY <1>d, <2>1, <3>1 DEF IInv, QueuePresent
    <3> QED BY <3>2, <3>3
  <2>2. CASE ~present[k]
    <3>1. \A d \in Requests : Live(d)' <=> (d = r \/ Live(d))
      BY <1>b, <2>2 DEF IInv, TypeOK, Live
    <3>2. \A d \in Requests : Live(d) => req[d].key # k
      BY <2>2 DEF IInv, DrainPresent
    <3>3. DrainUnique'
      BY <1>b, <3>1, <3>2 DEF IInv, DrainUnique, k
    <3>4. DrainPresent'
      <4>1. \A d \in Requests : Live(d)' => req[d].key # NoKey /\ present'[req[d].key]
        <5> SUFFICES ASSUME NEW d \in Requests, Live(d)'
                     PROVE  req[d].key # NoKey /\ present'[req[d].key]
          OBVIOUS
        <5>1. CASE d = r
          BY <1>a, <1>b, <5>1 DEF IInv, TypeOK, k
        <5>2. CASE d # r
          <6>1. Live(d) /\ req[d].key # NoKey /\ present[req[d].key]
            BY <3>1, <5>2 DEF IInv, DrainPresent
          <6>2. req[d].key \in Keys
            BY <6>1, KeyType DEF IInv
          <6> QED BY <1>b, <6>1, <6>2 DEF IInv, TypeOK
        <5> QED BY <5>1, <5>2
      <4>2. \A c \in Keys : present'[c] => \E d \in Requests : Live(d)' /\ req[d].key = c
        BY <1>b, <3>1 DEF IInv, TypeOK, DrainPresent, k
      <4> QED BY <1>b, <4>1, <4>2 DEF DrainPresent
    <3>5. QueuePresent'
      BY <1>b, <1>d DEF IInv, TypeOK, QueuePresent
    <3> QED BY <3>3, <3>4, <3>5
  <2> QED BY <2>1, <2>2
<1>7. FreshDrain'
  BY <1>b DEF IInv, TypeOK, FreshDrain
<1>8. BatchContents' /\ BatchComplete' /\ BatchShape' /\ BatchReads'
  <2>1. \A x \in Requests : Active(x)' <=> Active(x)
    BY <1>b DEF IInv, TypeOK, Active
  <2>2. batch[r] = {}
    BY <1>b DEF IInv, TypeOK, BatchContents
  <2>3. \A d \in Requests : batch[d] # {} => drain'[d] = drain[d]
    BY <1>b, <2>2 DEF IInv, TypeOK
  <2>4. BatchContents' /\ BatchReads'
    BY <1>b, <2>1, <2>3 DEF IInv, BatchContents, BatchReads, IsRead
  <2>5. BatchComplete' /\ BatchShape'
    BY <1>b, <2>1 DEF IInv, BatchComplete, BatchShape, IsRead
  <2> QED BY <2>4, <2>5
<1>9. NoOvertaking'
  <2> SUFFICES ASSUME NEW e \in Requests, NEW l \in Requests, Conflict(e, l)',
                      status'[e] # "new", arrival'[e] < arrival'[l], Started(l)'
               PROVE  Finished(e)'
    BY DEF NoOvertaking
  <2>1. l # r /\ Started(l) /\ Conflict(e, l)
    BY <1>b DEF IInv, TypeOK, Started, Conflict, IsRead
  <2>2. e # r
    <3> SUFFICES ASSUME e = r PROVE FALSE
      OBVIOUS
    <3>1. arrival'[l] < arrival'[r] /\ arrival'[l] \in Nat /\ arrival'[r] \in Nat
      BY <1>e, <2>1 DEF Conflict, TypeOK, k
    <3> QED BY <3>1
  <2> QED BY <1>b, <2>1, <2>2 DEF IInv, TypeOK, NoOvertaking, Finished
<1> QED BY <1>1, <1>2, <1>3, <1>4, <1>5, <1>6, <1>7, <1>8, <1>9 DEF IInv

\* drain ends: its queue is empty and leaves the map with the task.
LEMMA PopNoneStep ==
    ASSUME IInv, TypeOK', NEW d \in Requests, PopNone(d)
    PROVE  IInv'
<1> DEFINE k == req[d].key
<1>a. /\ Live(d) /\ k \in Keys /\ queue[k] = <<>>
      /\ present' = [present EXCEPT ![k] = FALSE]
      /\ drain' = [drain EXCEPT ![d] = "ended"]
      /\ UNCHANGED <<req, queue, batch, status, arrival, arrivals>>
  <2>1. Live(d)
    BY DEF PopNone, Live
  <2>2. k \in Keys
    BY <2>1, KeyType DEF IInv, DrainPresent
  <2> QED BY <2>1, <2>2 DEF PopNone, history
<1>b. \A e \in Requests : Live(e)' <=> (e # d /\ Live(e))
  BY <1>a DEF IInv, TypeOK, Live
<1>c. batch[d] = {}
  BY DEF IInv, TypeOK, BatchContents, PopNone
<1>1. QueueContents' /\ QueueComplete' /\ QueueSorted' /\ ArrivalBound'
         /\ StartedFirst' /\ NoOvertaking' /\ BatchComplete' /\ BatchShape'
  BY <1>a DEF IInv, QueueContents, QueueComplete, QueueSorted, ArrivalBound,
              StartedFirst, SameKey, Started, NoOvertaking, Conflict, IsRead,
              Finished, BatchComplete, BatchShape, Active
<1>2. BatchContents' /\ BatchReads'
  BY <1>a, <1>c DEF IInv, TypeOK, BatchContents, BatchReads, Active, IsRead
<1>3. DrainUnique' /\ FreshDrain'
  <2>1. DrainUnique'
    BY <1>a, <1>b DEF IInv, DrainUnique
  <2>2. FreshDrain'
    BY <1>a DEF IInv, TypeOK, FreshDrain, Live
  <2> QED BY <2>1, <2>2
<1>4. DrainPresent'
  <2>1. \A e \in Requests : Live(e)' => req[e].key # NoKey /\ present'[req[e].key]
    <3> SUFFICES ASSUME NEW e \in Requests, Live(e)'
                 PROVE  req[e].key # NoKey /\ present'[req[e].key]
      OBVIOUS
    <3>1. e # d /\ Live(e) /\ req[e].key # NoKey /\ present[req[e].key]
      BY <1>b DEF IInv, DrainPresent
    <3>2. req[e].key # k /\ req[e].key \in Keys
      BY <1>a, <3>1, KeyType DEF IInv, DrainUnique
    <3> QED BY <1>a, <3>1, <3>2 DEF IInv, TypeOK
  <2>2. \A c \in Keys : present'[c] => \E e \in Requests : Live(e)' /\ req[e].key = c
    BY <1>a, <1>b DEF IInv, TypeOK, DrainPresent
  <2> QED BY <1>a, <2>1, <2>2 DEF DrainPresent
<1>5. QueuePresent'
  BY <1>a DEF IInv, TypeOK, QueuePresent
<1> QED BY <1>1, <1>2, <1>3, <1>4, <1>5 DEF IInv

\* The select! branch that consumes the permit changes no batch and no queue.
LEMMA NotifiedStep ==
    ASSUME IInv, TypeOK', NEW d \in Requests, Notified(d)
    PROVE  IInv'
<1>a. /\ drain[d] = "reads" /\ drain' = [drain EXCEPT ![d] = "admit"]
      /\ UNCHANGED <<req, queue, present, batch, status, arrival, arrivals>>
  BY DEF Notified, history
<1>b. \A e \in Requests : Live(e)' <=> Live(e)
  BY <1>a DEF IInv, TypeOK, Live
<1>1. QueueContents' /\ QueueComplete' /\ QueueSorted' /\ QueuePresent'
         /\ ArrivalBound' /\ StartedFirst' /\ NoOvertaking' /\ BatchComplete'
         /\ BatchShape'
  BY <1>a DEF IInv, QueueContents, QueueComplete, QueueSorted, QueuePresent,
              ArrivalBound, StartedFirst, SameKey, Started, NoOvertaking,
              Conflict, IsRead, Finished, BatchComplete, BatchShape, Active
<1>2. BatchContents' /\ BatchReads'
  BY <1>a DEF IInv, TypeOK, BatchContents, BatchReads, Active, IsRead
<1>3. DrainUnique' /\ DrainPresent'
  BY <1>a, <1>b DEF IInv, DrainUnique, DrainPresent
<1>4. FreshDrain'
  BY <1>a DEF IInv, TypeOK, FreshDrain
<1> QED BY <1>1, <1>2, <1>3, <1>4 DEF IInv

\* A request spawned without a key touches no queue and no drain task.
LEMMA SpawnStep ==
    ASSUME IInv, TypeOK', NEW r \in Requests, SpawnUnserialized(r)
    PROVE  IInv'
<1>a. /\ status[r] = "new" /\ req[r].key = NoKey
      /\ status' = [status EXCEPT ![r] = "held"]
      /\ UNCHANGED <<req, queue, present, drain, batch, arrival, arrivals>>
  BY DEF SpawnUnserialized, CanArrive, queueVars, history
<1>b. \A x \in Requests : x # r => status'[x] = status[x]
  BY <1>a DEF IInv, TypeOK
<1>c. status'[r] = "held"
  BY <1>a DEF IInv, TypeOK
<1>1. QueueContents' /\ QueueComplete' /\ QueueSorted' /\ QueuePresent'
  <2>1. QueueContents'
    BY <1>a, <1>b DEF IInv, TypeOK, QueueContents
  <2>2. QueueComplete' /\ QueueSorted' /\ QueuePresent'
    BY <1>a, <1>b, <1>c DEF IInv, QueueComplete, QueueSorted, QueuePresent
  <2> QED BY <2>1, <2>2
<1>2. ArrivalBound' /\ StartedFirst' /\ NoOvertaking'
  BY <1>a, <1>b, <1>c DEF IInv, ArrivalBound, StartedFirst, SameKey, Started,
              NoOvertaking, Conflict, IsRead, Finished
<1>3. DrainUnique' /\ DrainPresent' /\ FreshDrain'
  BY <1>a, <1>b, <1>c DEF IInv, DrainUnique, DrainPresent, FreshDrain, Live
<1>4. BatchContents' /\ BatchComplete' /\ BatchShape' /\ BatchReads'
  BY <1>a, <1>b, <1>c DEF IInv, BatchContents, BatchComplete, BatchShape,
              BatchReads, Active, IsRead
<1> QED BY <1>1, <1>2, <1>3, <1>4 DEF IInv

\* Every step keeps every variable in its type.
LEMMA TypeStep == IInv /\ [Next]_vars => TypeOK'
<1> SUFFICES ASSUME IInv, [Next]_vars PROVE TypeOK'
  OBVIOUS
<1> USE DEF queueVars, history
<1>t. TypeOK
  BY DEF IInv
<1>l. ASSUME NEW d \in Requests, Live(d) PROVE req[d].key \in Keys
  BY <1>l, KeyType DEF IInv, DrainPresent
\* A drain task takes requests from a queue that is in the map.
<1>q. ASSUME NEW d \in Requests, Live(d), NEW n, TakeFront(d, n), UNCHANGED present
      PROVE  \A k \in Keys : ~present'[k] => queue'[k] = <<>>
  <2>1. present[req[d].key]
    BY <1>q DEF IInv, DrainPresent
  <2> QED BY <1>q, <1>t, <2>1 DEF TakeFront, TypeOK
<1>1. ASSUME NEW r \in Requests, Enqueue(r) PROVE TypeOK'
  <2>1. req[r].key \in Keys
    BY <1>1, <1>t, KeyType DEF Enqueue
  <2>2. queue[req[r].key] \in Seq(Requests) /\ present[req[r].key] \in BOOLEAN
    BY <1>t, <2>1 DEF TypeOK
  <2>3. Append(queue[req[r].key], r) \in Seq(Requests)
    BY <2>2
  <2>4. queue' \in [Keys -> Seq(Requests)]
    BY <1>1, <1>t, <2>1, <2>3 DEF Enqueue, TypeOK
  <2>5. changed' \in [Keys -> BOOLEAN] /\ present' \in [Keys -> BOOLEAN]
    BY <1>1, <1>t, <2>1, <2>2 DEF Enqueue, TypeOK
  <2>6. arrival' \in [Requests -> Nat] /\ arrivals' \in [Keys -> Nat]
    BY <1>1, <1>t, <2>1 DEF Enqueue, TypeOK
  <2>7. \A k \in Keys : ~present'[k] => queue'[k] = <<>>
    BY <1>1, <1>t, <2>1 DEF Enqueue, TypeOK
  <2> QED BY <1>1, <1>t, <2>4, <2>5, <2>6, <2>7 DEF Enqueue, TypeOK
<1>2. ASSUME NEW r \in Requests, SpawnUnserialized(r) PROVE TypeOK'
  BY <1>2, <1>t DEF SpawnUnserialized, TypeOK
<1>3. ASSUME NEW d \in Requests, PopExclusive(d) PROVE TypeOK'
  <2>1. req[d].key \in Keys
    BY <1>3, <1>l DEF PopExclusive, Live
  <2>2. 1 \in 0..Len(queue[req[d].key])
    BY <1>3, <1>t, <2>1 DEF PopExclusive, TypeOK
  <2>3. \A k \in Keys : ~present'[k] => queue'[k] = <<>>
    BY <1>3, <1>q DEF PopExclusive, Live
  <2> QED BY <1>3, <1>t, <2>1, <2>2, <2>3, TakeFrontType DEF PopExclusive, TypeOK
<1>4. ASSUME NEW d \in Requests, PopReads(d) PROVE TypeOK'
  <2>1. req[d].key \in Keys
    BY <1>4, <1>l DEF PopReads, Live
  <2>2. PICK n \in 0..Len(queue[req[d].key]) : TakeFront(d, n)
    BY <1>4, <1>t, <2>1 DEF PopReads, TypeOK
  <2>3. \A k \in Keys : ~present'[k] => queue'[k] = <<>>
    BY <1>4, <1>q, <2>2 DEF PopReads, Live
  <2> QED BY <1>4, <1>t, <2>1, <2>2, <2>3, TakeFrontType DEF PopReads, TypeOK
<1>5. ASSUME NEW d \in Requests, PopNone(d) PROVE TypeOK'
  BY <1>5, <1>t DEF PopNone, TypeOK
<1>6. ASSUME NEW d \in Requests, Notified(d) PROVE TypeOK'
  BY <1>6, <1>t DEF Notified, TypeOK
<1>7. ASSUME NEW d \in Requests, AdmitReads(d) PROVE TypeOK'
  <2>1. req[d].key \in Keys
    BY <1>7, <1>l DEF AdmitReads, Live
  <2>2. PICK n \in 0..Len(queue[req[d].key]) : TakeFront(d, n)
    BY <1>7 DEF AdmitReads
  <2>3. \A k \in Keys : ~present'[k] => queue'[k] = <<>>
    BY <1>7, <1>q, <2>2 DEF AdmitReads, Live
  <2> QED BY <1>7, <1>t, <2>1, <2>2, <2>3, TakeFrontType DEF AdmitReads, TypeOK
<1>8. ASSUME NEW r \in Requests, GateEnter(r) PROVE TypeOK'
  BY <1>8, <1>t DEF GateEnter, TypeOK
<1>9. ASSUME NEW r \in Requests, GateSkip(r) \/ HandlerDone(r) PROVE TypeOK'
  <2>1. batch' \in [Requests -> SUBSET Requests]
    BY <1>9, <1>t DEF GateSkip, HandlerDone, LeaveBatch, TypeOK
  <2>2. drain' \in [Requests -> {"none", "pop", "exclusive", "reads", "admit",
                                 "ended"}]
    BY <1>9, <1>t DEF GateSkip, HandlerDone, LeaveBatch, TypeOK
  <2>3. \A k \in Keys : ~present'[k] => queue'[k] = <<>>
    BY <1>9, <1>t DEF GateSkip, HandlerDone, TypeOK
  <2> QED BY <1>9, <1>t, <2>1, <2>2, <2>3 DEF GateSkip, HandlerDone, TypeOK
<1>10. ASSUME NEW c \in Conns, ConnectionClosed(c) \/ Drained(c) \/ DrainTimeout(c)
       PROVE TypeOK'
  BY <1>10, <1>t DEF ConnectionClosed, Drained, DrainTimeout, TypeOK
<1>11. CASE UNCHANGED vars
  BY <1>11, <1>t DEF vars, TypeOK
<1> QED BY <1>1, <1>2, <1>3, <1>4, <1>5, <1>6, <1>7, <1>8, <1>9, <1>10, <1>11
        DEF Next

\* Every step keeps the inductive invariant.
LEMMA NextInv == IInv /\ [Next]_vars => IInv'
<1> SUFFICES ASSUME IInv, [Next]_vars PROVE IInv'
  OBVIOUS
<1>t. TypeOK /\ TypeOK'
  BY TypeStep DEF IInv
<1>1. ASSUME NEW r \in Requests, Enqueue(r) PROVE IInv'
  BY <1>1, <1>t, EnqueueStep
<1>2. ASSUME NEW r \in Requests, SpawnUnserialized(r) PROVE IInv'
  BY <1>2, <1>t, SpawnStep
<1>3. ASSUME NEW d \in Requests, PopExclusive(d) PROVE IInv'
  <2>1. req[d].key \in Keys
    BY <1>3, KeyType DEF PopExclusive, IInv, DrainPresent, Live
  <2>2. 1 \in 0..Len(queue[req[d].key])
    BY <1>3, <1>t, <2>1 DEF PopExclusive, TypeOK
  <2>3. /\ drain[d] \in {"pop", "admit"} /\ drain[d] = "pop"
        /\ TakeFront(d, 1) /\ drain' = [drain EXCEPT ![d] = "exclusive"]
        /\ UNCHANGED <<req, present, history>>
    BY <1>3 DEF PopExclusive
  <2> QED BY <1>t, <2>2, <2>3, TakeStep
<1>4. ASSUME NEW d \in Requests, PopReads(d) \/ AdmitReads(d) PROVE IInv'
  <2>1. req[d].key \in Keys
    BY <1>4, KeyType DEF PopReads, AdmitReads, IInv, DrainPresent, Live
  <2>2. PICK n \in 0..Len(queue[req[d].key]) :
            IsReadRun(queue[req[d].key], n) /\ TakeFront(d, n)
    BY <1>4, <1>t, <2>1 DEF PopReads, AdmitReads, TypeOK
  <2>3. /\ drain[d] \in {"pop", "admit"}
        /\ drain' = [drain EXCEPT ![d] = "reads"]
        /\ UNCHANGED <<req, present, history>>
    BY <1>4 DEF PopReads, AdmitReads
  <2>4. \A i \in 1..n : IsRead(queue[req[d].key][i])
    BY <2>2 DEF IsReadRun
  <2> QED BY <1>t, <2>2, <2>3, <2>4, TakeStep
<1>5. ASSUME NEW d \in Requests, PopNone(d) PROVE IInv'
  BY <1>5, <1>t, PopNoneStep
<1>6. ASSUME NEW d \in Requests, Notified(d) PROVE IInv'
  BY <1>6, <1>t, NotifiedStep
<1>7. ASSUME NEW r \in Requests, GateEnter(r) PROVE IInv'
  <2>1. \A x \in Requests : status'[x] = status[x]
                            \/ (status[x] = "held" /\ status'[x] = "running")
    BY <1>7, <1>t DEF GateEnter, TypeOK
  <2>2. UNCHANGED <<req, queueVars, drain, batch, history>>
    BY <1>7 DEF GateEnter
  <2> QED BY <1>t, <2>1, <2>2, QuietStep
<1>8. ASSUME NEW r \in Requests, GateSkip(r) \/ HandlerDone(r) PROVE IInv'
  <2>1. PICK s \in {"done", "skipped"} : status' = [status EXCEPT ![r] = s]
    BY <1>8 DEF GateSkip, HandlerDone
  <2>2. Active(r) /\ LeaveBatch(r) /\ UNCHANGED <<req, queueVars, history>>
    BY <1>8 DEF GateSkip, HandlerDone, Active
  <2> QED BY <1>t, <2>1, <2>2, LeaveStep
<1>9. ASSUME NEW c \in Conns, ConnectionClosed(c) \/ Drained(c) \/ DrainTimeout(c)
      PROVE IInv'
  <2>1. UNCHANGED <<req, queueVars, drain, batch, status, history>>
    BY <1>9 DEF ConnectionClosed, Drained, DrainTimeout
  <2> QED BY <1>t, <2>1, QuietStep
<1>10. CASE UNCHANGED vars
  <2>1. UNCHANGED <<req, queueVars, drain, batch, status, history>>
    BY <1>10 DEF vars
  <2> QED BY <1>t, <2>1, QuietStep
<1> QED BY <1>1, <1>2, <1>3, <1>4, <1>5, <1>6, <1>7, <1>8, <1>9, <1>10 DEF Next
-------------------------------------------------------------------------------
\* The queues, tasks and history variables always have their types, and a queue
\* is taken out of the map only when no request is left in it.
THEOREM TypeCorrect == Spec => []TypeOK
<1>1. IInv => TypeOK
  BY DEF IInv
<1> QED BY InitInv, NextInv, <1>1, PTL DEF Spec

\* drain never lets a request past a conflicting one that arrived before it.
THEOREM Serialized == Spec => []NoOvertaking
<1>1. IInv => NoOvertaking
  BY DEF IInv
<1> QED BY InitInv, NextInv, <1>1, PTL DEF Spec

\* A key with unfinished requests has exactly one drain task, at every moment
\* of enqueue's hand-over to a task that is about to end.
THEOREM SingleDrain == Spec => []OneDrainTask
<1>1. IInv => OneDrainTask
  <2> SUFFICES ASSUME IInv, NEW k \in Keys
               PROVE  /\ \A d, e \in LiveDrains(k) : d = e
                      /\ (\E r \in Requests : req[r].key = k
                            /\ status[r] \in {"queued", "held", "running"})
                              => LiveDrains(k) # {}
    BY DEF OneDrainTask
  <2>1. \A d, e \in LiveDrains(k) : d = e
    BY DEF IInv, DrainUnique, Live, LiveDrains
  <2>2. ASSUME NEW r \in Requests, req[r].key = k,
               status[r] \in {"queued", "held", "running"}
        PROVE  LiveDrains(k) # {}
    <3>0. k # NoKey
      BY DEF Keys
    <3>1. CASE status[r] = "queued"
      <4>1. queue[k] # <<>>
        BY <2>2, <3>1 DEF IInv, QueueComplete
      <4>2. \E d \in Requests : Live(d) /\ req[d].key = k
        BY <4>1 DEF IInv, QueuePresent, DrainPresent
      <4> QED BY <4>2 DEF LiveDrains, Live
    <3>2. CASE status[r] # "queued"
      <4>1. PICK d \in Requests : r \in batch[d]
        BY <2>2, <3>0, <3>2 DEF IInv, BatchComplete, Active
      <4>2. Live(d) /\ req[d].key = k
        BY <2>2, <4>1 DEF IInv, BatchContents, Live
      <4> QED BY <4>2 DEF LiveDrains, Live
    <3> QED BY <3>1, <3>2
  <2> QED BY <2>1, <2>2
<1> QED BY InitInv, NextInv, <1>1, PTL DEF Spec

\* ConnectionRpcGate::shutdown returns only when no handler of the connection
\* runs, and none starts afterwards.
THEOREM DrainIsFinal == Spec => []DrainedMeansIdle
<1>1. Init => DrainedMeansIdle
  BY DEF Init, DrainedMeansIdle
<1>2. TypeOK /\ DrainedMeansIdle /\ [Next]_vars => DrainedMeansIdle'
  <2> SUFFICES ASSUME TypeOK, DrainedMeansIdle, [Next]_vars, NEW c \in Conns,
                      conn'[c] = "drained", NEW r \in Requests,
                      req'[r].gate = c, status'[r] = "running"
               PROVE  FALSE
    BY DEF DrainedMeansIdle, Inflight
  <2>1. req' = req
    BY DEF Next, vars, Enqueue, SpawnUnserialized, PopExclusive, PopReads,
           PopNone, Notified, AdmitReads, GateEnter, GateSkip, HandlerDone,
           ConnectionClosed, Drained, DrainTimeout
  <2>2. CASE status[r] = "running"
    <3>1. conn[c] # "drained"
      BY <2>1, <2>2 DEF DrainedMeansIdle, Inflight
    <3>2. Drained(c)
      BY <3>1 DEF TypeOK, Next, vars, Enqueue, SpawnUnserialized, PopExclusive,
           PopReads, PopNone, Notified, AdmitReads, GateEnter, GateSkip,
           HandlerDone, ConnectionClosed, Drained, DrainTimeout
    <3> QED BY <2>1, <2>2, <3>2 DEF Drained, Inflight
  <2>3. CASE status[r] # "running"
    <3>1. ASSUME NEW x \in Requests,
                 PopExclusive(x) \/ PopReads(x) \/ AdmitReads(x)
          PROVE  FALSE
      <4>1. PICK n \in Nat : TakeFront(x, n)
        BY <3>1 DEF PopExclusive, PopReads, AdmitReads
      <4> QED BY <2>3, <4>1 DEF TakeFront
    <3>2. ASSUME NEW x \in Requests, Enqueue(x) \/ SpawnUnserialized(x)
                   \/ GateSkip(x) \/ HandlerDone(x)
          PROVE  FALSE
      BY <2>3, <3>2 DEF TypeOK, Enqueue, SpawnUnserialized, GateSkip, HandlerDone
    <3>3. ASSUME NEW x \in Requests, GateEnter(x) PROVE x = r
      BY <2>3, <3>3 DEF TypeOK, GateEnter
    <3>4. ASSUME status' = status PROVE FALSE
      BY <2>3, <3>4
    <3>5. GateEnter(r)
      BY <3>1, <3>2, <3>3, <3>4 DEF Next, vars, PopNone, Notified,
           ConnectionClosed, Drained, DrainTimeout
    <3> QED BY <2>1, <3>5, NoGateAssumption DEF GateEnter, OpenGates
  <2> QED BY <2>2, <2>3
<1> QED BY <1>1, <1>2, TypeCorrect, PTL DEF Spec

-------------------------------------------------------------------------------
(* The queues implement the promise                                           *)

\* A request that has left its queue is allowed to start or to be dropped.
LEMMA HeldMayStart ==
    ASSUME IInv, NEW r \in Requests, status[r] = "held"
    PROVE  Promise!MayStart(r)
<1> SUFFICES ASSUME NEW e \in Requests, Promise!Conflict(e, r),
                    phaseBar[e] # "new", arrival[e] < arrival[r]
             PROVE  phaseBar[e] = "finished"
  BY DEF Promise!MayStart
<1>1. TypeOK /\ NoOvertaking
  BY DEF IInv
<1>2. Conflict(e, r)
  BY DEF Promise!Conflict, Conflict, IsRead
<1>3. status[e] # "new"
  BY DEF phaseBar
<1>4. Finished(e)
  BY <1>1, <1>2, <1>3 DEF NoOvertaking, Started
<1> QED BY <1>4 DEF phaseBar, Finished

\* One request changes its status: only its phase may change.
LEMMA OnePhase ==
    ASSUME TypeOK, NEW r \in Requests,
           NEW s, status' = [status EXCEPT ![r] = s],
           NEW p, \/ s \in {"queued", "held"} /\ p = "waiting"
                  \/ s = "running" /\ p = "started"
                  \/ s \in {"done", "skipped"} /\ p = "finished"
    PROVE  phaseBar' = [phaseBar EXCEPT ![r] = p]
<1>1. \A q \in Requests : status'[q] = IF q = r THEN s ELSE status[q]
  BY DEF TypeOK
<1> QED BY <1>1 DEF phaseBar

\* Taking requests off a queue starts none of them.
LEMMA TakingWaits ==
    ASSUME IInv, NEW d \in Requests,
           PopExclusive(d) \/ PopReads(d) \/ AdmitReads(d)
    PROVE  UNCHANGED phaseBar
<1> DEFINE k == req[d].key
<1>0. k \in Keys /\ queue[k] \in Seq(Requests)
  <2>1. Live(d)
    BY DEF PopExclusive, PopReads, AdmitReads, Live
  <2>2. k \in Keys
    BY <2>1, KeyType DEF IInv, DrainPresent
  <2> QED BY <2>2 DEF IInv, TypeOK
<1>1. PICK n \in 0..Len(queue[k]) : TakeFront(d, n)
  BY <1>0 DEF PopExclusive, PopReads, AdmitReads
<1>2. ASSUME NEW i \in 1..n PROVE status[queue[k][i]] = "queued"
  <2>1. i \in 1..Len(queue[k])
    BY <1>0
  <2> QED BY <1>0, <2>1 DEF IInv, QueueContents
<1>3. \A r \in Requests : phaseBar'[r] = phaseBar[r]
  BY <1>1, <1>2 DEF TakeFront, phaseBar
<1> QED BY <1>3 DEF phaseBar

\* Every step of enqueue, drain and ConnectionRpcGate::run is a step of the
\* promise or changes nothing there: a request that arrives gets the highest
\* number of its key, a handler starts or is skipped only when every earlier
\* conflicting request has finished.  This is the safety part of
\* ImplementsPromise for any sets of requests, connections and scopes.
THEOREM Implements == Spec => Promise!SafeSpec
<1>1. Init => Promise!Init
  <2> SUFFICES ASSUME Init PROVE Promise!Init
    OBVIOUS
  <2>1. phaseBar = [r \in Requests |-> "new"]
    BY DEF Init, phaseBar
  <2> QED BY <2>1 DEF Init, Promise!Init
<1>2. IInv /\ [Next]_vars => [Promise!Next]_(Promise!vars)
  <2> SUFFICES ASSUME IInv, [Next]_vars PROVE Promise!Next \/ UNCHANGED Promise!vars
    OBVIOUS
  <2>t. TypeOK
    BY DEF IInv
  <2>1. ASSUME NEW r \in Requests, Enqueue(r) PROVE Promise!Arrive(r)
    <3> DEFINE k == req[r].key
    <3>1. /\ status[r] = "new" /\ status' = [status EXCEPT ![r] = "queued"]
          /\ k # NoKey /\ arrival' = [arrival EXCEPT ![r] = arrivals[k] + 1]
          /\ req' = req
      BY <2>1 DEF Enqueue, CanArrive
    <3>2. phaseBar[r] = "new" /\ phaseBar' = [phaseBar EXCEPT ![r] = "waiting"]
      BY <2>t, <3>1, OnePhase DEF phaseBar
    <3>3. arrivals[k] \in Nat
      BY <2>t, <3>1, KeyType DEF TypeOK
    <3>4. arrival'[r] = arrivals[k] + 1
      BY <2>t, <3>1 DEF TypeOK
    <3>5. ASSUME NEW e \in Requests, req[e].key = k PROVE arrival[e] < arrival'[r]
      <4>1. arrival[e] \in Nat /\ arrival[e] <= arrivals[k]
        BY <2>t, <3>1, <3>5 DEF IInv, ArrivalBound, TypeOK
      <4> QED BY <3>3, <3>4, <4>1
    <3>6. arrival' = [arrival EXCEPT ![r] = arrival'[r]] /\ arrival'[r] \in Nat
      <4>1. arrivals[k] + 1 \in Nat
        BY <3>3
      <4> QED BY <3>1, <3>4, <4>1
    <3> HIDE DEF k
    <3> QED BY <3>1, <3>2, <3>5, <3>6 DEF Promise!Arrive, k
  <2>2. ASSUME NEW r \in Requests, SpawnUnserialized(r) PROVE Promise!Arrive(r)
    <3>1. /\ status[r] = "new" /\ status' = [status EXCEPT ![r] = "held"]
          /\ req[r].key = NoKey /\ arrival' = arrival /\ req' = req
      BY <2>2 DEF SpawnUnserialized, CanArrive, history
    <3>2. phaseBar[r] = "new" /\ phaseBar' = [phaseBar EXCEPT ![r] = "waiting"]
      BY <2>t, <3>1, OnePhase DEF phaseBar
    <3>3. arrival' = [arrival EXCEPT ![r] = arrival'[r]] /\ arrival'[r] \in Nat
      BY <2>t, <3>1 DEF TypeOK
    <3> QED BY <3>1, <3>2, <3>3 DEF Promise!Arrive
  <2>3. ASSUME NEW r \in Requests, GateEnter(r) PROVE Promise!Start(r)
    <3>1. /\ status[r] = "held" /\ status' = [status EXCEPT ![r] = "running"]
          /\ arrival' = arrival /\ req' = req
      BY <2>3 DEF GateEnter, history
    <3>2. phaseBar[r] = "waiting" /\ phaseBar' = [phaseBar EXCEPT ![r] = "started"]
      BY <2>t, <3>1, OnePhase DEF phaseBar
    <3> QED BY <3>1, <3>2, HeldMayStart DEF Promise!Start
  <2>4. ASSUME NEW r \in Requests, GateSkip(r) PROVE Promise!Drop(r)
    <3>1. /\ status[r] = "held" /\ status' = [status EXCEPT ![r] = "skipped"]
          /\ arrival' = arrival /\ req' = req
      BY <2>4 DEF GateSkip, history
    <3>2. phaseBar[r] = "waiting" /\ phaseBar' = [phaseBar EXCEPT ![r] = "finished"]
      BY <2>t, <3>1, OnePhase DEF phaseBar
    <3> QED BY <3>1, <3>2, HeldMayStart DEF Promise!Drop
  <2>5. ASSUME NEW r \in Requests, HandlerDone(r) PROVE Promise!Finish(r)
    <3>1. /\ status[r] = "running" /\ status' = [status EXCEPT ![r] = "done"]
          /\ arrival' = arrival /\ req' = req
      BY <2>5 DEF HandlerDone, history
    <3>2. phaseBar[r] = "started" /\ phaseBar' = [phaseBar EXCEPT ![r] = "finished"]
      BY <2>t, <3>1, OnePhase DEF phaseBar
    <3> QED BY <3>1, <3>2 DEF Promise!Finish
  <2>6. ASSUME NEW d \in Requests, PopExclusive(d) \/ PopReads(d) \/ AdmitReads(d)
        PROVE  UNCHANGED Promise!vars
    <3>1. UNCHANGED phaseBar
      BY <2>6, TakingWaits
    <3> QED BY <2>6, <3>1 DEF PopExclusive, PopReads, AdmitReads, history, Promise!vars
  <2>7. ASSUME UNCHANGED <<req, status, arrival>> PROVE UNCHANGED Promise!vars
    BY <2>7 DEF phaseBar, Promise!vars
  <2>8. ASSUME NEW d \in Requests, PopNone(d) \/ Notified(d)
        PROVE  UNCHANGED <<req, status, arrival>>
    BY <2>8 DEF PopNone, Notified, history
  <2>9. ASSUME NEW c \in Conns, ConnectionClosed(c) \/ Drained(c) \/ DrainTimeout(c)
        PROVE  UNCHANGED <<req, status, arrival>>
    BY <2>9 DEF ConnectionClosed, Drained, DrainTimeout, history
  <2>10. CASE UNCHANGED vars
    BY <2>7, <2>10 DEF vars, history
  <2>11. CASE Next
    BY <2>1, <2>2, <2>3, <2>4, <2>5, <2>6, <2>7, <2>8, <2>9, <2>11 DEF Next, Promise!Next
  <2> QED BY <2>10, <2>11
<1> QED BY <1>1, <1>2, InitInv, NextInv, PTL DEF Spec, Promise!SafeSpec
=============================================================================
