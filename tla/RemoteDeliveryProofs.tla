------------------------ MODULE RemoteDeliveryProofs ------------------------
(***************************************************************************)
(* On a steady log the app-server gets every message of a stream once and  *)
(* in order, however often sends time out, readers are aborted and         *)
(* connections subscribe again behind the recorded cursor.                 *)
(***************************************************************************)
EXTENDS RemoteInboundProofs

Known(k) == clients[k] # 0

\* The envelope that carries a message to the tracker: a whole one or a last chunk.
Ends(e) == IsChunk(e) => e.seg + 1 = e.count

\* The reader handles the envelope it read last.
Handling == at \in {"open", "send", "record"} \/ (at = "close" /\ gone = {})

\* What is left of the log once the reader is through with what it handles: up
\* to here every envelope was handled, dropped or kept as a part.
Settled == IF at = "down" THEN cursor ELSE IF Handling THEN pos - 1 ELSE pos

PlaceOK ==
    /\ Handling => pos \in 1..Len(log) /\ env = log[pos] /\ Ends(env) /\ assembly.key = None
    /\ at = "open" => IsInitialize(env)
    /\ at = "send" => Numbered(env)
    /\ \A k \in gone \ todo : ~Known(k)

\* Only chunks were read and not recorded.
CursorOK ==
    /\ cursor <= Settled
    /\ cursor > 0 => Ends(log[cursor])
    /\ \A i \in (cursor + 1)..Settled : IsChunk(log[i])

UnknownOK == \A k \in Keys : ~Known(k) => lastSeq[k] = 0

\* Nothing settled is above the last number delivered.
Delivered ==
    \A k \in Keys : Known(k) /\ lastSeq[k] > 0 =>
      \A i \in 1..Settled :
        Numbered(log[i]) /\ log[i].key = k /\ Ends(log[i]) => log[i].seq <= lastSeq[k]

\* A client whose initialize was not delivered meets that initialize again first.
FirstIs(k, i) ==
    /\ IsInitialize(log[i]) /\ log[i].key = k
    /\ \A p \in (cursor + 1)..(i - 1) : ~(Numbered(log[p]) /\ log[p].key = k)
Awaited ==
    \A k \in Keys : Known(k) /\ lastSeq[k] = 0 =>
      \E i \in (Settled + 1)..Len(log) : FirstIs(k, i)

\* The message to be sent is the next one; the one to be recorded was delivered.
HandledOK ==
    /\ at = "send" => IF IsInitialize(env) THEN lastSeq[env.key] = 0
                      ELSE lastSeq[env.key] > 0 /\ env.seq = lastSeq[env.key] + 1
    /\ at = "record" /\ Numbered(env) /\ Known(env.key) => env.seq <= lastSeq[env.key]

DoneOK ==
    /\ \A k \in Keys : Known(k) /\ lastSeq[k] > 0 => chunkDone[k] <= lastSeq[k]
    /\ \A k \in Keys : chunkDone[k] > 0 =>
         \E p \in 1..cursor : IsChunk(log[p]) /\ log[p].key = k /\ log[p].seq = chunkDone[k]

\* A half-assembled message has its first chunk behind the cursor, among chunks, and the
\* reader has not passed the chunk it waits for.
AssemblyOK ==
    assembly.key # None =>
      /\ chunkDone[assembly.key] < assembly.seq
      /\ Known(assembly.key) => assembly.seq <= lastSeq[assembly.key] + 1
      /\ 1 <= assembly.next /\ assembly.next < assembly.count
      /\ \E b \in (cursor + 1)..Len(log) :
           /\ IsChunk(log[b]) /\ log[b].key = assembly.key /\ log[b].seq = assembly.seq
           /\ log[b].count = assembly.count /\ log[b].seg = 0
           /\ \A i \in (cursor + 1)..b : IsChunk(log[i])
           /\ Settled + 1 <= b + assembly.next

\* Inside a message that is still to be delivered, the chunks read are kept.
InRun ==
    ~Handling /\ at # "down" /\ pos > 0 /\ ~Ends(log[pos]) =>
      LET e == log[pos] IN
      Known(e.key) /\ lastSeq[e.key] > 0 /\ e.seq > lastSeq[e.key] =>
        /\ assembly.key = e.key /\ assembly.seq = e.seq /\ assembly.count = e.count
        /\ e.seg < assembly.next

\* The connection of a client ends with the last message delivered.
FeedsOK ==
    \A k \in Keys : Known(k) =>
      IF lastSeq[k] = 0 THEN Len(feed[clients[k]]) = 1
      ELSE /\ Len(feed[clients[k]]) >= 2
           /\ feed[clients[k]][Len(feed[clients[k]])].seq = lastSeq[k]

LedgerOK == UnknownOK /\ Delivered /\ Awaited /\ DoneOK /\ AssemblyOK

DInv ==
    /\ IInv /\ Steady(log)
    /\ PlaceOK /\ CursorOK /\ LedgerOK /\ HandledOK /\ InRun
    /\ FeedsOK /\ NoGap
-----------------------------------------------------------------------------
(* Steady logs *)

\* What a step may use of the invariant, with types.
LEMMA Parts ==
    ASSUME DInv
    PROVE  /\ IInv /\ Steady(log) /\ PlaceOK /\ CursorOK /\ LedgerOK /\ HandledOK /\ InRun
           /\ UnknownOK /\ Delivered /\ Awaited /\ DoneOK /\ AssemblyOK
           /\ FeedsOK /\ NoGap
           /\ TrackerTypes /\ OtherTypes /\ ReaderOK /\ FeedOK
BY Disassemble DEF DInv, LedgerOK

LEMMA LogTypes ==
    ASSUME IInv
    PROVE  /\ log \in Seq(Envelope) /\ Len(log) \in Nat /\ DOMAIN log = 1..Len(log)
           /\ pos \in 0..Len(log) /\ cursor \in 0..Len(log)
           /\ \A i \in 1..Len(log) :
                /\ log[i] \in Envelope /\ log[i].key \in Keys /\ log[i].kind \in Kinds
                /\ log[i].seq \in Nat /\ log[i].seq > 0 /\ log[i].seg \in Nat
                /\ log[i].count \in Nat /\ log[i].count > 0
<1>1. log \in Seq(Envelope) /\ Len(log) \in Nat
  BY LogProps
<1>2. pos \in 0..Len(log) /\ cursor \in 0..Len(log)
  BY Disassemble DEF OtherTypes
<1>3. ASSUME NEW i \in 1..Len(log)
      PROVE  /\ log[i] \in Envelope /\ log[i].key \in Keys /\ log[i].kind \in Kinds
             /\ log[i].seq \in Nat /\ log[i].seq > 0 /\ log[i].seg \in Nat
             /\ log[i].count \in Nat /\ log[i].count > 0
  <2>1. log[i] \in Envelope
    BY <1>1
  <2> QED BY <2>1 DEF Envelope
<1> QED BY <1>1, <1>2, <1>3

\* How much is settled, and that it is part of the log.
LEMMA SettledType ==
    ASSUME IInv, PlaceOK
    PROVE  /\ Settled \in 0..Len(log) /\ Settled \in Nat
           /\ at = "down" => Settled = cursor
           /\ Handling => Settled = pos - 1 /\ at # "down"
           /\ ~Handling /\ at # "down" => Settled = pos
<1>1. pos \in 0..Len(log) /\ cursor \in 0..Len(log) /\ Len(log) \in Nat
  BY LogTypes
<1>2. Handling => pos \in 1..Len(log) /\ at # "down"
  BY DEF PlaceOK, Handling
<1> QED BY <1>1, <1>2 DEF Settled

\* The chunks of a message, from any one of them.
LEMMA Run ==
    ASSUME IInv, Steady(log), NEW j \in 1..Len(log), IsChunk(log[j]),
           NEW i \in Nat, j <= i + log[j].seg, i + log[j].seg < j + log[j].count
    PROVE  /\ i \in 1..Len(log) /\ log[j].seg < log[j].count
           /\ IsChunk(log[i]) /\ log[i].key = log[j].key /\ log[i].seq = log[j].seq
           /\ log[i].count = log[j].count /\ log[i].seg + j = i + log[j].seg
<1>1. /\ log[j] \in Envelope /\ log[j].seg \in Nat /\ log[j].count \in Nat /\ DOMAIN log = 1..Len(log)
      /\ Len(log) \in Nat
  BY LogTypes
<1>2. Numbered(log[j])
  BY DEF Numbered, IsChunk
<1>3. /\ log[j].seg < log[j].count /\ log[j].seg < j
      /\ \A m \in 0..(log[j].count - 1) :
           /\ j - log[j].seg + m \in DOMAIN log
           /\ log[j - log[j].seg + m] = [log[j] EXCEPT !.seg = m]
  BY <1>1, <1>2 DEF Steady
<1>s. PICK s \in Nat, n \in Nat : s = log[j].seg /\ n = log[j].count
  BY <1>1
<1>j. j \in Nat /\ j <= i + s /\ i + s < j + n
  BY <1>1, <1>s
<1>n. PICK m \in Nat : m = i + s - j
  BY <1>j
<1>4. m \in 0..(log[j].count - 1) /\ j - log[j].seg + m = i
  <2>1. m \in 0..(n - 1) /\ j - s + m = i
    BY <1>j, <1>n
  <2> QED BY <1>s, <2>1
<1>5. i \in 1..Len(log) /\ log[i] = [log[j] EXCEPT !.seg = m]
  BY <1>1, <1>3, <1>4
<1>6. /\ log[i].kind = log[j].kind /\ log[i].key = log[j].key /\ log[i].seq = log[j].seq
      /\ log[i].count = log[j].count /\ log[i].seg = m
  BY <1>1, <1>5 DEF Envelope
<1> QED BY <1>1, <1>3, <1>s, <1>j, <1>n, <1>5, <1>6 DEF IsChunk

\* A chunk that is not the first follows the chunk before it.
LEMMA Before ==
    ASSUME IInv, Steady(log), NEW j \in 1..Len(log), IsChunk(log[j]), log[j].seg > 0
    PROVE  /\ j - 1 \in 1..Len(log)
           /\ IsChunk(log[j - 1]) /\ log[j - 1].key = log[j].key /\ log[j - 1].seq = log[j].seq
           /\ log[j - 1].count = log[j].count /\ log[j - 1].seg + 1 = log[j].seg
           /\ ~Ends(log[j - 1])
<1>1. log[j].seg \in Nat /\ log[j].count \in Nat /\ Len(log) \in Nat /\ DOMAIN log = 1..Len(log)
  BY LogTypes
<1>2. log[j].seg < log[j].count /\ log[j].seg < j
  BY <1>1 DEF Steady, Numbered, IsChunk
<1>3. PICK i \in Nat : i = j - 1
  BY <1>1
<1>4. j <= i + log[j].seg /\ i + log[j].seg < j + log[j].count
  BY <1>1, <1>2, <1>3
<1>5. /\ i \in 1..Len(log) 
      /\ IsChunk(log[i]) /\ log[i].key = log[j].key /\ log[i].seq = log[j].seq
      /\ log[i].count = log[j].count /\ log[i].seg + j = i + log[j].seg
  BY <1>4, Run
<1>6. log[i].seg \in Nat
  BY <1>5, LogTypes
<1> QED BY <1>1, <1>2, <1>3, <1>5, <1>6 DEF Ends

\* The cursor is never inside a run of chunks, and what was read behind it are chunks.
LEMMA RunBehindCursor ==
    ASSUME IInv, Steady(log), PlaceOK, CursorOK, NEW j \in 1..Len(log), j = Settled + 1, IsChunk(log[j])
    PROVE  \E b \in (cursor + 1)..Len(log) :
             /\ IsChunk(log[b]) /\ log[b].key = log[j].key /\ log[b].seq = log[j].seq
             /\ log[b].count = log[j].count /\ log[b].seg = 0 /\ b + log[j].seg = j
             /\ \A i \in (cursor + 1)..b : IsChunk(log[i])
<1>1. /\ log[j].seg \in Nat /\ log[j].count \in Nat /\ Len(log) \in Nat /\ DOMAIN log = 1..Len(log)
      /\ cursor \in 0..Len(log)
  BY LogTypes
<1>2. log[j].seg < log[j].count /\ log[j].seg < j
  BY <1>1 DEF Steady, Numbered, IsChunk
<1>3. PICK b \in Nat : b = j - log[j].seg
  BY <1>1, <1>2
<1>4. /\ b \in 1..Len(log) 
      /\ IsChunk(log[b]) /\ log[b].key = log[j].key /\ log[b].seq = log[j].seq
      /\ log[b].count = log[j].count /\ log[b].seg + j = b + log[j].seg
  BY <1>1, <1>2, <1>3, Run
<1>5. log[b].seg = 0 /\ b + log[j].seg = j
  <2>1. log[b].seg \in Nat
    BY <1>4, LogTypes
  <2> QED BY <1>1, <1>3, <1>4, <2>1
<1>6. cursor < b
  <2> SUFFICES ASSUME b <= cursor PROVE FALSE
    BY <1>1, <1>3
  <2>1. cursor < j /\ cursor > 0 /\ Ends(log[cursor]) /\ cursor \in Nat
    BY <1>1, <1>3, <1>4, SettledType DEF CursorOK
  <2>2. j <= cursor + log[j].seg /\ cursor + log[j].seg < j + log[j].count
    BY <1>1, <1>2, <1>5, <2>1
  <2>3. /\ cursor \in 1..Len(log) /\ IsChunk(log[cursor]) /\ log[cursor].count = log[j].count
        /\ log[cursor].seg + j = cursor + log[j].seg
    BY <2>1, <2>2, Run
  <2>4. log[cursor].seg \in Nat
    BY <2>3, LogTypes
  <2> QED BY <1>1, <1>2, <2>1, <2>3, <2>4 DEF Ends
<1>7. \A i \in (cursor + 1)..b : IsChunk(log[i])
  <2> SUFFICES ASSUME NEW i \in (cursor + 1)..b PROVE IsChunk(log[i])
    OBVIOUS
  <2>1. CASE i = j
    BY <2>1
  <2>2. CASE i # j
    <3>1. i \in (cursor + 1)..Settled
      BY <1>1, <1>3, <2>2, SettledType
    <3> QED BY <3>1 DEF CursorOK
  <2> QED BY <2>1, <2>2
<1> QED BY <1>1, <1>4, <1>5, <1>6, <1>7

\* A client's next message is the one behind the last delivered, or an earlier one.
LEMMA NextSeq ==
    ASSUME IInv, Steady(log), PlaceOK, Delivered, NEW j \in 1..Len(log), j = Settled + 1,
           Numbered(log[j]), ~IsInitialize(log[j]),
           Known(log[j].key), lastSeq[log[j].key] > 0
    PROVE  log[j].seq <= lastSeq[log[j].key] + 1
<1>1. /\ log[j].key \in Keys /\ log[j].seq \in Nat /\ Len(log) \in Nat /\ DOMAIN log = 1..Len(log)
  BY LogTypes
<1>2. PICK i \in 1..(j - 1) :
        Numbered(log[i]) /\ log[i].key = log[j].key /\ log[i].seq + 1 = log[j].seq
  BY <1>1 DEF Steady
<1>3. /\ i \in 1..Len(log) /\ i \in Nat /\ log[i].seq \in Nat /\ log[i].seg \in Nat
      /\ log[i].count \in Nat
  BY <1>1, <1>2, LogTypes
<1>s. Settled \in Nat /\ lastSeq[log[j].key] \in Nat
  BY <1>1, SettledType, Disassemble DEF TrackerTypes
<1>4. ASSUME NEW c \in 1..Settled, Numbered(log[c]), log[c].key = log[j].key, Ends(log[c]),
             log[c].seq = log[i].seq
      PROVE  log[j].seq <= lastSeq[log[j].key] + 1
  <2>1. log[c].seq <= lastSeq[log[j].key]
    BY <1>1, <1>4 DEF Delivered
  <2> QED BY <1>1, <1>2, <1>3, <1>4, <1>s, <2>1
<1>5. CASE ~IsChunk(log[i])
  <2>1. i \in 1..Settled /\ Ends(log[i])
    BY <1>2, <1>3, <1>5, <1>s DEF Ends
  <2> QED BY <1>2, <1>4, <2>1
<1>6. CASE IsChunk(log[i])
  <2>1. log[i].seg < log[i].count
    BY <1>1, <1>2, <1>3, <1>6 DEF Steady
  <2>2. PICK s \in Nat, n \in Nat : s = log[i].seg /\ n = log[i].count /\ s < n
    BY <1>3, <2>1
  <2>i. i \in Nat
    BY <1>3
  <2>3. PICK c \in Nat : c + s + 1 = i + n
    <3>1. i + (n - 1 - s) \in Nat /\ (i + (n - 1 - s)) + s + 1 = i + n
      <4>1. PICK d \in Nat : d = n - 1 - s
        BY <2>2
      <4>2. i + d \in Nat /\ (i + d) + s + 1 = i + n
        BY <2>i, <4>1
      <4> QED BY <4>1, <4>2
    <3> QED BY <3>1
  <2>4. i <= c + log[i].seg /\ c + log[i].seg < i + log[i].count
    <3>1. i <= c + s /\ c + s < i + n
      BY <2>i, <2>2, <2>3
    <3> QED BY <2>2, <3>1
  <2>5. /\ c \in 1..Len(log) /\ IsChunk(log[c]) /\ log[c].key = log[i].key
        /\ log[c].seq = log[i].seq /\ log[c].count = log[i].count
        /\ log[c].seg + i = c + log[i].seg
    BY <1>3, <1>6, <2>4, Run
  <2>6. log[c].seg \in Nat /\ log[c].seg + 1 = log[c].count
    <3>1. log[c].seg \in Nat
      BY <2>5, LogTypes
    <3>2. PICK t \in Nat : t = log[c].seg
      BY <3>1
    <3>3. t + i = c + s /\ log[c].count = n
      BY <2>2, <2>5, <3>2
    <3>4. t + 1 = n
      BY <2>i, <2>3, <3>3
    <3> QED BY <3>2, <3>3, <3>4
  <2>7. c < j
    <3> SUFFICES ASSUME j <= c PROVE FALSE
      BY <1>1, <2>3
    <3>j. j \in Nat /\ i < j
      BY <1>1, <1>2
    <3>k. i <= j + s /\ j + s < i + n
      BY <2>i, <2>2, <2>3, <3>j
    <3>1. j \in Nat /\ i <= j + log[i].seg /\ j + log[i].seg < i + log[i].count
      BY <2>2, <3>j, <3>k
    <3>2. log[j].seq = log[i].seq
      BY <1>3, <1>6, <3>1, Run
    <3> QED BY <1>1, <1>2, <1>3, <3>2
  <2>8. c \in 1..Settled /\ Ends(log[c]) /\ Numbered(log[c])
    BY <1>s, <2>5, <2>6, <2>7 DEF Ends, Numbered, IsChunk
  <2> QED BY <1>2, <1>4, <2>5, <2>8
<1> QED BY <1>5, <1>6

\* A client whose initialize is awaited gets nothing else before it.
LEMMA AwaitsInitialize ==
    ASSUME IInv, PlaceOK, CursorOK, Awaited, NEW j \in 1..Len(log), j = Settled + 1,
           Numbered(log[j]), Known(log[j].key), lastSeq[log[j].key] = 0
    PROVE  IsInitialize(log[j])
<1>1. /\ log[j].key \in Keys /\ Len(log) \in Nat /\ cursor \in 0..Len(log) /\ Settled \in Nat
  BY LogTypes, SettledType
<1>2. PICK i \in (Settled + 1)..Len(log) :
        /\ IsInitialize(log[i]) /\ log[i].key = log[j].key
        /\ \A p \in (cursor + 1)..(i - 1) : ~(Numbered(log[p]) /\ log[p].key = log[j].key)
  BY <1>1 DEF Awaited, FirstIs
<1>3. j = i \/ j \in (cursor + 1)..(i - 1)
  BY <1>1, <1>2 DEF CursorOK
<1> QED BY <1>2, <1>3

\* A message that is not a chunk is read only when nothing is half-assembled, and a
\* half-assembled message is read on.
LEMMA AssemblyPlace ==
    ASSUME IInv, Steady(log), PlaceOK, CursorOK, AssemblyOK, NEW j \in 1..Len(log), j = Settled + 1,
           assembly.key # None
    PROVE  /\ IsChunk(log[j])
           /\ log[j].key = assembly.key => log[j].seq <= assembly.seq
           /\ log[j].key = assembly.key /\ log[j].seq = assembly.seq =>
                log[j].count = assembly.count
<1>1. /\ Len(log) \in Nat /\ cursor \in 0..Len(log) /\ Settled \in Nat /\ DOMAIN log = 1..Len(log)
  BY LogTypes, SettledType
<1>2. PICK b \in (cursor + 1)..Len(log) :
           /\ IsChunk(log[b]) /\ log[b].key = assembly.key /\ log[b].seq = assembly.seq
           /\ log[b].count = assembly.count /\ log[b].seg = 0
           /\ \A i \in (cursor + 1)..b : IsChunk(log[i])
           /\ Settled + 1 <= b + assembly.next
  BY DEF AssemblyOK
<1>3. 1 <= assembly.next /\ assembly.next < assembly.count /\ assembly.next \in Nat /\ assembly.count \in Nat
  BY Disassemble DEF AssemblyOK, OtherTypes
<1>4. b \in 1..Len(log) /\ Numbered(log[b])
  BY <1>1, <1>2 DEF Numbered, IsChunk
<1>5. CASE j <= b
  <2>1. IsChunk(log[j])
    BY <1>1, <1>2, <1>5 DEF CursorOK
  <2>2. CASE j = b
    BY <1>2, <2>1, <2>2, LogTypes
  <2>3. CASE j < b
    <3>1. j \in 1..(b - 1) /\ Numbered(log[j])
      BY <1>1, <1>4, <2>1, <2>3 DEF Numbered, IsChunk
    <3>2. log[j].key = log[b].key =>
            /\ log[j].seq <= log[b].seq
            /\ log[j].seq = log[b].seq => log[j].count = log[b].count
      BY <1>1, <1>2, <1>4, <2>1, <3>1 DEF Steady
    <3> QED BY <1>2, <2>1, <3>2
  <2> QED BY <1>4, <1>5, <2>2, <2>3
<1>6. CASE b < j
  <2>1. j \in Nat /\ b <= j + log[b].seg /\ j + log[b].seg < b + log[b].count
    BY <1>1, <1>2, <1>3, <1>4, <1>6
  <2>2. /\ IsChunk(log[j]) /\ log[j].key = log[b].key /\ log[j].seq = log[b].seq
        /\ log[j].count = log[b].count
    BY <1>2, <1>4, <2>1, Run
  <2>3. log[j].seq \in Nat
    BY LogTypes
  <2> QED BY <1>2, <2>2, <2>3
<1> QED BY <1>4, <1>5, <1>6
-----------------------------------------------------------------------------
(* What a step does to the ledger *)

\* Clients may be removed, chunk state forgotten and the reader set back.
Retreats ==
    /\ UNCHANGED <<log, cursor>>
    /\ Settled' \in Nat /\ cursor <= Settled' /\ Settled' <= Settled
    /\ \A k \in Keys : \/ clients'[k] = clients[k] /\ lastSeq'[k] = lastSeq[k]
                       \/ clients'[k] = 0 /\ lastSeq'[k] = 0
    /\ assembly' = assembly \/ assembly'.key = None
    /\ \A k \in Keys : chunkDone'[k] = chunkDone[k] \/ chunkDone'[k] = 0

LEMMA Retreat ==
    ASSUME IInv, PlaceOK, CursorOK, LedgerOK, Retreats
    PROVE  CursorOK' /\ LedgerOK'
<1>1. /\ Len(log) \in Nat /\ cursor \in 0..Len(log) /\ cursor \in Nat /\ Settled \in Nat
  BY LogTypes, SettledType
<1>2. TrackerTypes /\ OtherTypes /\ UnknownOK /\ Delivered /\ Awaited /\ DoneOK /\ AssemblyOK
  BY Disassemble DEF LedgerOK
<1>3. lastSeq \in [Keys -> Nat] /\ chunkDone \in [Keys -> Nat] /\ None \notin Keys
      /\ assembly \in [key : Keys \union {None}, seq : Nat, count : Nat, next : Nat]
  BY <1>2, RemoteInboundAssumption DEF TrackerTypes, OtherTypes
<1>r. /\ log' = log /\ cursor' = cursor
      /\ Settled' \in Nat /\ cursor <= Settled' /\ Settled' <= Settled
      /\ \A k \in Keys : \/ clients'[k] = clients[k] /\ lastSeq'[k] = lastSeq[k]
                         \/ clients'[k] = 0 /\ lastSeq'[k] = 0
      /\ assembly' = assembly \/ assembly'.key = None
      /\ \A k \in Keys : chunkDone'[k] = chunkDone[k] \/ chunkDone'[k] = 0
  BY DEF Retreats
<1>4. CursorOK'
  <2>1. ASSUME NEW i \in (cursor + 1)..Settled' PROVE IsChunk(log[i])
    <3>1. i \in (cursor + 1)..Settled
      BY <1>1, <1>r
    <3> QED BY <3>1 DEF CursorOK
  <2>2. cursor > 0 => Ends(log[cursor])
    BY DEF CursorOK
  <2> QED BY <1>r, <2>1, <2>2 DEF CursorOK
<1>5. UnknownOK'
  BY <1>2, <1>r DEF UnknownOK, Known
<1>6. Delivered'
  <2> SUFFICES ASSUME NEW k \in Keys, Known(k)', lastSeq'[k] > 0, NEW i \in 1..Settled',
                      Numbered(log[i]), log[i].key = k, Ends(log[i])
               PROVE  log[i].seq <= lastSeq'[k]
    BY <1>r DEF Delivered
  <2>1. clients'[k] = clients[k] /\ lastSeq'[k] = lastSeq[k] /\ Known(k)
    BY <1>r DEF Known
  <2>2. i \in 1..Settled
    BY <1>1, <1>r
  <2> QED BY <1>2, <2>1, <2>2 DEF Delivered
<1>7. Awaited'
  <2> SUFFICES ASSUME NEW k \in Keys, Known(k)', lastSeq'[k] = 0
               PROVE  \E i \in (Settled' + 1)..Len(log) : FirstIs(k, i)'
    BY <1>r DEF Awaited
  <2>1. clients'[k] = clients[k] /\ lastSeq'[k] = lastSeq[k] /\ Known(k)
    BY <1>r DEF Known
  <2>2. PICK i \in (Settled + 1)..Len(log) : FirstIs(k, i)
    BY <1>2, <2>1 DEF Awaited
  <2>3. FirstIs(k, i)'
    BY <1>r, <2>2 DEF FirstIs
  <2>4. i \in (Settled' + 1)..Len(log)
    <3>1. PICK t \in Nat, u \in Nat : t = Settled' /\ u = Settled
      BY <1>1, <1>r
    <3>2. t <= u /\ i \in (u + 1)..Len(log)
      BY <1>r, <3>1
    <3>3. i \in (t + 1)..Len(log)
      BY <1>1, <3>2
    <3> QED BY <3>1, <3>3
  <2> QED BY <2>3, <2>4
<1>8. DoneOK'
  <2>1. ASSUME NEW k \in Keys, Known(k)', lastSeq'[k] > 0 PROVE chunkDone'[k] <= lastSeq'[k]
    <3>1. clients'[k] = clients[k] /\ lastSeq'[k] = lastSeq[k] /\ Known(k) /\ lastSeq[k] \in Nat
      BY <1>3, <1>r, <2>1 DEF Known
    <3>2. chunkDone[k] <= lastSeq[k] /\ chunkDone'[k] \in {0, chunkDone[k]}
      BY <1>2, <1>r, <2>1, <3>1 DEF DoneOK
    <3> QED BY <3>1, <3>2
  <2>2. ASSUME NEW k \in Keys, chunkDone'[k] > 0
        PROVE  \E p \in 1..cursor : IsChunk(log[p]) /\ log[p].key = k /\ log[p].seq = chunkDone'[k]
    <3>1. chunkDone'[k] = chunkDone[k]
      BY <1>r, <2>2
    <3> QED BY <1>2, <2>2, <3>1 DEF DoneOK
  <2> QED BY <1>r, <2>1, <2>2 DEF DoneOK
<1>9. AssemblyOK'
  <2> SUFFICES ASSUME assembly'.key # None PROVE AssemblyOK'
    BY DEF AssemblyOK
  <2>1. assembly' = assembly /\ assembly.key \in Keys /\ assembly.key # None
    BY <1>3, <1>r
  <2>2. PICK k \in Keys, s \in Nat : k = assembly.key /\ s = assembly.seq
    BY <1>3, <2>1
  <2>3. chunkDone'[k] < s
    <3>1. chunkDone[k] < s /\ chunkDone[k] \in Nat
      BY <1>2, <1>3, <2>1, <2>2 DEF AssemblyOK
    <3> QED BY <1>r, <3>1
  <2>4. clients'[k] # 0 => s <= lastSeq'[k] + 1
    BY <1>2, <1>r, <2>1, <2>2 DEF AssemblyOK, Known
  <2>5. PICK b \in (cursor + 1)..Len(log) :
           /\ IsChunk(log[b]) /\ log[b].key = assembly.key /\ log[b].seq = assembly.seq
           /\ log[b].count = assembly.count /\ log[b].seg = 0
           /\ \A i \in (cursor + 1)..b : IsChunk(log[i])
           /\ Settled + 1 <= b + assembly.next
    BY <1>2, <2>1 DEF AssemblyOK
  <2>6. 1 <= assembly.next /\ assembly.next < assembly.count /\ assembly.next \in Nat
    BY <1>2, <1>3, <2>1 DEF AssemblyOK
  <2>7. Settled' + 1 <= b + assembly.next
    <3>1. b \in Nat
      BY <1>1
    <3> QED BY <1>1, <1>r, <2>5, <2>6, <3>1
  <2> QED BY <1>r, <2>1, <2>2, <2>3, <2>4, <2>5, <2>6, <2>7 DEF AssemblyOK, Known
<1> QED BY <1>4, <1>5, <1>6, <1>7, <1>8, <1>9 DEF LedgerOK

\* The connections of the clients that stay are told nothing.
LEMMA FeedsKept ==
    ASSUME FeedsOK,
           \A k \in Keys : Known(k)' =>
             /\ clients'[k] = clients[k] /\ lastSeq'[k] = lastSeq[k]
             /\ feed'[clients[k]] = feed[clients[k]]
    PROVE  FeedsOK'
BY DEF FeedsOK, Known

LEMMA GapKept ==
    ASSUME NoGap, UNCHANGED <<log, keyOf, feed>>
    PROVE  NoGap'
BY DEF NoGap, Conns
-----------------------------------------------------------------------------
(* The reader reads *)

\* A chunk of a message that is still to be delivered is expected: it starts the message or
\* it is not beyond the chunk the reassembler waits for.
LEMMA Tracked ==
    ASSUME DInv, at = "select", NEW j \in 1..Len(log), j = pos + 1, IsChunk(log[j]),
           Known(log[j].key), lastSeq[log[j].key] > 0, log[j].seq > lastSeq[log[j].key]
    PROVE  /\ chunkDone[log[j].key] < log[j].seq
           /\ \/ /\ assembly.key = log[j].key /\ assembly.seq = log[j].seq
                 /\ assembly.count = log[j].count /\ log[j].seg <= assembly.next
                 /\ assembly.next < log[j].count
              \/ assembly.key # log[j].key /\ log[j].seg = 0
<1>1. /\ IInv /\ Steady(log) /\ PlaceOK /\ CursorOK /\ InRun /\ DoneOK /\ AssemblyOK
      /\ TrackerTypes /\ OtherTypes
  BY Parts
<1>2. /\ log[j].key \in Keys /\ log[j].seq \in Nat /\ log[j].seg \in Nat /\ log[j].count \in Nat
      /\ Len(log) \in Nat /\ pos \in 0..Len(log)
  BY <1>1, LogTypes
<1>3. PICK k \in Keys, q \in Nat : k = log[j].key /\ q = lastSeq[k] /\ q > 0 /\ Known(k) /\ q < log[j].seq
  BY <1>1, <1>2 DEF TrackerTypes
<1>4. ~Handling /\ Settled = pos
  BY <1>1, SettledType DEF Handling
<1>5. chunkDone[k] < log[j].seq
  <2>1. chunkDone[k] <= q /\ chunkDone[k] \in Nat
    BY <1>1, <1>3 DEF DoneOK, OtherTypes
  <2> QED BY <1>2, <1>3, <2>1
<1>6. /\ assembly.key \in Keys \union {None} /\ assembly.seq \in Nat /\ assembly.next \in Nat
      /\ assembly.count \in Nat /\ None \notin Keys
  BY <1>1, RemoteInboundAssumption DEF OtherTypes
<1>7. CASE log[j].seg = 0 /\ assembly.key = k
  <2>1. assembly.key # None
    BY <1>6, <1>7
  <2>2. log[j].seq <= assembly.seq /\ (log[j].seq = assembly.seq => log[j].count = assembly.count)
    BY <1>1, <1>3, <1>4, <1>7, <2>1, AssemblyPlace
  <2>3. assembly.seq <= q + 1 /\ 1 <= assembly.next /\ assembly.next < assembly.count
    BY <1>1, <1>3, <1>7, <2>1 DEF AssemblyOK
  <2>4. assembly.seq = log[j].seq
    BY <1>2, <1>3, <1>6, <2>2, <2>3
  <2> QED BY <1>3, <1>5, <1>6, <1>7, <2>2, <2>3, <2>4
<1>8. CASE log[j].seg > 0
  <2>1. /\ j - 1 \in 1..Len(log) /\ log[j - 1].key = log[j].key /\ log[j - 1].seq = log[j].seq
        /\ log[j - 1].count = log[j].count /\ log[j - 1].seg + 1 = log[j].seg /\ ~Ends(log[j - 1])
    BY <1>1, <1>8, Before
  <2>2. pos = j - 1 /\ pos \in 1..Len(log)
    BY <1>2, <2>1
  <2>3. /\ log[pos].key = k /\ log[pos].seq = log[j].seq /\ pos > 0
        /\ log[pos].count = log[j].count /\ log[pos].seg + 1 = log[j].seg /\ ~Ends(log[pos])
    BY <1>2, <1>3, <2>1, <2>2
  <2>4. lastSeq[log[pos].key] > 0 /\ log[pos].seq > lastSeq[log[pos].key] /\ Known(log[pos].key)
    BY <1>2, <1>3, <2>3
  <2>5. /\ assembly.key = log[pos].key /\ assembly.seq = log[pos].seq /\ assembly.count = log[pos].count
        /\ log[pos].seg < assembly.next
    BY <1>1, <1>4, <2>3, <2>4 DEF InRun
  <2>6. assembly.next < assembly.count
    BY <1>1, <1>2, <1>3, <1>6, <2>3, <2>5 DEF AssemblyOK
  <2>7. log[pos].seg \in Nat
    BY <1>1, <2>2, LogTypes
  <2>8. log[j].seg <= assembly.next
    BY <1>2, <1>6, <2>3, <2>5, <2>7
  <2> QED BY <1>3, <1>5, <2>3, <2>5, <2>6, <2>8
<1> QED BY <1>2, <1>3, <1>5, <1>7, <1>8

\* The last chunk of an undelivered message completes it.
LEMMA LastCompletes ==
    ASSUME DInv, at = "select", NEW j \in 1..Len(log), j = pos + 1, IsChunk(log[j]), Ends(log[j]),
           Known(log[j].key), lastSeq[log[j].key] > 0, log[j].seq > lastSeq[log[j].key]
    PROVE  Completes(log[j])
<1>1. /\ chunkDone[log[j].key] < log[j].seq
      /\ \/ /\ assembly.key = log[j].key /\ assembly.seq = log[j].seq
            /\ assembly.count = log[j].count /\ log[j].seg <= assembly.next
            /\ assembly.next < log[j].count
         \/ assembly.key # log[j].key /\ log[j].seg = 0
  BY Tracked
<1>2. IInv /\ OtherTypes
  BY Parts
<1>3. PICK e \in Envelope : e = log[j] /\ e.seg \in Nat /\ e.count \in Nat /\ e.key \in Keys /\ e.seq \in Nat
  BY <1>2, LogTypes
<1>4. assembly.next \in Nat /\ chunkDone[e.key] \in Nat
  BY <1>2, <1>3 DEF OtherTypes
<1>5. e.seg + 1 = e.count
  BY <1>3 DEF Ends
<1>6. CASE /\ assembly.key = e.key /\ assembly.seq = e.seq
           /\ assembly.count = e.count /\ e.seg <= assembly.next /\ assembly.next < e.count
  <2>1. e.seg = assembly.next
    BY <1>3, <1>4, <1>5, <1>6
  <2>2. ~IgnoreChunk(e)
    BY <1>1, <1>3, <1>4, <1>6, <2>1 DEF IgnoreChunk
  <2>3. InOrder(e)
    BY <1>6, <2>1 DEF InOrder, AssemblyFor
  <2> QED BY <1>3, <1>5, <2>2, <2>3 DEF Completes
<1>7. CASE assembly.key # e.key /\ e.seg = 0
  <2>1. ~IgnoreChunk(e)
    BY <1>1, <1>3, <1>4, <1>7 DEF IgnoreChunk
  <2>2. InOrder(e)
    BY <1>7 DEF InOrder, AssemblyFor
  <2> QED BY <1>3, <1>5, <2>1, <2>2 DEF Completes
<1> QED BY <1>1, <1>3, <1>6, <1>7

\* A chunk that completes nothing is read.
Skips ==
    /\ at = "select" /\ pos < Len(log) /\ pos' = pos + 1
    /\ IsChunk(log[pos + 1]) /\ ~Completes(log[pos + 1])
    /\ assembly' = IF IgnoreChunk(log[pos + 1]) THEN assembly
                   ELSE IF InOrder(log[pos + 1])
                        THEN [AssemblyFor(log[pos + 1]) EXCEPT !.next = @ + 1]
                        ELSE NoAssembly
    /\ UNCHANGED <<log, cursor, at, env, todo, gone, clients, lastSeq, keyOf, feed, chunkDone>>

\* What the reassembler keeps of a chunk that is in order.
LEMMA Kept ==
    ASSUME IInv, NEW e \in Envelope, ~IgnoreChunk(e), InOrder(e), ~Completes(e),
           e.seg < e.count,
           assembly' = [AssemblyFor(e) EXCEPT !.next = @ + 1]
    PROVE  /\ assembly'.key = e.key /\ assembly'.seq = e.seq /\ assembly'.count = e.count
           /\ assembly'.next = e.seg + 1 /\ e.seg + 1 < e.count
           /\ chunkDone[e.key] < e.seq
<1>1. /\ e.key \in Keys /\ e.seq \in Nat /\ e.seg \in Nat /\ e.count \in Nat
  BY DEF Envelope
<1>2. OtherTypes
  BY Disassemble
<1>3. /\ AssemblyFor(e) \in [key : Keys \union {None}, seq : Nat, count : Nat, next : Nat]
      /\ AssemblyFor(e).key = e.key
  BY <1>1, <1>2 DEF AssemblyFor, OtherTypes
<1>4. AssemblyFor(e).seq = e.seq /\ AssemblyFor(e).count = e.count /\ AssemblyFor(e).next = e.seg
  BY DEF InOrder
<1> HIDE DEF AssemblyFor
<1>5. e.seg + 1 # e.count
  BY DEF Completes
<1>6. chunkDone[e.key] \in Nat /\ ~(chunkDone[e.key] >= e.seq)
  BY <1>1, <1>2 DEF IgnoreChunk, OtherTypes
<1> QED BY <1>1, <1>3, <1>4, <1>5, <1>6

LEMMA SkipAssembly ==
    ASSUME DInv, Skips, Settled' = pos + 1
    PROVE  AssemblyOK'
<1>1. /\ IInv /\ Steady(log) /\ PlaceOK /\ CursorOK /\ DoneOK /\ AssemblyOK /\ Delivered /\ Awaited
      /\ TrackerTypes /\ OtherTypes
  BY Parts
<1>2. Len(log) \in Nat /\ pos \in 0..Len(log) /\ cursor \in 0..Len(log) /\ DOMAIN log = 1..Len(log)
  BY <1>1, LogTypes
<1>3. PICK j \in 1..Len(log) : j = pos + 1
  BY <1>2 DEF Skips
<1>4. PICK e \in Envelope : e = log[j]
  BY <1>1, LogTypes
<1>5. e.key \in Keys /\ e.seq \in Nat /\ e.seg \in Nat /\ e.count \in Nat /\ IsChunk(e)
  BY <1>1, <1>3, <1>4, LogTypes DEF Skips
<1>6. ~Handling /\ Settled = pos /\ Settled \in Nat
  BY <1>1, SettledType DEF Handling, Skips
<1>7. e.seg < e.count
  BY <1>1, <1>2, <1>4, <1>5 DEF Steady, Numbered, IsChunk
<1>t. /\ UNCHANGED <<log, cursor, clients, lastSeq, chunkDone>>
      /\ ~Completes(e)
      /\ assembly' = IF IgnoreChunk(e) THEN assembly
                     ELSE IF InOrder(e) THEN [AssemblyFor(e) EXCEPT !.next = @ + 1] ELSE NoAssembly
  BY <1>3, <1>4 DEF Skips
<1>8. CASE ~IgnoreChunk(e) /\ InOrder(e)
  <2>1. /\ assembly'.key = e.key /\ assembly'.seq = e.seq /\ assembly'.count = e.count
        /\ assembly'.next = e.seg + 1 /\ e.seg + 1 < e.count
        /\ chunkDone[e.key] < e.seq
    BY <1>1, <1>7, <1>8, <1>t, Kept
  <2>2. PICK b \in (cursor + 1)..Len(log) :
             /\ IsChunk(log[b]) /\ log[b].key = e.key /\ log[b].seq = e.seq
             /\ log[b].count = e.count /\ log[b].seg = 0 /\ b + e.seg = j
             /\ \A i \in (cursor + 1)..b : IsChunk(log[i])
    BY <1>1, <1>3, <1>4, <1>5, <1>6, RunBehindCursor
  <2>3. Known(e.key) => e.seq <= lastSeq[e.key] + 1
    <3> SUFFICES ASSUME Known(e.key) PROVE e.seq <= lastSeq[e.key] + 1
      OBVIOUS
    <3>1. Numbered(e) /\ ~IsInitialize(e)
      BY <1>5 DEF Numbered, IsInitialize, IsChunk
    <3>2. j = Settled + 1
      BY <1>3, <1>6
    <3>3. lastSeq[e.key] # 0
      BY <1>1, <1>4, <3>1, <3>2, AwaitsInitialize
    <3>4. lastSeq[e.key] > 0
      BY <1>1, <1>5, <3>3 DEF TrackerTypes
    <3> QED BY <1>1, <1>4, <3>1, <3>2, <3>4, NextSeq
  <2>4. Settled' + 1 <= b + assembly'.next
    <3>1. b \in Nat /\ b + e.seg = pos + 1
      BY <1>2, <1>3, <2>2
    <3>2. pos + 2 <= b + (e.seg + 1)
      BY <1>2, <1>5, <3>1
    <3>3. Settled' + 1 = pos + 2
      BY <1>2
    <3> QED BY <2>1, <3>2, <3>3
  <2>5. 1 <= assembly'.next /\ assembly'.next < assembly'.count
    BY <1>5, <2>1
  <2> QED BY <1>t, <2>1, <2>2, <2>3, <2>4, <2>5 DEF AssemblyOK, Known
<1>9. CASE ~IgnoreChunk(e) /\ ~InOrder(e)
  BY <1>9, <1>t DEF AssemblyOK, NoAssembly
<1>10. CASE IgnoreChunk(e)
  <2> SUFFICES ASSUME assembly'.key # None PROVE AssemblyOK'
    BY DEF AssemblyOK
  <2>1. assembly' = assembly /\ assembly.key # None
    BY <1>10, <1>t
  <2>2. PICK b \in (cursor + 1)..Len(log) :
           /\ IsChunk(log[b]) /\ log[b].key = assembly.key /\ log[b].seq = assembly.seq
           /\ log[b].count = assembly.count /\ log[b].seg = 0
           /\ \A i \in (cursor + 1)..b : IsChunk(log[i])
           /\ Settled + 1 <= b + assembly.next
    BY <1>1, <2>1 DEF AssemblyOK
  <2>3. /\ 1 <= assembly.next /\ assembly.next < assembly.count /\ chunkDone[assembly.key] < assembly.seq
        /\ Known(assembly.key) => assembly.seq <= lastSeq[assembly.key] + 1
        /\ assembly.next \in Nat /\ assembly.count \in Nat /\ assembly.seq \in Nat
        /\ assembly.key \in Keys
    BY <1>1, <2>1 DEF AssemblyOK, OtherTypes
  <2>4. b \in Nat /\ b \in 1..Len(log)
    BY <1>2
  <2>5. pos + 2 <= b + assembly.next
    <3>1. CASE pos + 1 < b + assembly.next
      BY <1>2, <2>3, <2>4, <3>1
    <3>2. CASE pos + 1 = b + assembly.next
      <4>1. j \in Nat /\ b <= j + log[b].seg /\ j + log[b].seg < b + log[b].count
        BY <1>2, <1>3, <2>2, <2>3, <2>4, <3>2
      <4>2. /\ e.key = assembly.key /\ e.seq = assembly.seq /\ log[j].seg + b = j + log[b].seg
        BY <1>1, <1>4, <2>2, <2>4, <4>1, Run
      <4>3. e.seg = assembly.next
        BY <1>3, <1>4, <1>5, <2>2, <2>3, <2>4, <3>2, <4>2
      <4>4. chunkDone[e.key] \in Nat
        BY <1>1, <1>5 DEF OtherTypes
      <4>5. ~IgnoreChunk(e)
        BY <1>5, <2>3, <4>2, <4>3, <4>4 DEF IgnoreChunk
      <4> QED BY <1>10, <4>5
    <3> QED BY <1>2, <1>6, <2>2, <2>3, <2>4, <3>1, <3>2
  <2>6. Settled' + 1 <= b + assembly.next
    <3>1. Settled' + 1 = pos + 2
      BY <1>2
    <3> QED BY <2>5, <3>1
  <2> QED BY <1>t, <2>1, <2>2, <2>3, <2>6 DEF AssemblyOK, Known
<1> QED BY <1>8, <1>9, <1>10

LEMMA SkipInRun ==
    ASSUME DInv, Skips
    PROVE  InRun'
<1>1. IInv /\ Steady(log) /\ TrackerTypes /\ OtherTypes /\ PlaceOK /\ CursorOK
  BY Parts
<1>2. Len(log) \in Nat /\ pos \in 0..Len(log) /\ DOMAIN log = 1..Len(log)
  BY <1>1, LogTypes
<1>3. PICK j \in 1..Len(log) : j = pos + 1
  BY <1>2 DEF Skips
<1>4. PICK e \in Envelope : e = log[j]
  BY <1>1, LogTypes
<1>5. e.key \in Keys /\ e.seq \in Nat /\ e.seg \in Nat /\ e.count \in Nat /\ IsChunk(e)
  BY <1>1, <1>3, <1>4, LogTypes DEF Skips
<1>7. e.seg < e.count
  BY <1>1, <1>2, <1>4, <1>5 DEF Steady, Numbered, IsChunk
<1>t. /\ UNCHANGED <<log, cursor, clients, lastSeq, chunkDone>>
      /\ ~Completes(e) /\ at = "select" /\ pos' = j
      /\ assembly' = IF IgnoreChunk(e) THEN assembly
                     ELSE IF InOrder(e) THEN [AssemblyFor(e) EXCEPT !.next = @ + 1] ELSE NoAssembly
  BY <1>3, <1>4 DEF Skips
<1>8. SUFFICES ASSUME Known(e.key), lastSeq[e.key] > 0, e.seq > lastSeq[e.key], ~Ends(e)
               PROVE  /\ assembly'.key = e.key /\ assembly'.seq = e.seq /\ assembly'.count = e.count
                      /\ e.seg < assembly'.next
  BY <1>4, <1>t DEF InRun, Known
<1>9. /\ chunkDone[e.key] < e.seq
      /\ \/ /\ assembly.key = e.key /\ assembly.seq = e.seq /\ assembly.count = e.count
            /\ e.seg <= assembly.next /\ assembly.next < e.count
         \/ assembly.key # e.key /\ e.seg = 0
  BY <1>3, <1>4, <1>5, <1>8, <1>t, Tracked
<1>10. assembly.next \in Nat /\ chunkDone[e.key] \in Nat
  BY <1>1, <1>5 DEF OtherTypes
<1>11. CASE IgnoreChunk(e)
  <2>1. assembly.key = e.key /\ e.seg < assembly.next
    BY <1>5, <1>9, <1>10, <1>11 DEF IgnoreChunk
  <2> QED BY <1>9, <1>11, <1>t, <2>1
<1>12. CASE ~IgnoreChunk(e)
  <2>1. InOrder(e)
    <3>1. CASE assembly.key = e.key
      <4>1. e.seg = assembly.next
        BY <1>5, <1>9, <1>10, <1>12, <3>1 DEF IgnoreChunk
      <4> QED BY <1>9, <3>1, <4>1 DEF InOrder, AssemblyFor
    <3>2. CASE assembly.key # e.key
      BY <1>9, <3>2 DEF InOrder, AssemblyFor
    <3> QED BY <3>1, <3>2
  <2>2. /\ assembly'.key = e.key /\ assembly'.seq = e.seq /\ assembly'.count = e.count
        /\ assembly'.next = e.seg + 1
    BY <1>1, <1>7, <1>12, <1>t, <2>1, Kept
  <2> QED BY <1>5, <2>2
<1> QED BY <1>11, <1>12

\* An envelope of the log keeps its place in the ledger when a chunk is dropped or kept.
LEMMA SkipDelivered ==
    ASSUME DInv, Skips, Settled' = pos + 1
    PROVE  Delivered' /\ Awaited' /\ CursorOK'
<1>1. /\ IInv /\ TrackerTypes /\ PlaceOK /\ Delivered /\ Awaited /\ CursorOK
  BY Parts
<1>2. Len(log) \in Nat /\ pos \in 0..Len(log) /\ cursor \in 0..Len(log)
  BY <1>1, LogTypes
<1>3. PICK j \in 1..Len(log) : j = pos + 1
  BY <1>2 DEF Skips
<1>t. /\ UNCHANGED <<log, cursor, clients, lastSeq>>
      /\ ~Completes(log[j]) /\ at = "select" /\ IsChunk(log[j])
  BY <1>3 DEF Skips
<1>4. Settled = pos
  BY <1>1, <1>t, SettledType DEF Handling
<1>5. Delivered'
  <2> SUFFICES ASSUME NEW k \in Keys, Known(k), lastSeq[k] > 0, NEW i \in 1..(pos + 1),
                      Numbered(log[i]), log[i].key = k, Ends(log[i])
               PROVE  log[i].seq <= lastSeq[k]
    BY <1>t DEF Delivered, Known
  <2>1. CASE i \in 1..pos
    BY <1>1, <1>4, <2>1 DEF Delivered
  <2>2. CASE i = j
    <3>1. ~(log[j].seq > lastSeq[k])
      BY <1>3, <1>t, <2>2, LastCompletes
    <3>2. log[j].seq \in Nat /\ lastSeq[k] \in Nat
      BY <1>1, LogTypes DEF TrackerTypes
    <3> QED BY <2>2, <3>1, <3>2
  <2> QED BY <1>2, <1>3, <2>1, <2>2
<1>6. Awaited'
  <2> SUFFICES ASSUME NEW k \in Keys, Known(k), lastSeq[k] = 0
               PROVE  \E i \in (pos + 2)..Len(log) : FirstIs(k, i)'
    <3>1. Settled' + 1 = pos + 2
      BY <1>2
    <3> QED BY <1>t, <3>1 DEF Awaited, Known
  <2>1. PICK i \in (pos + 1)..Len(log) : FirstIs(k, i)
    BY <1>1, <1>4 DEF Awaited
  <2>2. i # j
    BY <1>t, <2>1 DEF FirstIs, IsInitialize, IsChunk
  <2>3. i \in (pos + 2)..Len(log)
    BY <1>2, <1>3, <2>2
  <2>4. FirstIs(k, i)'
    BY <1>t, <2>1 DEF FirstIs
  <2> QED BY <2>3, <2>4
<1>7. CursorOK'
  <2>1. ASSUME NEW i \in (cursor + 1)..(pos + 1) PROVE IsChunk(log[i])
    <3>1. i = j \/ i \in (cursor + 1)..Settled
      BY <1>2, <1>3, <1>4
    <3> QED BY <1>1, <1>t, <3>1 DEF CursorOK
  <2>2. cursor <= pos + 1 /\ (cursor > 0 => Ends(log[cursor]))
    BY <1>1, <1>2, <1>4 DEF CursorOK
  <2> QED BY <1>t, <2>1, <2>2 DEF CursorOK
<1> QED BY <1>5, <1>6, <1>7

LEMMA SkipStep ==
    ASSUME DInv, Skips, IInv'
    PROVE  DInv'
<1>1. /\ IInv /\ Steady(log) /\ PlaceOK /\ UnknownOK /\ DoneOK /\ FeedsOK /\ NoGap
      /\ ReaderOK
  BY Parts
<1>t. /\ UNCHANGED <<log, cursor, at, env, todo, gone, clients, lastSeq, keyOf, feed, chunkDone>>
      /\ at = "select" /\ pos' = pos + 1 /\ gone = {}
  BY <1>1 DEF Skips, ReaderOK
<1>2. Settled' = pos + 1 /\ ~Handling'
  BY <1>t DEF Settled, Handling
<1>3. PlaceOK'
  BY <1>t, <1>2 DEF PlaceOK
<1>4. Delivered' /\ Awaited' /\ CursorOK' /\ AssemblyOK' /\ InRun'
  BY <1>2, SkipDelivered, SkipAssembly, SkipInRun
<1>5. UnknownOK' /\ DoneOK'
  BY <1>1, <1>t DEF UnknownOK, DoneOK, Known
<1>6. HandledOK'
  BY <1>t DEF HandledOK
<1>7. FeedsOK' /\ NoGap'
  BY <1>1, <1>t, GapKept DEF FeedsOK, Known
<1>8. Steady(log)'
  BY <1>1, <1>t
<1> QED BY <1>3, <1>4, <1>5, <1>6, <1>7, <1>8 DEF DInv, LedgerOK
-----------------------------------------------------------------------------
(* Steps that deliver nothing *)

LEMMA RetreatStep ==
    ASSUME DInv, IInv', Retreats, PlaceOK', HandledOK', InRun', UNCHANGED <<keyOf, feed>>
    PROVE  DInv'
<1>1. /\ IInv /\ Steady(log) /\ PlaceOK /\ CursorOK /\ LedgerOK /\ FeedsOK /\ NoGap
  BY Parts
<1>2. CursorOK' /\ LedgerOK'
  BY <1>1, Retreat
<1>3. FeedsOK'
  BY <1>1 DEF FeedsOK, Known, Retreats
<1>4. NoGap'
  BY <1>1, GapKept DEF Retreats
<1>5. Steady(log)'
  BY <1>1 DEF Retreats
<1> QED BY <1>2, <1>3, <1>4, <1>5 DEF DInv

\* Chunk state is forgotten only for clients that are gone.
LEMMA InRunKept ==
    ASSUME DInv, UNCHANGED <<log, pos>>, ~Handling' /\ at' # "down" => ~Handling /\ at # "down",
           \A k \in Keys : Known(k)' => clients'[k] = clients[k] /\ lastSeq'[k] = lastSeq[k],
           assembly' = assembly \/ (assembly.key \in Keys => clients'[assembly.key] = 0)
    PROVE  InRun'
<1>1. IInv /\ InRun
  BY Parts
<1>2. SUFFICES ASSUME ~Handling', at' # "down", pos > 0, ~Ends(log[pos]), Known(log[pos].key)',
                      lastSeq'[log[pos].key] > 0, log[pos].seq > lastSeq'[log[pos].key]
               PROVE  /\ assembly'.key = log[pos].key /\ assembly'.seq = log[pos].seq
                      /\ assembly'.count = log[pos].count /\ log[pos].seg < assembly'.next
  BY DEF InRun, Known
<1>3. pos \in 1..Len(log)
  BY <1>1, <1>2, LogTypes
<1>4. PICK k \in Keys : k = log[pos].key
  BY <1>1, <1>3, LogTypes
<1>5. clients'[k] = clients[k] /\ lastSeq'[k] = lastSeq[k] /\ clients'[k] # 0
  BY <1>2, <1>4 DEF Known
<1>6. /\ assembly.key = k /\ assembly.seq = log[pos].seq
      /\ assembly.count = log[pos].count /\ log[pos].seg < assembly.next
  BY <1>1, <1>2, <1>4, <1>5 DEF InRun, Known
<1> QED BY <1>4, <1>5, <1>6

\* Steps of other tasks.
LEMMA IdleParts ==
    ASSUME DInv,
           UNCHANGED <<log, pos, cursor, at, env, todo, gone, clients, lastSeq, assembly, chunkDone>>
    PROVE  Steady(log)' /\ PlaceOK' /\ CursorOK' /\ LedgerOK' /\ HandledOK' /\ InRun'
<1>1. /\ IInv /\ Steady(log) /\ PlaceOK /\ HandledOK /\ InRun /\ CursorOK /\ LedgerOK
  BY Parts
<1>2. (Handling' <=> Handling) /\ Settled' = Settled
  BY DEF Handling, Settled
<1>3. PlaceOK'
  BY <1>1, <1>2 DEF PlaceOK, Known
<1>4. HandledOK' /\ Steady(log)'
  BY <1>1 DEF HandledOK, Known
<1>5. InRun'
  BY <1>1, <1>2 DEF InRun, Known
<1>6. Settled \in Nat /\ cursor <= Settled
  BY <1>1, SettledType DEF CursorOK
<1>7. Retreats
  BY <1>2, <1>6 DEF Retreats
<1> QED BY <1>1, <1>3, <1>4, <1>5, <1>7, Retreat

LEMMA IdleStep ==
    ASSUME DInv, IInv',
           UNCHANGED <<log, pos, cursor, at, env, todo, gone, clients, lastSeq, keyOf, feed,
                       assembly, chunkDone>>
    PROVE  DInv'
<1>1. FeedsOK' /\ NoGap'
  BY Parts, GapKept DEF FeedsOK, Known
<1> QED BY <1>1, IdleParts DEF DInv

LEMMA ConnectDelivers ==
    ASSUME DInv, IInv', Connect
    PROVE  DInv'
<1>1. /\ IInv /\ PlaceOK /\ HandledOK /\ CursorOK /\ ReaderOK
  BY Parts
<1>t. /\ UNCHANGED <<log, cursor, gone, todo, clients, lastSeq, keyOf, feed, assembly, chunkDone>>
      /\ at = "down" /\ at' = "select" /\ pos' = cursor /\ gone = {}
  BY <1>1 DEF Connect, tracker, channel, chunks, ReaderOK
<1>2. ~Handling' /\ Settled' = cursor /\ Settled = cursor /\ cursor \in Nat
  BY <1>1, <1>t, LogTypes DEF Handling, Settled
<1>3. PlaceOK' /\ HandledOK'
  BY <1>t, <1>2 DEF PlaceOK, HandledOK
<1>4. InRun'
  BY <1>1, <1>t DEF InRun, CursorOK
<1>5. Retreats
  BY <1>t, <1>2 DEF Retreats
<1> QED BY <1>t, <1>3, <1>4, <1>5, RetreatStep

\* The reader task ends where it awaits; the next one starts behind the cursor.
LEMMA LeaveDelivers ==
    ASSUME DInv, IInv', Stop \/ SendTimesOut
    PROVE  DInv'
<1>1. /\ IInv /\ PlaceOK /\ CursorOK /\ ReaderOK /\ TrackerTypes
  BY Parts
<1>t. /\ UNCHANGED <<log, cursor, keyOf, feed, assembly, chunkDone>>
      /\ at' = "down" /\ gone' = {}
  BY DEF Stop, SendTimesOut, Leave, tracker, channel, chunks
<1>2. ~Handling' /\ Settled' = cursor /\ cursor \in Nat /\ cursor <= Settled
  BY <1>1, <1>t, LogTypes DEF Handling, Settled, CursorOK
<1>3. PlaceOK' /\ HandledOK' /\ InRun'
  BY <1>t, <1>2 DEF PlaceOK, HandledOK, InRun
<1>4. \A k \in Keys : \/ clients'[k] = clients[k] /\ lastSeq'[k] = lastSeq[k]
                      \/ clients'[k] = 0 /\ lastSeq'[k] = 0
  BY <1>1 DEF Stop, SendTimesOut, RemoveClient, tracker, TrackerTypes
<1>5. Retreats
  BY <1>t, <1>2, <1>4 DEF Retreats
<1> QED BY <1>t, <1>3, <1>5, RetreatStep

LEMMA ShutdownDelivers ==
    ASSUME DInv, IInv', Shutdown
    PROVE  DInv'
<1>1. /\ IInv /\ PlaceOK /\ CursorOK /\ ReaderOK
  BY Parts
<1>t. /\ UNCHANGED <<log, cursor, keyOf, feed, assembly, chunkDone, at, gone, todo>>
      /\ at = "down" /\ gone = {}
      /\ clients' = [k \in Keys |-> 0] /\ lastSeq' = [k \in Keys |-> 0]
  BY <1>1 DEF Shutdown, reader, chunks, ReaderOK
<1>2. ~Handling' /\ Settled' = cursor /\ cursor \in Nat /\ cursor <= Settled
  BY <1>1, <1>t, LogTypes DEF Handling, Settled, CursorOK
<1>3. PlaceOK' /\ HandledOK' /\ InRun'
  BY <1>t, <1>2 DEF PlaceOK, HandledOK, InRun
<1>5. Retreats
  BY <1>t, <1>2 DEF Retreats
<1> QED BY <1>t, <1>3, <1>5, RetreatStep

\* The reader closes a client between two envelopes.
LEMMA CloseDelivers ==
    ASSUME DInv, IInv', NEW k \in Keys, CloseClient(k), ~Handling, at # "down",
           UNCHANGED <<log, cursor, pos, keyOf, feed, assembly, chunkDone>>,
           gone' # {}, \A i \in gone' \ todo' : i = k \/ ~Known(i)
    PROVE  DInv'
<1>1. /\ IInv /\ PlaceOK /\ CursorOK /\ TrackerTypes
  BY Parts
<1>2. at' = "close"
  BY DEF CloseClient
<1>3. ~Handling' /\ Settled' = pos /\ Settled = pos /\ pos \in Nat /\ cursor <= pos
  BY <1>1, <1>2, LogTypes, SettledType DEF Handling, Settled, CursorOK
<1>4. /\ \A i \in Keys : \/ clients'[i] = clients[i] /\ lastSeq'[i] = lastSeq[i]
                         \/ clients'[i] = 0 /\ lastSeq'[i] = 0
      /\ clients'[k] = 0
  BY <1>1 DEF CloseClient, RemoveClient, TrackerTypes
<1>5. PlaceOK'
  <2>1. gone' \subseteq Keys
    BY DEF IInv, TypeOK
  <2> QED BY <1>2, <1>3, <1>4, <2>1 DEF PlaceOK, Known
<1>6. HandledOK'
  BY <1>2 DEF HandledOK
<1>7. InRun'
  BY <1>4, InRunKept DEF Known
<1>8. Retreats
  BY <1>3, <1>4 DEF Retreats
<1> QED BY <1>5, <1>6, <1>7, <1>8, RetreatStep

\* Chunk state of closed clients is forgotten, also when the client is long gone.
LEMMA ForgetDelivers ==
    ASSUME DInv, IInv', NEW G \in SUBSET Keys, Forget(G), \A i \in G : ~Known(i),
           UNCHANGED <<log, cursor, pos, keyOf, feed, clients, lastSeq>>,
           ~Handling, at # "down", at' = "select", gone' = {}
    PROVE  DInv'
<1>1. /\ IInv /\ PlaceOK /\ CursorOK /\ OtherTypes
  BY Parts
<1>2. ~Handling' /\ Settled' = pos /\ Settled = pos /\ pos \in Nat /\ cursor <= pos
  BY <1>1, LogTypes, SettledType DEF Handling, Settled, CursorOK
<1>3. PlaceOK' /\ HandledOK'
  BY <1>2 DEF PlaceOK, HandledOK
<1>4. /\ assembly' = assembly \/ assembly'.key = None
      /\ \A i \in Keys : chunkDone'[i] = chunkDone[i] \/ chunkDone'[i] = 0
      /\ assembly' = assembly \/ (assembly.key \in Keys => clients'[assembly.key] = 0)
  BY <1>1 DEF Forget, NoAssembly, Known
<1>5. InRun'
  BY <1>4, InRunKept DEF Known
<1>6. Retreats
  BY <1>2, <1>4 DEF Retreats
<1> QED BY <1>3, <1>5, <1>6, RetreatStep

LEMMA BookkeepDelivers ==
    ASSUME DInv, IInv', NEW c \in finished, Bookkeep(c)
    PROVE  DInv'
<1>1. IInv /\ TrackerTypes /\ ReaderOK
  BY Parts
<1>2. PICK k \in Keys : k = keyOf[c]
  BY <1>1 DEF TrackerTypes
<1>t. /\ UNCHANGED <<log, cursor, pos, todo, keyOf, feed>> /\ at = "select" /\ todo = {} /\ gone = {}
  BY <1>1 DEF Bookkeep, ReaderOK
<1>3. ~Handling /\ at # "down"
  BY <1>t DEF Handling
<1>4. CASE CloseClient(k) /\ gone' = {k} /\ UNCHANGED chunks
  BY <1>t, <1>3, <1>4, CloseDelivers DEF chunks
<1>5. CASE Forget({k}) /\ clients[k] = 0 /\ UNCHANGED <<clients, lastSeq, at, gone>>
  BY <1>t, <1>3, <1>5, ForgetDelivers DEF Known
<1> QED BY <1>2, <1>4, <1>5 DEF Bookkeep

LEMMA SweepDelivers ==
    ASSUME DInv, IInv', NEW keys \in SUBSET Keys, Sweep(keys)
    PROVE  DInv'
<1>t. /\ UNCHANGED <<log, cursor, pos, keyOf, feed>> /\ at = "select" /\ UNCHANGED <<assembly, chunkDone>>
      /\ gone' = keys /\ keys # {}
  BY DEF Sweep, chunks
<1>1. PICK k \in keys : CloseClient(k) /\ todo' = keys \ {k}
  BY DEF Sweep
<1>2. ~Handling /\ at # "down" /\ k \in Keys /\ \A i \in gone' \ todo' : i = k
  BY <1>t, <1>1 DEF Handling
<1> QED BY <1>t, <1>1, <1>2, CloseDelivers

\* A connection id is drawn.
LEMMA GapNew ==
    ASSUME DInv, IInv', feed' = Append(feed, <<>>), log' = log,
           Len(keyOf') = Len(keyOf) + 1, \A c \in 1..Len(keyOf) : keyOf'[c] = keyOf[c]
    PROVE  /\ NoGap'
           /\ \A c \in 1..Len(keyOf) : feed'[c] = feed[c]
<1>1. IInv /\ FeedOK /\ NoGap /\ TrackerTypes
  BY Parts
<1>2. /\ Len(feed) = Len(keyOf) /\ Len(keyOf) \in Nat /\ feed \in Seq(Seq(Event))
      /\ Conns = 1..Len(keyOf)
  BY <1>1 DEF FeedOK, TrackerTypes, Conns
<1>3. feed'[Len(keyOf) + 1] = <<>> /\ \A c \in 1..Len(keyOf) : feed'[c] = feed[c]
  BY <1>2
<1>4. Conns' = 1..(Len(keyOf) + 1)
  <2>1. keyOf' \in Seq(Keys)
    BY DEF IInv, TypeOK
  <2> QED BY <2>1 DEF Conns
<1>5. ASSUME NEW c \in 1..Len(keyOf), NEW i \in DOMAIN feed[c], feed[c][i].type = "message"
      PROVE  IF i = 2
             THEN \E e \in Range(log) : IsInitialize(e) /\ e.key = keyOf[c] /\ e.seq = feed[c][i].seq
             ELSE feed[c][i].seq = feed[c][i - 1].seq + 1
  BY <1>1, <1>2, <1>5 DEF NoGap
<1>6. ASSUME NEW c \in Conns', NEW i \in DOMAIN feed'[c], feed'[c][i].type = "message"
      PROVE  IF i = 2
             THEN \E e \in Range(log) : IsInitialize(e) /\ e.key = keyOf'[c] /\ e.seq = feed'[c][i].seq
             ELSE feed'[c][i].seq = feed'[c][i - 1].seq + 1
  <2>1. c # Len(keyOf) + 1
    <3> SUFFICES ASSUME c = Len(keyOf) + 1 PROVE FALSE
      OBVIOUS
    <3>1. feed'[c] = <<>>
      BY <1>3
    <3>e. <<>> \in Seq(Event)
      OBVIOUS
    <3>2. PICK s \in Seq(Event) : s = <<>>
      BY <3>e
    <3>a. DOMAIN s = 1..0
      BY <3>2
    <3>3. DOMAIN feed'[c] = 1..0
      BY <3>1, <3>2, <3>a
    <3>4. i \in 1..0
      BY <1>6, <3>3
    <3> QED BY <3>4
  <2>2. c \in 1..Len(keyOf)
    BY <1>2, <1>4, <2>1
  <2>3. feed'[c] = feed[c] /\ keyOf'[c] = keyOf[c]
    BY <1>3, <2>2
  <2>4. i \in DOMAIN feed[c] /\ feed[c][i].type = "message"
    BY <1>6, <2>3
  <2>5. IF i = 2
        THEN \E e \in Range(log) : IsInitialize(e) /\ e.key = keyOf[c] /\ e.seq = feed[c][i].seq
        ELSE feed[c][i].seq = feed[c][i - 1].seq + 1
    BY <1>5, <2>2, <2>4
  <2> QED BY <2>3, <2>5
<1> QED BY <1>3, <1>6 DEF NoGap

\* The reader goes on with the envelope it handles or starts to handle one; a client may
\* be removed, a connection id drawn.
LEMMA HandleStep ==
    ASSUME DInv, IInv', Handling', UNCHANGED <<log, cursor, chunkDone>>, pos' - 1 = Settled,
           at' # "down", pos' \in 1..Len(log), env' = log[pos'], Ends(env'),
           assembly' = assembly \/ assembly'.key = None, assembly'.key = None, gone' = {},
           at' = "open" => IsInitialize(env'), at' = "send" => Numbered(env'), HandledOK',
           \A k \in Keys : \/ clients'[k] = clients[k] /\ lastSeq'[k] = lastSeq[k]
                           \/ clients'[k] = 0 /\ lastSeq'[k] = 0,
           \/ UNCHANGED <<keyOf, feed>>
           \/ /\ feed' = Append(feed, <<>>) /\ Len(keyOf') = Len(keyOf) + 1
              /\ \A c \in 1..Len(keyOf) : keyOf'[c] = keyOf[c]
    PROVE  DInv'
<1>1. /\ IInv /\ PlaceOK /\ CursorOK /\ LedgerOK /\ FeedsOK /\ NoGap /\ Steady(log)
      /\ TrackerTypes
  BY Parts
<1>2. Settled \in Nat /\ cursor <= Settled
  BY <1>1, SettledType DEF CursorOK
<1>3. Settled' = Settled
  BY DEF Settled
<1>4. PlaceOK' /\ InRun'
  BY DEF PlaceOK, InRun
<1>5. Retreats
  BY <1>2, <1>3 DEF Retreats
<1>6. CursorOK' /\ LedgerOK'
  BY <1>1, <1>5, Retreat
<1>7. NoGap' /\ \A c \in 1..Len(keyOf) : feed'[c] = feed[c]
  <2>1. CASE UNCHANGED <<keyOf, feed>>
    BY <1>1, <2>1, GapKept
  <2>2. CASE /\ feed' = Append(feed, <<>>) /\ Len(keyOf') = Len(keyOf) + 1
             /\ \A c \in 1..Len(keyOf) : keyOf'[c] = keyOf[c]
    BY <2>2, GapNew
  <2> QED BY <2>1, <2>2
<1>8. FeedsOK'
  <2>1. ASSUME NEW k \in Keys, Known(k)'
        PROVE  /\ clients'[k] = clients[k] /\ lastSeq'[k] = lastSeq[k]
               /\ feed'[clients[k]] = feed[clients[k]]
    <3>1. clients'[k] = clients[k] /\ lastSeq'[k] = lastSeq[k] /\ clients[k] # 0
      BY <2>1 DEF Known
    <3>2. clients[k] \in 1..Len(keyOf)
      BY <1>1, <3>1 DEF TrackerTypes
    <3> QED BY <1>7, <3>1, <3>2
  <2> QED BY <1>1, <2>1, FeedsKept
<1>9. Steady(log)'
  BY <1>1
<1> QED BY <1>4, <1>6, <1>7, <1>8, <1>9 DEF DInv

LEMMA CloseSentDelivers ==
    ASSUME DInv, IInv', CloseSent
    PROVE  DInv'
<1>1. /\ IInv /\ PlaceOK /\ ReaderOK /\ OtherTypes /\ CursorOK /\ TrackerTypes
  BY Parts
<1>t. UNCHANGED <<log, cursor, pos>> /\ at = "close" /\ at # "down"
  BY DEF CloseSent
<1>2. CASE \E k \in todo : /\ CloseClient(k) /\ todo' = todo \ {k}
                           /\ UNCHANGED <<keyOf, feed, chunks, env, gone>>
  <2>1. PICK k \in todo : /\ CloseClient(k) /\ todo' = todo \ {k}
                          /\ UNCHANGED <<keyOf, feed, chunks, env, gone>>
    BY <1>2
  <2>2. gone # {} /\ k \in Keys /\ ~Handling
    BY <1>1, <1>t, <2>1 DEF ReaderOK, OtherTypes, Handling
  <2>3. UNCHANGED <<assembly, chunkDone>> /\ gone' # {}
    BY <2>1, <2>2 DEF chunks
  <2>4. \A i \in gone' \ todo' : i = k \/ ~Known(i)
    BY <1>1, <2>1 DEF PlaceOK
  <2> QED BY <1>t, <2>1, <2>2, <2>3, <2>4, CloseDelivers
<1>3. CASE /\ todo = {} /\ gone # {} /\ Forget(gone) /\ gone' = {} /\ at' = "select"
           /\ UNCHANGED <<todo, clients, lastSeq, keyOf, feed>>
  <2>1. PICK G \in SUBSET Keys : G = gone
    BY <1>1 DEF OtherTypes
  <2>2. Forget(G) /\ ~Handling /\ \A i \in G : ~Known(i)
    BY <1>1, <1>t, <1>3, <2>1 DEF PlaceOK, Handling
  <2> QED BY <1>t, <1>3, <2>2, ForgetDelivers
<1>4. ASSUME gone = {}, gone' = {}, env' = env, clients' = clients, lastSeq' = lastSeq,
             assembly' = assembly, chunkDone' = chunkDone,
             (at' = "open" /\ IsInitialize(env)) \/ (at' = "record" /\ env.kind = "closed"),
             \/ UNCHANGED <<keyOf, feed>>
             \/ /\ feed' = Append(feed, <<>>) /\ Len(keyOf') = Len(keyOf) + 1
                /\ \A c \in 1..Len(keyOf) : keyOf'[c] = keyOf[c]
      PROVE  DInv'
  <2>1. Handling /\ Handling'
    BY <1>t, <1>4 DEF Handling
  <2>2. /\ Settled = pos - 1 /\ pos' \in 1..Len(log) /\ env' = log[pos'] /\ Ends(env')
        /\ assembly'.key = None
    BY <1>1, <1>t, <1>4, <2>1, SettledType DEF PlaceOK
  <2>3. HandledOK'
    BY <1>4 DEF HandledOK, Numbered
  <2>4. pos' - 1 = Settled /\ at' # "down" /\ (at' = "open" => IsInitialize(env')) /\ at' # "send"
    BY <1>t, <1>4, <2>2
  <2> QED BY <1>t, <1>4, <2>1, <2>2, <2>3, <2>4, HandleStep
<1>5. CASE /\ todo = {} /\ gone = {} /\ IsInitialize(env) /\ StartOpen(env.key)
           /\ feed' = Append(feed, <<>>)
           /\ UNCHANGED <<todo, gone, env, clients, lastSeq, cancelled, closers, chunks>>
  <2>1. env.key \in Keys
    BY <1>1, <1>t, <1>5 DEF ReaderOK, Envelope
  <2>2. /\ Len(keyOf') = Len(keyOf) + 1 /\ \A c \in 1..Len(keyOf) : keyOf'[c] = keyOf[c]
        /\ at' = "open"
    BY <1>1, <1>5, <2>1 DEF StartOpen, TrackerTypes
  <2>3. /\ clients' = clients /\ lastSeq' = lastSeq /\ assembly' = assembly /\ chunkDone' = chunkDone
        /\ gone = {} /\ gone' = {} /\ env' = env
    BY <1>5 DEF chunks
  <2>4. feed' = Append(feed, <<>>) /\ IsInitialize(env)
    BY <1>5
  <2> QED BY <1>4, <2>2, <2>3, <2>4
<1>6. CASE /\ todo = {} /\ gone = {} /\ env.kind = "closed" /\ at' = "record"
           /\ UNCHANGED <<todo, gone, env, clients, lastSeq, keyOf, feed, chunks>>
  <2>1. UNCHANGED <<gone, env, clients, lastSeq, assembly, chunkDone, keyOf, feed>>
    BY <1>6 DEF chunks
  <2> QED BY <1>4, <1>6, <2>1
<1> QED BY <1>2, <1>3, <1>5, <1>6 DEF CloseSent

\* An envelope is handed to the tracker.
Hands ==
    /\ at = "select" /\ pos < Len(log) /\ pos' = pos + 1
    /\ IsChunk(log[pos + 1]) => Completes(log[pos + 1])
    /\ HandleMessage(log[pos + 1]) /\ env' = log[pos + 1]
    /\ assembly' = IF IsChunk(log[pos + 1]) THEN NoAssembly ELSE assembly
    /\ UNCHANGED <<log, cursor, todo, gone, chunkDone>>

LEMMA HandsDelivers ==
    ASSUME DInv, IInv', Hands
    PROVE  DInv'
<1>1. /\ IInv /\ Steady(log) /\ PlaceOK /\ CursorOK /\ AssemblyOK /\ Delivered /\ Awaited
      /\ TrackerTypes /\ OtherTypes /\ ReaderOK
  BY Parts
<1>2. Len(log) \in Nat /\ pos \in 0..Len(log)
  BY <1>1, LogTypes
<1>3. PICK j \in 1..Len(log) : j = pos + 1
  BY <1>2 DEF Hands
<1>4. PICK e \in Envelope : e = log[j]
  BY <1>1, LogTypes
<1>5. e.key \in Keys /\ e.kind \in Kinds /\ e.seq \in Nat /\ lastSeq[e.key] \in Nat
  BY <1>1, <1>4, LogTypes DEF TrackerTypes
<1>t. /\ UNCHANGED <<log, cursor, gone, chunkDone>> /\ at = "select" /\ pos' = j
      /\ IsChunk(e) => Completes(e)
      /\ HandleMessage(e) /\ env' = e /\ gone = {}
      /\ assembly' = IF IsChunk(e) THEN NoAssembly ELSE assembly
  BY <1>1, <1>3, <1>4 DEF Hands, ReaderOK
<1>6. Settled = pos /\ j = Settled + 1 /\ pos' - 1 = Settled
  BY <1>1, <1>2, <1>3, <1>t, SettledType DEF Handling
<1>7. Ends(e)
  BY <1>t DEF Ends, Completes
<1>8. assembly'.key = None /\ (assembly' = assembly \/ assembly'.key = None)
  BY <1>1, <1>4, <1>6, <1>t, AssemblyPlace DEF NoAssembly
<1>9. ASSUME HandledOK', Handling', at' # "down", at' = "open" => IsInitialize(e),
             at' = "send" => Numbered(e),
             \A k \in Keys : \/ clients'[k] = clients[k] /\ lastSeq'[k] = lastSeq[k]
                             \/ clients'[k] = 0 /\ lastSeq'[k] = 0,
             \/ UNCHANGED <<keyOf, feed>>
             \/ /\ feed' = Append(feed, <<>>) /\ Len(keyOf') = Len(keyOf) + 1
                /\ \A c \in 1..Len(keyOf) : keyOf'[c] = keyOf[c]
      PROVE  DInv'
  <2>1. pos' \in 1..Len(log) /\ env' = log[pos'] /\ Ends(env') /\ gone' = {}
    BY <1>4, <1>7, <1>t
  <2> QED BY <1>6, <1>8, <1>9, <1>t, <2>1, HandleStep
<1>10. CASE /\ IsInitialize(e) /\ StartOpen(e.key) /\ feed' = Append(feed, <<>>)
            /\ UNCHANGED <<clients, lastSeq, cancelled, closers>>
  <2>1. /\ Len(keyOf') = Len(keyOf) + 1 /\ \A c \in 1..Len(keyOf) : keyOf'[c] = keyOf[c]
        /\ at' = "open"
    BY <1>1, <1>5, <1>10 DEF StartOpen, TrackerTypes
  <2>2. HandledOK' /\ Handling' /\ at' # "down" /\ at' # "send"
    BY <2>1 DEF HandledOK, Handling
  <2> QED BY <1>9, <1>10, <2>1, <2>2
<1>11. CASE CloseClient(e.key) /\ UNCHANGED <<keyOf, feed>>
  <2>1. /\ at' = "close"
        /\ \A k \in Keys : \/ clients'[k] = clients[k] /\ lastSeq'[k] = lastSeq[k]
                           \/ clients'[k] = 0 /\ lastSeq'[k] = 0
    BY <1>1, <1>5, <1>11 DEF CloseClient, RemoveClient, TrackerTypes
  <2>2. HandledOK' /\ Handling' /\ at' # "down" /\ at' # "send" /\ at' # "open"
    BY <1>t, <2>1 DEF HandledOK, Handling
  <2> QED BY <1>9, <1>11, <2>1, <2>2
<1>12. CASE /\ e.kind \in {"message", "chunk"} /\ Known(e.key) /\ ~IsDuplicate(e) /\ at' = "send"
            /\ UNCHANGED <<clients, lastSeq, keyOf, feed>>
  <2>1. Numbered(e) /\ ~IsInitialize(e)
    BY <1>12 DEF Numbered, IsInitialize
  <2>2. lastSeq[e.key] # 0
    BY <1>1, <1>4, <1>6, <1>12, <2>1, AwaitsInitialize
  <2>3. lastSeq[e.key] > 0
    BY <1>5, <2>2
  <2>4. e.seq <= lastSeq[e.key] + 1
    BY <1>1, <1>4, <1>6, <1>12, <2>1, <2>3, NextSeq
  <2>5. ~(lastSeq[e.key] >= e.seq)
    BY <1>12 DEF IsDuplicate, Known
  <2>6. e.seq = lastSeq[e.key] + 1
    BY <1>5, <2>4, <2>5
  <2>7. HandledOK' /\ Handling' /\ at' # "down" /\ at' # "open"
    BY <1>12, <1>t, <2>1, <2>3, <2>6 DEF HandledOK, Handling
  <2> QED BY <1>9, <1>12, <2>1, <2>7
<1>13. CASE /\ e.kind = "ping" \/ IsDuplicate(e) \/ (~IsInitialize(e) /\ ~Known(e.key))
            /\ at' = "record"
            /\ UNCHANGED <<clients, lastSeq, keyOf, feed>>
  <2>1. Numbered(e) /\ Known(e.key) => e.seq <= lastSeq[e.key]
    BY <1>5, <1>13 DEF Numbered, IsDuplicate
  <2>2. HandledOK' /\ Handling' /\ at' # "down" /\ at' # "open" /\ at' # "send"
    BY <1>13, <1>t, <2>1 DEF HandledOK, Handling, Known
  <2> QED BY <1>9, <1>13, <2>2
<1> QED BY <1>10, <1>11, <1>12, <1>13, <1>t DEF HandleMessage, Known

LEMMA ReadDelivers ==
    ASSUME DInv, IInv', Read
    PROVE  DInv'
<1>1. CASE Skips
  BY <1>1, SkipStep
<1>2. CASE Hands
  BY <1>2, HandsDelivers
<1>3. Skips \/ Hands
  BY DEF Read, Skips, Hands, IsChunk
<1> QED BY <1>1, <1>2, <1>3
-----------------------------------------------------------------------------
(* Steps that deliver *)

\* Connection c, with n events, gets the initialize that opened it or the message behind
\* the last one.
IsNext(c, n, seq) ==
    IF n = 1 THEN \E e \in Range(log) : IsInitialize(e) /\ e.key = keyOf[c] /\ e.seq = seq
    ELSE n >= 2 /\ seq = feed[c][n].seq + 1

\* One event more: the message that is next, or no message.
LEMMA GapPut ==
    ASSUME DInv, UNCHANGED <<log, keyOf>>, NEW c \in 1..Len(keyOf),
           NEW type \in {"opened", "message", "closed"}, NEW seq \in Nat, Put(c, type, seq),
           NEW n \in Nat, n = Len(feed[c]),
           type = "message" => IsNext(c, n, seq)
    PROVE  /\ NoGap'
           /\ \A d \in 1..Len(keyOf) : d # c => feed'[d] = feed[d]
           /\ Len(feed'[c]) = n + 1 /\ feed'[c][n + 1].seq = seq
<1>1. IInv /\ FeedOK /\ NoGap /\ TrackerTypes /\ OtherTypes
  BY Parts
<1>2. keyOf \in Seq(Keys) /\ Conns = 1..Len(keyOf) /\ Conns' = 1..Len(keyOf) /\ backlog \in 0..EventCapacity
  BY <1>1 DEF TrackerTypes, Conns, OtherTypes
<1>3. /\ FeedOK' /\ \A d \in 1..Len(keyOf) : d # c => feed'[d] = feed[d]
      /\ Len(feed'[c]) = n + 1
      /\ \A i \in 1..n : feed'[c][i] = feed[c][i]
      /\ feed'[c][n + 1].type = type
      /\ DOMAIN feed[c] = 1..n /\ DOMAIN feed'[c] = 1..(n + 1)
  BY <1>1, <1>2, PutProps
<1>4. feed'[c][n + 1].seq = seq
  <2>1. feed[c] \in Seq(Event) /\ c \in DOMAIN feed
    BY <1>1 DEF FeedOK
  <2>e. [type |-> type, seq |-> seq] \in Event
    BY DEF Event
  <2>2. PICK v \in Event : v = [type |-> type, seq |-> seq] /\ v.seq = seq
    BY <2>e
  <2>3. feed'[c] = Append(feed[c], v)
    BY <2>1, <2>2 DEF Put
  <2> QED BY <2>1, <2>2, <2>3
<1>5. ASSUME NEW d \in 1..Len(keyOf), NEW i \in DOMAIN feed[d], feed[d][i].type = "message"
      PROVE  IF i = 2
             THEN \E e \in Range(log) : IsInitialize(e) /\ e.key = keyOf[d] /\ e.seq = feed[d][i].seq
             ELSE feed[d][i].seq = feed[d][i - 1].seq + 1
  BY <1>1, <1>2, <1>5 DEF NoGap
<1>e. EventsInOrder
  BY <1>1, Disassemble
<1>6. ASSUME NEW d \in 1..Len(keyOf), NEW i \in DOMAIN feed'[d], feed'[d][i].type = "message"
      PROVE  IF i = 2
             THEN \E e \in Range(log) : IsInitialize(e) /\ e.key = keyOf[d] /\ e.seq = feed'[d][i].seq
             ELSE feed'[d][i].seq = feed'[d][i - 1].seq + 1
  <2>1. CASE d # c
    <3>1. feed'[d] = feed[d]
      BY <1>3, <2>1
    <3> QED BY <1>5, <1>6, <3>1
  <2>2. CASE d = c /\ i \in 1..n
    <3>1. feed'[c][i] = feed[c][i] /\ i \in DOMAIN feed[c] /\ feed[c][i].type = "message"
      BY <1>3, <1>6, <2>2
    <3>2. i # 1
      BY <1>2, <1>e, <3>1 DEF EventsInOrder
    <3>3. i - 1 \in 1..n
      BY <2>2, <3>2
    <3>4. feed'[c][i - 1] = feed[c][i - 1]
      BY <1>3, <3>3
    <3>5. IF i = 2
          THEN \E e \in Range(log) : IsInitialize(e) /\ e.key = keyOf[c] /\ e.seq = feed[c][i].seq
          ELSE feed[c][i].seq = feed[c][i - 1].seq + 1
      BY <1>5, <3>1
    <3> QED BY <2>2, <3>1, <3>4, <3>5
  <2>3. CASE d = c /\ i = n + 1
    <3>1. type = "message" /\ feed'[d][i].seq = seq
      BY <1>3, <1>4, <1>6, <2>3
    <3>2. CASE n = 1
      BY <2>3, <3>1, <3>2 DEF IsNext
    <3>3. CASE n # 1
      <4>1. n >= 2 /\ seq = feed[c][n].seq + 1 /\ i # 2
        BY <2>3, <3>1, <3>3 DEF IsNext
      <4>2. i - 1 = n /\ n \in 1..n
        BY <2>3, <4>1
      <4>3. feed'[c][n] = feed[c][n]
        BY <1>3, <4>2
      <4> QED BY <2>3, <3>1, <4>1, <4>2, <4>3
    <3> QED BY <3>2, <3>3
  <2> QED BY <1>3, <1>6, <2>1, <2>2, <2>3
<1> QED BY <1>2, <1>3, <1>4, <1>6 DEF NoGap

LEMMA CloserDelivers ==
    ASSUME DInv, IInv', NEW c \in closers, CloserSends(c)
    PROVE  DInv'
<1>1. IInv /\ FeedsOK /\ TrackerTypes /\ FeedOK /\ ClientsOK
  BY Parts, Disassemble
<1>t. /\ UNCHANGED <<log, pos, cursor, at, env, todo, gone, clients, lastSeq, keyOf, assembly, chunkDone>>
      /\ Put(c, "closed", 0)
  BY DEF CloserSends, reader, tracker, chunks
<1>2. c \in 1..Len(keyOf)
  BY <1>1 DEF TrackerTypes
<1>3. PICK n \in Nat : n = Len(feed[c])
  BY <1>1, <1>2 DEF FeedOK
<1>4. NoGap' /\ \A d \in 1..Len(keyOf) : d # c => feed'[d] = feed[d]
  BY <1>2, <1>3, <1>t, GapPut
<1>5. FeedsOK'
  <2>1. ASSUME NEW k \in Keys, Known(k)'
        PROVE  /\ clients'[k] = clients[k] /\ lastSeq'[k] = lastSeq[k]
               /\ feed'[clients[k]] = feed[clients[k]]
    <3>1. clients[k] # 0 /\ clients[k] \in 1..Len(keyOf) /\ clients[k] # c
      BY <1>1, <1>t, <2>1 DEF Known, TrackerTypes, ClientsOK
    <3> QED BY <1>4, <1>t, <3>1
  <2> QED BY <1>1, <2>1, FeedsKept
<1> QED BY <1>4, <1>5, <1>t, IdleParts DEF DInv

\* The client is inserted; its initialize is the first of its stream behind the cursor.
LEMMA OpenSentDelivers ==
    ASSUME DInv, IInv', OpenSent
    PROVE  DInv'
<1>1. /\ IInv /\ Steady(log) /\ PlaceOK /\ CursorOK /\ UnknownOK /\ Delivered /\ Awaited /\ DoneOK
      /\ FeedsOK /\ TrackerTypes /\ FeedOK /\ ReaderOK /\ OtherTypes /\ ClientsOK
  BY Parts, Disassemble
<1>r. /\ conn \in 1..Len(keyOf) /\ env \in Envelope /\ keyOf[conn] = env.key
      /\ clients[env.key] = 0 /\ feed[conn] = <<>> /\ gone = {} /\ env.key \in Keys
  BY <1>1 DEF OpenSent, ReaderOK, Envelope
<1>t. /\ UNCHANGED <<log, pos, cursor, env, todo, gone, lastSeq, keyOf, assembly, chunkDone>>
      /\ at = "open" /\ at' = "send"
      /\ clients' = [clients EXCEPT ![env.key] = conn] /\ Put(conn, "opened", 0)
  BY DEF OpenSent, GoTo, chunks
<1>2. PICK k \in Keys, c \in 1..Len(keyOf) : k = env.key /\ c = conn
  BY <1>r
<1>3. clients'[k] = c /\ \A i \in Keys : i # k => clients'[i] = clients[i]
  BY <1>1, <1>2, <1>t DEF TrackerTypes
<1>4. /\ Handling /\ Handling' /\ Settled = pos - 1 /\ Settled' = pos - 1 /\ Settled \in Nat
      /\ pos \in 1..Len(log) /\ env = log[pos] /\ Ends(env) /\ assembly.key = None
      /\ IsInitialize(env)
  <2>1. Handling /\ Handling'
    BY <1>t DEF Handling
  <2> QED BY <1>1, <1>t, <2>1, SettledType DEF PlaceOK, Settled
<1>5. lastSeq[k] = 0 /\ lastSeq'[k] = 0
  BY <1>1, <1>2, <1>r, <1>t DEF UnknownOK, Known
<1>6. PlaceOK' /\ HandledOK' /\ InRun' /\ AssemblyOK' /\ Steady(log)'
  <2>1. PlaceOK'
    BY <1>r, <1>t, <1>4 DEF PlaceOK, Numbered, IsInitialize
  <2>2. HandledOK'
    BY <1>2, <1>t, <1>4, <1>5 DEF HandledOK
  <2> QED BY <1>1, <1>t, <1>4, <2>1, <2>2 DEF InRun, AssemblyOK
<1>7. CursorOK'
  BY <1>1, <1>t, <1>4 DEF CursorOK
<1>8. UnknownOK' /\ Delivered' /\ DoneOK'
  <2>1. UnknownOK'
    BY <1>1, <1>t, <1>3, <1>5 DEF UnknownOK, Known
  <2>2. ASSUME NEW i \in Keys, Known(i)', lastSeq'[i] > 0 PROVE Known(i) /\ lastSeq[i] > 0
    BY <1>t, <1>3, <1>5, <2>2 DEF Known
  <2>3. Delivered'
    BY <1>1, <1>t, <1>4, <2>2 DEF Delivered
  <2>4. DoneOK'
    BY <1>1, <1>t, <2>2 DEF DoneOK
  <2> QED BY <2>1, <2>3, <2>4
<1>9. FirstIs(k, pos)'
  <2>1. ASSUME NEW p \in (cursor + 1)..(pos - 1), Numbered(log[p]), log[p].key = k PROVE FALSE
    <3>1. IsChunk(log[p]) /\ \A m \in (cursor + 1)..(pos - 1) : IsChunk(log[m])
      BY <1>1, <1>4 DEF CursorOK
    <3>2. cursor \in Nat /\ pos \in Nat /\ Len(log) \in Nat /\ DOMAIN log = 1..Len(log)
      BY <1>1, <1>4, LogTypes
    <3>3. p \in 1..(pos - 1) /\ Numbered(log[pos]) /\ pos \in DOMAIN log
      BY <1>4, <3>2 DEF Numbered, IsInitialize
    <3>4. \E m \in (p + 1)..(pos - 1) : ~IsChunk(log[m])
      BY <1>1, <1>2, <1>4, <2>1, <3>1, <3>3 DEF Steady
    <3> QED BY <3>1, <3>2, <3>4
  <2> QED BY <1>2, <1>t, <1>4, <2>1 DEF FirstIs
<1>10. Awaited'
  <2>s. Settled' + 1 = pos /\ Settled + 1 = pos
    BY <1>1, <1>4, LogTypes
  <2>1. ASSUME NEW i \in Keys, Known(i)', lastSeq'[i] = 0
        PROVE  \E p \in (Settled' + 1)..Len(log') : FirstIs(i, p)'
    <3>1. CASE i = k
      <4>1. pos \in (Settled' + 1)..Len(log')
        BY <1>1, <1>4, <1>t, <2>s, LogTypes
      <4>2. PICK p \in (Settled' + 1)..Len(log') : p = pos
        BY <4>1
      <4>3. FirstIs(i, p)'
        BY <1>9, <1>t, <3>1, <4>2 DEF FirstIs
      <4> QED BY <4>3
    <3>2. CASE i # k
      <4>1. Known(i) /\ lastSeq[i] = 0
        BY <1>t, <1>3, <2>1, <3>2 DEF Known
      <4>2. PICK p \in (Settled + 1)..Len(log) : FirstIs(i, p)
        BY <1>1, <4>1 DEF Awaited
      <4>3. FirstIs(i, p)'
        BY <1>t, <4>2 DEF FirstIs
      <4>4. p \in (Settled' + 1)..Len(log')
        BY <1>t, <2>s
      <4> QED BY <4>3, <4>4
    <3> QED BY <3>1, <3>2
  <2> QED BY <2>1 DEF Awaited
<1>11. PICK n \in Nat : n = Len(feed[c]) /\ n = 0
  BY <1>2, <1>r
<1>12. /\ NoGap' /\ \A d \in 1..Len(keyOf) : d # c => feed'[d] = feed[d]
       /\ Len(feed'[c]) = n + 1
  BY <1>2, <1>t, <1>11, GapPut
<1>13. FeedsOK'
  <2> SUFFICES ASSUME NEW i \in Keys, Known(i)'
               PROVE  IF lastSeq[i] = 0 THEN Len(feed'[clients'[i]]) = 1
                      ELSE /\ Len(feed'[clients'[i]]) >= 2
                           /\ feed'[clients'[i]][Len(feed'[clients'[i]])].seq = lastSeq[i]
    BY <1>t DEF FeedsOK
  <2>1. CASE i = k
    BY <1>3, <1>5, <1>11, <1>12, <2>1
  <2>2. CASE i # k
    <3>1. Known(i) /\ clients'[i] = clients[i] /\ clients[i] \in 1..Len(keyOf)
      BY <1>1, <1>3, <2>2 DEF Known, TrackerTypes
    <3>2. clients[i] # c
      BY <1>1, <1>2, <1>r, <2>2, <3>1 DEF ClientsOK, Known
    <3>3. feed'[clients[i]] = feed[clients[i]]
      BY <1>12, <3>1, <3>2
    <3> QED BY <1>1, <3>1, <3>3 DEF FeedsOK
  <2> QED BY <2>1, <2>2
<1> QED BY <1>6, <1>7, <1>8, <1>10, <1>12, <1>13 DEF DInv, LedgerOK

LEMMA MessageSentDelivers ==
    ASSUME DInv, IInv', MessageSent
    PROVE  DInv'
<1>1. /\ IInv /\ Steady(log) /\ PlaceOK /\ CursorOK /\ UnknownOK /\ Delivered /\ Awaited /\ DoneOK
      /\ HandledOK /\ FeedsOK /\ TrackerTypes /\ FeedOK /\ ReaderOK /\ OtherTypes /\ ClientsOK
  BY Parts, Disassemble
<1>r. /\ env \in Envelope /\ env.key \in Keys /\ env.seq \in Nat /\ env.seq > 0 /\ conn # 0
      /\ clients[env.key] = conn /\ gone = {}
  BY <1>1 DEF MessageSent, ReaderOK, Envelope
<1>t. /\ UNCHANGED <<log, pos, cursor, clients, keyOf, env, todo, gone, assembly, chunkDone>>
      /\ at = "send" /\ at' = "record"
      /\ lastSeq' = [lastSeq EXCEPT ![env.key] = env.seq] /\ Put(conn, "message", env.seq)
  BY DEF MessageSent, GoTo, chunks
<1>2. PICK k \in Keys, c \in 1..Len(keyOf), q \in Nat : k = env.key /\ c = conn /\ q = env.seq
  BY <1>1, <1>r DEF TrackerTypes
<1>3. /\ lastSeq'[k] = q /\ q > 0 /\ clients[k] = c /\ clients[k] # 0 /\ keyOf[c] = k
      /\ \A i \in Keys : i # k => lastSeq'[i] = lastSeq[i]
  BY <1>1, <1>2, <1>r, <1>t DEF TrackerTypes, ClientsOK
<1>4. /\ Handling /\ Handling' /\ Settled = pos - 1 /\ Settled' = pos - 1 /\ Settled \in Nat
      /\ pos \in 1..Len(log) /\ env = log[pos] /\ Ends(env) /\ assembly.key = None
      /\ Numbered(env)
  <2>1. Handling /\ Handling'
    BY <1>t DEF Handling
  <2> QED BY <1>1, <1>t, <2>1, SettledType DEF PlaceOK, Settled
<1>5. ASSUME NEW i \in 1..(pos - 1), Numbered(log[i]), log[i].key = k PROVE log[i].seq <= q
  <2>1. pos \in DOMAIN log
    BY <1>1, <1>4, LogTypes
  <2> QED BY <1>1, <1>2, <1>4, <1>5, <2>1 DEF Steady
<1>6. PlaceOK' /\ HandledOK' /\ InRun' /\ AssemblyOK' /\ Steady(log)' /\ CursorOK'
  <2>1. PlaceOK'
    BY <1>r, <1>t, <1>4 DEF PlaceOK
  <2>2. HandledOK'
    BY <1>2, <1>t, <1>3 DEF HandledOK
  <2>3. CursorOK'
    BY <1>1, <1>t, <1>4 DEF CursorOK
  <2> QED BY <1>1, <1>t, <1>4, <2>1, <2>2, <2>3 DEF InRun, AssemblyOK
<1>7. UnknownOK'
  BY <1>1, <1>t, <1>3 DEF UnknownOK, Known
<1>8. Delivered'
  <2>1. ASSUME NEW i \in Keys, Known(i)', lastSeq'[i] > 0, NEW p \in 1..(pos - 1),
               Numbered(log[p]), log[p].key = i, Ends(log[p])
        PROVE  log[p].seq <= lastSeq'[i]
    <3>1. CASE i = k
      BY <1>3, <1>5, <2>1, <3>1
    <3>2. CASE i # k
      <4>1. Known(i) /\ lastSeq'[i] = lastSeq[i]
        BY <1>3, <1>t, <2>1, <3>2 DEF Known
      <4> QED BY <1>1, <1>4, <2>1, <4>1 DEF Delivered
    <3> QED BY <3>1, <3>2
  <2> QED BY <1>4, <1>t, <2>1 DEF Delivered
<1>9. Awaited'
  <2>1. ASSUME NEW i \in Keys, Known(i)', lastSeq'[i] = 0
        PROVE  \E p \in (Settled' + 1)..Len(log') : FirstIs(i, p)'
    <3>1. Known(i) /\ lastSeq[i] = 0
      BY <1>t, <1>3, <2>1 DEF Known
    <3>2. PICK p \in (Settled + 1)..Len(log) : FirstIs(i, p)
      BY <1>1, <3>1 DEF Awaited
    <3>3. FirstIs(i, p)'
      BY <1>t, <3>2 DEF FirstIs
    <3>4. p \in (Settled' + 1)..Len(log')
      BY <1>t, <1>4
    <3> QED BY <3>3, <3>4
  <2> QED BY <2>1 DEF Awaited
<1>10. DoneOK'
  <2>1. ASSUME NEW i \in Keys, Known(i)', lastSeq'[i] > 0 PROVE chunkDone[i] <= lastSeq'[i]
    <3>0. chunkDone[i] \in Nat
      BY <1>1 DEF OtherTypes
    <3>1. CASE i = k /\ chunkDone[i] > 0
      <4>1. PICK p \in 1..cursor : IsChunk(log[p]) /\ log[p].key = k /\ log[p].seq = chunkDone[k]
        BY <1>1, <3>1 DEF DoneOK
      <4>2. p \in 1..(pos - 1)
        BY <1>1, <1>4, LogTypes DEF CursorOK
      <4> QED BY <1>3, <1>5, <3>1, <4>1, <4>2 DEF Numbered, IsChunk
    <3>2. CASE i = k /\ chunkDone[i] = 0
      BY <1>3, <3>2
    <3>3. CASE i # k
      <4>1. Known(i) /\ lastSeq'[i] = lastSeq[i]
        BY <1>3, <1>t, <2>1, <3>3 DEF Known
      <4> QED BY <1>1, <2>1, <4>1 DEF DoneOK
    <3> QED BY <3>0, <3>1, <3>2, <3>3
  <2> QED BY <1>1, <1>t, <2>1 DEF DoneOK
<1>11. PICK n \in Nat : n = Len(feed[c])
  BY <1>1 DEF FeedOK
<1>12. IsNext(c, n, q)
  <2>1. IF lastSeq[k] = 0 THEN n = 1 ELSE n >= 2 /\ feed[c][n].seq = lastSeq[k]
    BY <1>1, <1>3, <1>11 DEF FeedsOK, Known
  <2>2. IF IsInitialize(env) THEN lastSeq[k] = 0 ELSE lastSeq[k] > 0 /\ q = lastSeq[k] + 1
    BY <1>1, <1>2, <1>t DEF HandledOK
  <2>3. CASE IsInitialize(env)
    <3>1. env \in Range(log)
      <4>1. pos \in DOMAIN log
        BY <1>1, <1>4, LogTypes
      <4> QED BY <1>4, <4>1 DEF Range
    <3>2. n = 1
      BY <2>1, <2>2, <2>3
    <3> QED BY <1>2, <1>3, <2>3, <3>1, <3>2 DEF IsNext
  <2>4. CASE ~IsInitialize(env)
    BY <2>1, <2>2, <2>4 DEF IsNext
  <2> QED BY <2>3, <2>4
<1>13. /\ NoGap' /\ \A d \in 1..Len(keyOf) : d # c => feed'[d] = feed[d]
       /\ Len(feed'[c]) = n + 1 /\ feed'[c][n + 1].seq = q
  <2>1. PICK type \in {"opened", "message", "closed"} : type = "message"
    OBVIOUS
  <2>2. Put(c, type, q) /\ UNCHANGED <<log, keyOf>>
    BY <1>2, <1>t, <2>1
  <2> QED BY <1>11, <1>12, <2>1, <2>2, GapPut
<1>14. FeedsOK'
  <2>1. ASSUME NEW i \in Keys, Known(i)'
        PROVE  IF lastSeq'[i] = 0 THEN Len(feed'[clients[i]]) = 1
               ELSE /\ Len(feed'[clients[i]]) >= 2
                    /\ feed'[clients[i]][Len(feed'[clients[i]])].seq = lastSeq'[i]
    <3>1. CASE i = k
      <4>1. n >= 1
        BY <1>12 DEF IsNext
      <4> QED BY <1>3, <1>13, <3>1, <4>1
    <3>2. CASE i # k
      <4>1. Known(i) /\ lastSeq'[i] = lastSeq[i] /\ clients[i] \in 1..Len(keyOf) /\ clients[i] # c
        BY <1>1, <1>3, <1>t, <2>1, <3>2 DEF Known, TrackerTypes, ClientsOK
      <4>2. feed'[clients[i]] = feed[clients[i]]
        BY <1>13, <4>1
      <4> QED BY <1>1, <4>1, <4>2 DEF FeedsOK
    <3> QED BY <3>1, <3>2
  <2> QED BY <1>t, <2>1 DEF FeedsOK
<1> QED BY <1>6, <1>7, <1>8, <1>9, <1>10, <1>13, <1>14 DEF DInv, LedgerOK

LEMMA RecordDelivers ==
    ASSUME DInv, IInv', Record
    PROVE  DInv'
<1>1. /\ IInv /\ Steady(log) /\ PlaceOK /\ CursorOK /\ UnknownOK /\ Delivered /\ Awaited /\ DoneOK
      /\ HandledOK /\ FeedsOK /\ TrackerTypes /\ ReaderOK /\ OtherTypes /\ NoGap
  BY Parts, Disassemble
<1>t. /\ UNCHANGED <<log, pos, clients, lastSeq, keyOf, feed, todo, gone>>
      /\ cursor' = pos /\ at = "record" /\ at' = "select" /\ gone = {}
  BY <1>1 DEF Record, tracker, channel, ReaderOK
<1>2. /\ Handling /\ ~Handling' /\ Settled = pos - 1 /\ Settled' = pos
      /\ pos \in 1..Len(log) /\ env = log[pos] /\ Ends(env) /\ assembly.key = None
  <2>1. Handling /\ ~Handling'
    BY <1>t DEF Handling
  <2> QED BY <1>1, <1>t, <2>1, SettledType DEF PlaceOK, Settled
<1>3. Len(log) \in Nat /\ cursor \in Nat /\ pos \in Nat /\ cursor <= pos - 1
  BY <1>1, <1>2, LogTypes DEF CursorOK
<1>e. env.key \in Keys /\ env.seq \in Nat /\ env.seq > 0
  BY <1>1, <1>2, LogTypes
<1>4. PICK k \in Keys, q \in Nat : k = env.key /\ q = env.seq /\ q > 0
  BY <1>e
<1>5. Numbered(env) /\ Known(k) => q <= lastSeq[k]
  BY <1>1, <1>t, <1>4 DEF HandledOK
<1>6. PlaceOK' /\ HandledOK' /\ Steady(log)'
  BY <1>1, <1>t, <1>2 DEF PlaceOK, HandledOK
<1>7. InRun'
  BY <1>t, <1>2 DEF InRun
<1>8. CursorOK'
  <2>1. (pos + 1)..pos = {}
    BY <1>3
  <2> QED BY <1>t, <1>2, <1>3, <2>1 DEF CursorOK
<1>9. UnknownOK'
  BY <1>1, <1>t DEF UnknownOK, Known
<1>10. Delivered'
  <2>1. ASSUME NEW i \in Keys, Known(i), lastSeq[i] > 0, NEW p \in 1..pos,
               Numbered(log[p]), log[p].key = i, Ends(log[p])
        PROVE  log[p].seq <= lastSeq[i]
    <3>1. CASE p = pos
      BY <1>2, <1>4, <1>5, <2>1, <3>1
    <3>2. CASE p # pos
      <4>1. p \in 1..Settled
        BY <1>2, <1>3, <3>2
      <4> QED BY <1>1, <2>1, <4>1 DEF Delivered
    <3> QED BY <3>1, <3>2
  <2> QED BY <1>2, <1>t, <2>1 DEF Delivered, Known
<1>11. Awaited'
  <2>1. ASSUME NEW i \in Keys, Known(i), lastSeq[i] = 0
        PROVE  \E p \in (pos + 1)..Len(log) : FirstIs(i, p)'
    <3>1. PICK p \in (Settled + 1)..Len(log) : FirstIs(i, p)
      BY <1>1, <2>1 DEF Awaited
    <3>2. p # pos
      <4> SUFFICES ASSUME p = pos PROVE FALSE
        OBVIOUS
      <4>1. IsInitialize(env) /\ i = k
        BY <1>2, <1>4, <3>1 DEF FirstIs
      <4>2. q <= 0
        BY <1>5, <2>1, <4>1 DEF Numbered, IsInitialize
      <4> QED BY <1>4, <4>2
    <3>3. p \in (pos + 1)..Len(log)
      BY <1>2, <1>3, <3>2
    <3>4. \A m \in (pos + 1)..(p - 1) : m \in (cursor + 1)..(p - 1)
      BY <1>3, <3>3
    <3>5. FirstIs(i, p)'
      BY <1>t, <3>1, <3>4 DEF FirstIs
    <3> QED BY <3>3, <3>5
  <2>2. ASSUME NEW i \in Keys, Known(i)', lastSeq'[i] = 0
        PROVE  \E p \in (Settled' + 1)..Len(log') : FirstIs(i, p)'
    <3>1. Known(i) /\ lastSeq[i] = 0
      BY <1>t, <2>2 DEF Known
    <3>2. PICK p \in (pos + 1)..Len(log) : FirstIs(i, p)'
      BY <2>1, <3>1
    <3>3. p \in (Settled' + 1)..Len(log')
      BY <1>t, <1>2
    <3> QED BY <3>2, <3>3
  <2> QED BY <2>2 DEF Awaited
<1>12. AssemblyOK'
  <2>1. assembly'.key = None
    BY <1>2 DEF Record, Forget, NoAssembly
  <2> QED BY <2>1 DEF AssemblyOK
<1>13. DoneOK'
  <2>1. ASSUME NEW i \in Keys
        PROVE  \/ chunkDone'[i] = chunkDone[i] \/ chunkDone'[i] = 0
               \/ i = k /\ IsChunk(env) /\ chunkDone'[i] = q
    BY <1>1, <1>4 DEF Record, Forget, IsChunk, OtherTypes
  <2>2. ASSUME NEW i \in Keys, Known(i), lastSeq[i] > 0 PROVE chunkDone'[i] <= lastSeq[i]
    <3>1. lastSeq[i] \in Nat
      BY <1>1 DEF TrackerTypes
    <3>2. CASE chunkDone'[i] = chunkDone[i]
      BY <1>1, <2>2, <3>2 DEF DoneOK
    <3>3. CASE chunkDone'[i] = 0
      BY <3>1, <3>3
    <3>4. CASE i = k /\ IsChunk(env) /\ chunkDone'[i] = q
      BY <1>5, <2>2, <3>4 DEF Numbered, IsChunk
    <3> QED BY <2>1, <3>2, <3>3, <3>4
  <2>3. ASSUME NEW i \in Keys, chunkDone'[i] > 0
        PROVE  \E p \in 1..pos : IsChunk(log[p]) /\ log[p].key = i /\ log[p].seq = chunkDone'[i]
    <3>1. CASE chunkDone'[i] = chunkDone[i]
      <4>1. PICK p \in 1..cursor : IsChunk(log[p]) /\ log[p].key = i /\ log[p].seq = chunkDone[i]
        BY <1>1, <2>3, <3>1 DEF DoneOK
      <4>2. p \in 1..pos
        BY <1>3
      <4> QED BY <3>1, <4>1, <4>2
    <3>2. CASE i = k /\ IsChunk(env) /\ chunkDone'[i] = q
      <4>1. pos \in 1..pos
        BY <1>2, <1>3
      <4> QED BY <1>2, <1>4, <3>2, <4>1
    <3> QED BY <2>1, <2>3, <3>1, <3>2
  <2> QED BY <1>t, <2>2, <2>3 DEF DoneOK, Known
<1>14. FeedsOK' /\ NoGap'
  BY <1>1, <1>t, GapKept DEF FeedsOK, Known
<1> QED BY <1>6, <1>7, <1>8, <1>9, <1>10, <1>11, <1>12, <1>13, <1>14 DEF DInv, LedgerOK
-----------------------------------------------------------------------------
(* The theorem *)

LEMMA DeliveryInit == Init /\ Steady(log) => DInv
<1> SUFFICES ASSUME Init, Steady(log) PROVE DInv
  OBVIOUS
<1>1. IInv
  BY InitInv
<1>2. /\ at = "down" /\ cursor = 0 /\ gone = {} /\ assembly.key = None /\ keyOf = <<>>
      /\ \A k \in Keys : clients[k] = 0 /\ lastSeq[k] = 0 /\ chunkDone[k] = 0
  BY DEF Init, NoAssembly
<1>3. ~Handling /\ Settled = 0
  BY <1>2 DEF Handling, Settled
<1>4. PlaceOK /\ HandledOK /\ InRun
  BY <1>2, <1>3 DEF PlaceOK, HandledOK, InRun
<1>5. CursorOK
  BY <1>2, <1>3 DEF CursorOK
<1>6. LedgerOK /\ FeedsOK
  BY <1>2 DEF LedgerOK, UnknownOK, Delivered, Awaited, DoneOK, AssemblyOK, FeedsOK, Known
<1>7. NoGap
  BY <1>2 DEF NoGap, Conns
<1> QED BY <1>1, <1>4, <1>5, <1>6, <1>7 DEF DInv

LEMMA DeliveryNext == DInv /\ [Next]_vars => DInv'
<1> SUFFICES ASSUME DInv, [Next]_vars PROVE DInv'
  OBVIOUS
<1>1. IInv'
  BY NextInv DEF DInv
<1>2. ASSUME NEW c \in finished, Bookkeep(c) PROVE DInv'
  BY <1>1, <1>2, BookkeepDelivers
<1>3. ASSUME NEW keys \in SUBSET Keys, Sweep(keys) PROVE DInv'
  BY <1>1, <1>3, SweepDelivers
<1>4. ASSUME NEW c \in closers, CloserSends(c) PROVE DInv'
  BY <1>1, <1>4, CloserDelivers
<1>5. ASSUME UNCHANGED <<log, pos, cursor, at, env, todo, gone, clients, lastSeq, keyOf, feed,
                         assembly, chunkDone>>
      PROVE  DInv'
  BY <1>1, <1>5, IdleStep
<1>6. ASSUME NEW c \in tasks, TaskEnds(c) \/ WriterGone(c) \/ AppDisconnects(c) PROVE DInv'
  BY <1>5, <1>6 DEF TaskEnds, WriterGone, ReturnFromTask, AppDisconnects, reader, channel, chunks
<1>7. CASE Break \/ AppTakes \/ UNCHANGED vars
  BY <1>5, <1>7 DEF Break, AppTakes, vars, reader, tracker, channel, chunks
<1>8. CASE \/ Connect \/ Read \/ OpenSent \/ MessageSent \/ SendTimesOut \/ CloseSent \/ Record
           \/ Stop \/ Shutdown
  BY <1>1, <1>8, ConnectDelivers, ReadDelivers, OpenSentDelivers, MessageSentDelivers,
     LeaveDelivers, CloseSentDelivers, RecordDelivers, ShutdownDelivers
<1> QED BY <1>2, <1>3, <1>4, <1>6, <1>7, <1>8 DEF Next

\* The backend's log is fixed from the start.
LEMMA LogKept == [Next]_vars => log' = log
<1> SUFFICES ASSUME [Next]_vars PROVE log' = log
  OBVIOUS
<1>1. CASE Connect \/ Read \/ OpenSent \/ MessageSent \/ SendTimesOut \/ CloseSent \/ Record
  BY <1>1 DEF Connect, Read, OpenSent, MessageSent, SendTimesOut, CloseSent, Record
<1>2. CASE \/ \E c \in finished : Bookkeep(c)
           \/ \E keys \in SUBSET Keys : Sweep(keys)
           \/ \E c \in tasks : TaskEnds(c) \/ WriterGone(c) \/ AppDisconnects(c)
           \/ \E c \in closers : CloserSends(c)
  BY <1>2 DEF Bookkeep, Sweep, TaskEnds, WriterGone, ReturnFromTask, AppDisconnects, CloserSends
<1>3. CASE Break \/ Stop \/ Shutdown \/ AppTakes \/ UNCHANGED vars
  BY <1>3 DEF Break, Stop, Shutdown, AppTakes, vars
<1> QED BY <1>1, <1>2, <1>3 DEF Next

\* On a steady log, within every connection the app-server gets the initialize that opened
\* it and then every message of the stream, in order and once: handle_message's check of
\* last_inbound_seq_id, the reassembler and the replay behind subscribe_cursor together
\* neither lose nor repeat one, for any number of streams, chunks, timeouts, aborted
\* readers, idle sweeps and dropped connections.
THEOREM NoMessageLost == Spec => []MessagesWithoutGap
<1>1. DInv => MessagesWithoutGap
  BY DEF DInv, MessagesWithoutGap
<1>2. ~Steady(log) => MessagesWithoutGap
  BY DEF MessagesWithoutGap
<1>3. ASSUME ~Steady(log), [Next]_vars PROVE ~Steady(log)'
  <2>1. log' = log
    BY <1>3, LogKept
  <2> QED BY <1>3, <2>1 DEF Steady
<1> QED BY <1>1, <1>2, <1>3, DeliveryInit, DeliveryNext, PTL DEF Spec
=============================================================================
