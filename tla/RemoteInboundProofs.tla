------------------------ MODULE RemoteInboundProofs ------------------------
(***************************************************************************)
(* What the app-server sees of remote connections is well-formed for every *)
(* log of the backend, any number of streams and any number of faults.     *)
(***************************************************************************)
EXTENDS RemoteInbound, TLAPS

\* The app-server was told of the connection and not of its end.
Live(c) == Opened(c) /\ ~Closed(c)

\* The sequences behind DOMAIN feed = Conns.
FeedOK == feed \in Seq(Seq(Event)) /\ Len(feed) = Len(keyOf)

\* What the reader task relies on at each of its awaits.
ReaderOK ==
    /\ at # "close" => todo = {} /\ gone = {}
    /\ at = "close" =>
         /\ conn \in 1..Len(keyOf)
         /\ \A k \in todo : clients[k] # 0
         /\ gone = {} => /\ todo = {} /\ env \in Envelope
                         /\ clients[env.key] = 0
    /\ at = "open" =>
         /\ conn \in 1..Len(keyOf) /\ env \in Envelope
         /\ keyOf[conn] = env.key /\ clients[env.key] = 0 /\ feed[conn] = <<>>
    /\ at = "send" => env \in Envelope /\ conn # 0 /\ clients[env.key] = conn
    /\ at = "record" => env \in Envelope

\* A client has a connection of its own, which the app-server believes open and nobody
\* is closing.
ClientsOK ==
    \A k \in Keys : clients[k] # 0 =>
      keyOf[clients[k]] = k /\ Live(clients[k]) /\ clients[k] \notin closers

ClosersOK == \A c \in closers : Live(c)

TrackerOK == FeedOK /\ ClientsOK /\ ClosersOK /\ EventsInOrder /\ NoOrphan

IInv == TypeOK /\ ReaderOK /\ TrackerOK
-----------------------------------------------------------------------------

\* The types of what the tracker and its tasks keep.
TrackerTypes ==
    /\ clients \in [Keys -> 0..Len(keyOf)] /\ lastSeq \in [Keys -> Nat]
    /\ keyOf \in Seq(Keys)
    /\ cancelled \subseteq 1..Len(keyOf) /\ tasks \subseteq 1..Len(keyOf)
    /\ finished \subseteq 1..Len(keyOf) /\ closers \subseteq 1..Len(keyOf)

\* The types of the rest.
OtherTypes ==
    /\ log \in Logs /\ pos \in 0..Len(log) /\ cursor \in 0..Len(log)
    /\ at \in {"down", "select", "close", "open", "send", "record"}
    /\ env \in Envelope \union {None} /\ conn \in 0..Len(keyOf)
    /\ todo \subseteq Keys /\ gone \subseteq Keys
    /\ stopping \in BOOLEAN /\ halted \in BOOLEAN
    /\ backlog \in 0..EventCapacity
    /\ assembly \in [key : Keys \union {None}, seq : Nat, count : Nat, next : Nat]
    /\ chunkDone \in [Keys -> Nat] /\ faults \in 0..MaxFaults

LEMMA TypeParts ==
    (TypeOK /\ FeedOK) <=> (TrackerTypes /\ OtherTypes /\ FeedOK)
<1>1. ASSUME FeedOK, keyOf \in Seq(Keys) PROVE DOMAIN feed = Conns /\ \A c \in Conns : feed[c] \in Seq(Event)
  BY <1>1 DEF FeedOK, Conns
<1>2. ASSUME keyOf \in Seq(Keys) PROVE Conns = 1..Len(keyOf)
  BY <1>2 DEF Conns
<1>3. (\A set \in {cancelled, tasks, finished, closers} : set \subseteq Conns)
        <=> /\ cancelled \subseteq Conns /\ tasks \subseteq Conns
            /\ finished \subseteq Conns /\ closers \subseteq Conns
  OBVIOUS
<1> QED BY <1>1, <1>2, <1>3 DEF TypeOK, TrackerTypes, OtherTypes

\* The next state is fine if its parts are.
LEMMA Assemble ==
    ASSUME TrackerTypes', OtherTypes', ReaderOK', TrackerOK'
    PROVE  IInv'
<1>1. FeedOK'
  BY DEF TrackerOK
<1>2. TypeOK'
  BY <1>1, TypeParts, PTL
<1> QED BY <1>2 DEF IInv

LEMMA Disassemble ==
    ASSUME IInv
    PROVE  /\ TrackerTypes /\ OtherTypes /\ ReaderOK /\ TrackerOK
           /\ FeedOK /\ ClientsOK /\ ClosersOK /\ EventsInOrder /\ NoOrphan
           /\ Conns = 1..Len(keyOf) /\ Len(keyOf) \in Nat
<1>1. TypeOK /\ ReaderOK /\ TrackerOK
  BY DEF IInv
<1>2. TrackerTypes /\ OtherTypes
  BY <1>1, TypeParts DEF TrackerOK
<1> QED BY <1>1, <1>2 DEF TrackerOK, TrackerTypes, Conns

LEMMA InitInv == Init => IInv
<1> SUFFICES ASSUME Init PROVE IInv
  OBVIOUS
<1> USE RemoteInboundAssumption DEF Init
<1>1. log \in Seq(Envelope) /\ Len(log) \in Nat
  OBVIOUS
<1>2. TrackerTypes
  <2>1. keyOf \in Seq(Keys) /\ Len(keyOf) = 0
    OBVIOUS
  <2>2. clients \in [Keys -> 0..0] /\ lastSeq \in [Keys -> Nat]
    OBVIOUS
  <2> QED BY <2>1, <2>2 DEF TrackerTypes
<1>3. OtherTypes
  <2>1. conn \in 0..Len(keyOf) /\ backlog \in 0..EventCapacity /\ faults \in 0..MaxFaults
    OBVIOUS
  <2>2. assembly \in [key : Keys \union {None}, seq : Nat, count : Nat, next : Nat]
    BY DEF NoAssembly
  <2>3. chunkDone \in [Keys -> Nat]
    OBVIOUS
  <2>4. log \in Logs /\ pos \in 0..Len(log) /\ cursor \in 0..Len(log)
    BY <1>1
  <2>5. todo \subseteq Keys /\ gone \subseteq Keys /\ stopping \in BOOLEAN /\ halted \in BOOLEAN
    OBVIOUS
  <2>6. at \in {"down", "select", "close", "open", "send", "record"} /\ env \in Envelope \union {None}
    OBVIOUS
  <2> QED BY <2>1, <2>2, <2>3, <2>4, <2>5, <2>6, Zenon DEF OtherTypes
<1>4. FeedOK
  BY DEF FeedOK
<1>5. TrackerOK
  BY <1>4 DEF TrackerOK, ClientsOK, ClosersOK, EventsInOrder, NoOrphan, Conns
<1>6. ReaderOK
  BY DEF ReaderOK
<1> QED BY <1>2, <1>3, <1>4, <1>5, <1>6, TypeParts DEF IInv
-----------------------------------------------------------------------------
(* The feed of the app-server *)

\* One event more for connection c.
LEMMA PutProps ==
    ASSUME FeedOK, keyOf \in Seq(Keys), UNCHANGED keyOf, NEW c \in 1..Len(keyOf),
           NEW type \in {"opened", "message", "closed"}, NEW seq \in Nat, Put(c, type, seq),
           backlog \in 0..EventCapacity
    PROVE  /\ FeedOK' /\ backlog' \in 0..EventCapacity
           /\ \A d \in 1..Len(keyOf) : d # c => feed'[d] = feed[d]
           /\ Len(feed'[c]) = Len(feed[c]) + 1 /\ Len(feed[c]) \in Nat
           /\ \A i \in 1..Len(feed[c]) : feed'[c][i] = feed[c][i]
           /\ feed'[c][Len(feed[c]) + 1].type = type
           /\ DOMAIN feed[c] = 1..Len(feed[c]) /\ DOMAIN feed'[c] = 1..(Len(feed[c]) + 1)
<1> DEFINE e == [type |-> type, seq |-> seq]
<1>1. e \in Event /\ e.type = type
  BY DEF Event
<1>2. feed[c] \in Seq(Event) /\ c \in DOMAIN feed
  BY DEF FeedOK
<1>3. feed' = [feed EXCEPT ![c] = Append(feed[c], e)] /\ backlog' = backlog + 1 /\ backlog < EventCapacity
  BY DEF Put, HasRoom
<1> HIDE DEF e
<1>4. Append(feed[c], e) \in Seq(Event)
  BY <1>1, <1>2
<1>5. feed' \in Seq(Seq(Event)) /\ Len(feed') = Len(feed)
  BY <1>2, <1>3, <1>4 DEF FeedOK
<1>6. feed'[c] = Append(feed[c], e) /\ \A d \in 1..Len(keyOf) : d # c => feed'[d] = feed[d]
  BY <1>2, <1>3 DEF FeedOK
<1>7. backlog' \in 0..EventCapacity
  BY <1>3, RemoteInboundAssumption
<1> QED BY <1>1, <1>2, <1>5, <1>6, <1>7 DEF FeedOK

\* Nothing of the other connections changes, and c is live unless this was its end.
LEMMA PutLive ==
    ASSUME FeedOK, keyOf \in Seq(Keys), UNCHANGED keyOf, NEW c \in 1..Len(keyOf),
           NEW type \in {"opened", "message", "closed"}, NEW seq \in Nat, Put(c, type, seq),
           backlog \in 0..EventCapacity
    PROVE  /\ \A d \in 1..Len(keyOf) : d # c => (Live(d)' <=> Live(d))
           /\ type = "closed" => ~Live(c)' /\ Closed(c)'
           /\ type # "closed" => Live(c)'
<1>1. /\ \A d \in 1..Len(keyOf) : d # c => feed'[d] = feed[d]
      /\ Len(feed'[c]) = Len(feed[c]) + 1 /\ Len(feed[c]) \in Nat
      /\ feed'[c][Len(feed[c]) + 1].type = type
      /\ DOMAIN feed'[c] = 1..(Len(feed[c]) + 1) /\ FeedOK'
  BY PutProps
<1>2. feed'[c] # <<>>
  BY <1>1
<1>3. Last(feed'[c]).type = type
  BY <1>1 DEF Last
<1>4. \A d \in 1..Len(keyOf) : d # c => (Live(d)' <=> Live(d))
  BY <1>1 DEF Live, Opened, Closed
<1> QED BY <1>2, <1>3, <1>4 DEF Live, Opened, Closed

\* The first event is the opening one, and no event follows the end.
LEMMA PutOrdered ==
    ASSUME FeedOK, keyOf \in Seq(Keys), UNCHANGED keyOf, NEW c \in 1..Len(keyOf), EventsInOrder,
           NEW type \in {"opened", "message", "closed"}, NEW seq \in Nat, Put(c, type, seq),
           backlog \in 0..EventCapacity,
           type = "opened" => feed[c] = <<>>,
           type # "opened" => Live(c)
    PROVE  EventsInOrder'
<1>1. /\ \A d \in 1..Len(keyOf) : d # c => feed'[d] = feed[d]
      /\ Len(feed'[c]) = Len(feed[c]) + 1 /\ Len(feed[c]) \in Nat
      /\ \A i \in 1..Len(feed[c]) : feed'[c][i] = feed[c][i]
      /\ feed'[c][Len(feed[c]) + 1].type = type
      /\ DOMAIN feed[c] = 1..Len(feed[c]) /\ DOMAIN feed'[c] = 1..(Len(feed[c]) + 1)
  BY PutProps
<1>2. Conns = 1..Len(keyOf) /\ Conns' = Conns /\ feed[c] \in Seq(Event)
  BY DEF Conns, FeedOK
<1>3. type = "opened" <=> Len(feed[c]) = 0
  BY <1>2 DEF Live, Opened
<1>4. ASSUME NEW i \in 1..Len(feed[c]), feed[c][i].type = "closed" PROVE FALSE
  <2>1. i = Len(feed[c])
    BY <1>1, <1>2, <1>4 DEF EventsInOrder
  <2>2. feed[c] # <<>> /\ Last(feed[c]).type = "closed"
    BY <1>2, <1>4, <2>1 DEF Last
  <2> QED BY <2>2, <1>3, <2>1 DEF Live, Opened, Closed
<1>5. ASSUME NEW i \in 1..(Len(feed[c]) + 1)
      PROVE  /\ feed'[c][i].type = "opened" <=> i = 1
             /\ feed'[c][i].type = "closed" => i = Len(feed'[c])
  <2>1. CASE i \in 1..Len(feed[c])
    <3>1. feed'[c][i] = feed[c][i] /\ (feed[c][i].type = "opened" <=> i = 1)
      BY <1>1, <1>2, <2>1 DEF EventsInOrder
    <3> QED BY <1>4, <2>1, <3>1
  <2>2. CASE i = Len(feed[c]) + 1
    BY <1>1, <1>3, <2>2
  <2> QED BY <1>1, <2>1, <2>2
<1>6. ASSUME NEW d \in Conns, d # c, NEW i \in DOMAIN feed[d]
      PROVE  /\ feed[d][i].type = "opened" <=> i = 1
             /\ feed[d][i].type = "closed" => i = Len(feed[d])
  BY DEF EventsInOrder
<1>7. ASSUME NEW d \in Conns', NEW i \in DOMAIN feed'[d]
      PROVE  /\ feed'[d][i].type = "opened" <=> i = 1
             /\ feed'[d][i].type = "closed" => i = Len(feed'[d])
  <2>1. CASE d = c
    BY <1>1, <1>5, <2>1
  <2>2. CASE d # c
    <3>1. feed'[d] = feed[d] /\ d \in Conns
      BY <1>1, <1>2, <2>2
    <3> QED BY <1>6, <2>2, <3>1
  <2> QED BY <2>1, <2>2
<1> QED BY <1>7 DEF EventsInOrder
-----------------------------------------------------------------------------
(* What a step does to clients and connections *)

\* No client comes or goes and no event is sent.
LEMMA SameClients ==
    ASSUME IInv, UNCHANGED <<clients, keyOf, feed, closers>>,
           tasks' \subseteq tasks, cancelled \subseteq cancelled'
    PROVE  TrackerOK'
<1>1. FeedOK /\ ClientsOK /\ ClosersOK /\ EventsInOrder /\ NoOrphan
  BY Disassemble
<1>2. FeedOK' /\ ClientsOK' /\ ClosersOK' /\ EventsInOrder'
  BY <1>1 DEF FeedOK, ClientsOK, ClosersOK, EventsInOrder, Live, Opened, Closed, Conns
<1>3. NoOrphan'
  BY <1>1 DEF NoOrphan, Opened, Closed, Conns
<1> QED BY <1>2, <1>3 DEF TrackerOK

\* remove_client, with the end of its connection left to a detached task.
LEMMA DropClient ==
    ASSUME IInv, NEW k \in Keys, clients[k] # 0, RemoveClient(k),
           closers' = closers \union {clients[k]}, UNCHANGED <<keyOf, feed, tasks>>
    PROVE  /\ TrackerOK' /\ clients'[k] = 0
           /\ \A j \in Keys : j # k => clients'[j] = clients[j]
           /\ clients' \in [Keys -> 0..Len(keyOf)] /\ lastSeq' \in [Keys -> Nat]
           /\ cancelled' \subseteq 1..Len(keyOf) /\ closers' \subseteq 1..Len(keyOf)
           /\ clients[k] \in 1..Len(keyOf)
<1>i. /\ TrackerTypes /\ FeedOK /\ ClientsOK /\ ClosersOK /\ EventsInOrder /\ NoOrphan
      /\ Conns = 1..Len(keyOf) /\ Len(keyOf) \in Nat
  BY Disassemble
<1>1. clients[k] \in 1..Len(keyOf)
  BY <1>i DEF TrackerTypes
<1>2. /\ clients'[k] = 0 /\ \A j \in Keys : j # k => clients'[j] = clients[j]
      /\ clients' \in [Keys -> 0..Len(keyOf)] /\ lastSeq' \in [Keys -> Nat]
      /\ cancelled' = cancelled \union {clients[k]}
  BY <1>i DEF RemoveClient, TrackerTypes
<1>3. \A c : Live(c)' <=> Live(c)
  BY DEF Live, Opened, Closed
<1>4. FeedOK' /\ EventsInOrder'
  BY <1>i DEF FeedOK, EventsInOrder, Conns
<1>5. ClientsOK'
  <2> SUFFICES ASSUME NEW j \in Keys, clients'[j] # 0
               PROVE  keyOf'[clients'[j]] = j /\ Live(clients[j])' /\ clients'[j] \notin closers'
    BY DEF ClientsOK
  <2>1. j # k /\ clients'[j] = clients[j]
    BY <1>2
  <2>2. keyOf[clients[j]] = j /\ Live(clients[j]) /\ clients[j] \notin closers /\ keyOf[clients[k]] = k
    BY <1>i, <2>1 DEF ClientsOK
  <2>3. clients[j] # clients[k]
    BY <2>1, <2>2
  <2>4. Live(clients[j])'
    BY <2>1, <2>2 DEF Live, Opened, Closed
  <2> QED BY <2>1, <2>2, <2>3, <2>4
<1>6. ClosersOK'
  <2> SUFFICES ASSUME NEW c \in closers' PROVE Live(c)'
    BY DEF ClosersOK
  <2>1. Live(c)
    BY <1>i DEF ClosersOK, ClientsOK
  <2> QED BY <1>3, <2>1
<1>7. NoOrphan'
  <2> SUFFICES ASSUME NEW c \in Conns
               PROVE  /\ Live(c) => c \in Range(clients') \union closers'
                      /\ c \in tasks => c \in Range(clients') \union cancelled'
    BY <1>3 DEF NoOrphan, Conns, Live, Opened, Closed
  <2>1. CASE c = clients[k]
    BY <1>2, <2>1
  <2>2. CASE c # clients[k]
    <3>1. ASSUME c \in Range(clients) PROVE c \in Range(clients')
      <4>1. PICK j \in Keys : clients[j] = c
        BY <1>i, <3>1 DEF Range, TrackerTypes
      <4>2. clients'[j] = c /\ DOMAIN clients' = Keys
        BY <1>2, <2>2, <4>1
      <4> QED BY <4>2 DEF Range
    <3>2. /\ Live(c) => c \in Range(clients) \union closers
          /\ c \in tasks => c \in Range(clients) \union cancelled
      BY <1>i DEF NoOrphan, Live
    <3> QED BY <1>2, <3>1, <3>2
  <2> QED BY <2>1, <2>2
<1> QED BY <1>i, <1>1, <1>2, <1>4, <1>5, <1>6, <1>7 DEF TrackerOK, TrackerTypes

\* A connection id is drawn; the app-server has seen nothing of it.
LEMMA NewConnection ==
    ASSUME IInv, NEW k \in Keys, StartOpen(k), feed' = Append(feed, <<>>),
           UNCHANGED <<clients, lastSeq, cancelled, closers, tasks, finished>>
    PROVE  /\ TrackerOK' /\ TrackerTypes' /\ conn' \in 1..Len(keyOf') /\ keyOf'[conn'] = k
           /\ feed'[conn'] = <<>> /\ Len(keyOf') = Len(keyOf) + 1
<1>i. /\ TrackerTypes /\ FeedOK /\ ClientsOK /\ ClosersOK /\ EventsInOrder /\ NoOrphan
      /\ Conns = 1..Len(keyOf) /\ Len(keyOf) \in Nat
  BY Disassemble
<1> DEFINE n == Len(keyOf)
<1>1. /\ keyOf' \in Seq(Keys) /\ Len(keyOf') = n + 1 /\ keyOf'[n + 1] = k /\ conn' = n + 1
      /\ \A c \in 1..n : keyOf'[c] = keyOf[c]
      /\ Conns' = 1..(n + 1) /\ n \in Nat
  BY <1>i DEF StartOpen, TrackerTypes, Conns
<1>2. /\ feed' \in Seq(Seq(Event)) /\ Len(feed') = n + 1 /\ feed'[n + 1] = <<>>
      /\ \A c \in 1..n : feed'[c] = feed[c]
  <2>1. <<>> \in Seq(Event)
    OBVIOUS
  <2> QED BY <1>i, <2>1 DEF FeedOK
<1> HIDE DEF n
<1>3. n = Len(keyOf) /\ 1..n = Conns
  BY <1>i DEF n
<1>4. TrackerTypes'
  <2>1. 0..n \subseteq 0..(n + 1) /\ 1..n \subseteq 1..(n + 1)
    BY <1>1
  <2>2. clients' \in [Keys -> 0..Len(keyOf')]
    BY <1>i, <1>1, <1>3, <2>1 DEF TrackerTypes
  <2> QED BY <1>i, <1>1, <1>3, <2>1, <2>2 DEF TrackerTypes
<1>5. \A c \in 1..n : Live(c)' <=> Live(c)
  BY <1>2 DEF Live, Opened, Closed
<1>6. FeedOK'
  BY <1>1, <1>2 DEF FeedOK
<1>7. ClientsOK'
  <2> SUFFICES ASSUME NEW j \in Keys, clients[j] # 0
               PROVE  keyOf'[clients[j]] = j /\ Live(clients[j])' /\ clients[j] \notin closers
    BY DEF ClientsOK, Live, Opened, Closed
  <2>1. clients[j] \in 1..n
    BY <1>i, <1>1, <1>3 DEF TrackerTypes
  <2> QED BY <1>i, <1>1, <1>5, <2>1 DEF ClientsOK
<1>8. ClosersOK'
  <2>1. closers \subseteq 1..n
    BY <1>i, <1>3 DEF TrackerTypes
  <2> QED BY <1>i, <1>5, <2>1 DEF ClosersOK
<1>9. EventsInOrder'
  <2> SUFFICES ASSUME NEW c \in 1..(n + 1), NEW i \in DOMAIN feed'[c]
               PROVE  /\ feed'[c][i].type = "opened" <=> i = 1
                      /\ feed'[c][i].type = "closed" => i = Len(feed'[c])
    BY <1>1 DEF EventsInOrder
  <2>1. c \in 1..n
    BY <1>1, <1>2
  <2>2. feed'[c] = feed[c] /\ c \in Conns
    BY <1>2, <1>3, <2>1
  <2> QED BY <1>i, <2>2 DEF EventsInOrder
<1>10. NoOrphan'
  <2> SUFFICES ASSUME NEW c \in 1..(n + 1)
               PROVE  /\ Live(c)' => c \in Range(clients) \union closers
                      /\ c \in tasks => c \in Range(clients) \union cancelled
    BY <1>1 DEF NoOrphan, Live, Opened, Closed
  <2>1. CASE c \in 1..n
    <3>1. /\ Live(c) => c \in Range(clients) \union closers
          /\ c \in tasks => c \in Range(clients) \union cancelled
      BY <1>i, <1>3, <2>1 DEF NoOrphan, Live
    <3> QED BY <1>5, <2>1, <3>1
  <2>2. CASE c = n + 1
    <3>1. ~Live(c)'
      BY <1>2, <2>2 DEF Live, Opened
    <3>2. c \notin tasks
      BY <1>i, <1>1, <1>3, <2>2 DEF TrackerTypes
    <3> QED BY <3>1, <3>2
  <2> QED BY <1>1, <2>1, <2>2
<1> QED BY <1>1, <1>2, <1>3, <1>4, <1>6, <1>7, <1>8, <1>9, <1>10 DEF TrackerOK

LEMMA SameTracker ==
    ASSUME IInv, UNCHANGED <<clients, lastSeq, keyOf, cancelled, tasks, finished, feed, closers>>
    PROVE  TrackerOK' /\ TrackerTypes'
<1>1. TrackerTypes
  BY Disassemble
<1> QED BY <1>1, SameClients DEF TrackerTypes

LEMMA LogProps ==
    ASSUME IInv
    PROVE  log \in Seq(Envelope) /\ Len(log) \in Nat
BY Disassemble, RemoteInboundAssumption DEF OtherTypes

\* Chunk state keeps its type when it is forgotten.
LEMMA ForgetTypes ==
    ASSUME OtherTypes, NEW K, Forget(K)
    PROVE  /\ assembly' \in [key : Keys \union {None}, seq : Nat, count : Nat, next : Nat]
           /\ chunkDone' \in [Keys -> Nat]
<1>1. NoAssembly \in [key : Keys \union {None}, seq : Nat, count : Nat, next : Nat]
  BY DEF NoAssembly
<1> QED BY <1>1 DEF OtherTypes, Forget
-----------------------------------------------------------------------------
(* The actions *)

LEMMA QuietStep ==
    ASSUME IInv, Connect \/ Break \/ Stop \/ AppTakes \/ UNCHANGED vars
    PROVE  IInv'
<1>i. OtherTypes /\ ReaderOK
  BY Disassemble
<1>a. EventCapacity \in Nat \ {0} /\ MaxFaults \in Nat
  BY RemoteInboundAssumption
<1>t. /\ UNCHANGED <<clients, lastSeq, keyOf, cancelled, tasks, finished, feed, closers>>
      /\ UNCHANGED <<log, cursor, assembly, chunkDone, halted>>
  BY DEF Connect, Break, Stop, AppTakes, vars, tracker, channel, chunks
<1>1. TrackerOK' /\ TrackerTypes'
  BY <1>t, SameTracker
<1>2. ReaderOK'
  BY <1>i, <1>t DEF ReaderOK, Connect, Break, Stop, Leave, AppTakes, vars, reader
<1>3. /\ pos' \in 0..Len(log)
      /\ at' \in {"down", "select", "close", "open", "send", "record"}
      /\ env' \in Envelope \union {None} /\ conn' \in 0..Len(keyOf)
      /\ todo' \subseteq Keys /\ gone' \subseteq Keys /\ stopping' \in BOOLEAN
  <2>1. CASE Connect
    BY <1>i, <2>1 DEF OtherTypes, Connect
  <2>2. CASE Break
    BY <1>i, <2>2 DEF OtherTypes, Break
  <2>3. CASE Stop
    <3>1. Len(keyOf) \in Nat
      BY Disassemble
    <3> QED BY <1>i, <2>3, <3>1 DEF OtherTypes, Stop, Leave
  <2>4. CASE AppTakes \/ UNCHANGED vars
    BY <1>i, <2>4 DEF OtherTypes, AppTakes, vars, reader
  <2> QED BY <2>1, <2>2, <2>3, <2>4
<1>4. backlog' \in 0..EventCapacity /\ faults' \in 0..MaxFaults
  BY <1>i, <1>a DEF OtherTypes, Connect, Break, Stop, AppTakes, Fault, vars, channel
<1>5. OtherTypes'
  BY <1>i, <1>t, <1>3, <1>4 DEF OtherTypes
<1> QED BY <1>1, <1>2, <1>5, Assemble

LEMMA TaskStep ==
    ASSUME IInv, NEW c \in tasks, TaskEnds(c) \/ WriterGone(c) \/ AppDisconnects(c)
    PROVE  IInv'
<1>i. OtherTypes /\ ReaderOK /\ TrackerTypes
  BY Disassemble
<1>t. /\ UNCHANGED <<clients, lastSeq, keyOf, feed, closers, log, cursor, reader, backlog>>
      /\ UNCHANGED <<assembly, chunkDone, halted>>
      /\ tasks' \subseteq tasks /\ cancelled \subseteq cancelled' /\ cancelled' \subseteq cancelled \union tasks
      /\ finished' \subseteq finished \union tasks
  BY DEF TaskEnds, WriterGone, ReturnFromTask, AppDisconnects, channel, chunks
<1>1. TrackerOK'
  BY <1>t, SameClients
<1>2. TrackerTypes'
  BY <1>i, <1>t DEF TrackerTypes
<1>3. ReaderOK'
  BY <1>i, <1>t DEF ReaderOK, reader
<1>4. faults' \in 0..MaxFaults
  BY <1>i, RemoteInboundAssumption DEF OtherTypes, TaskEnds, WriterGone, ReturnFromTask, AppDisconnects, Fault
<1>5. OtherTypes'
  BY <1>i, <1>t, <1>4 DEF OtherTypes, reader
<1> QED BY <1>1, <1>2, <1>3, <1>5, Assemble

LEMMA RecordStep ==
    ASSUME IInv, Record
    PROVE  IInv'
<1>i. OtherTypes /\ ReaderOK /\ Len(keyOf) \in Nat
  BY Disassemble
<1>t. /\ UNCHANGED <<clients, lastSeq, keyOf, cancelled, tasks, finished, feed, closers>>
      /\ UNCHANGED <<log, pos, backlog, halted, todo, gone, stopping, faults>>
      /\ cursor' = pos /\ at' = "select" /\ env' = None /\ conn' = 0 /\ at = "record"
  BY DEF Record, tracker, channel
<1>1. TrackerOK' /\ TrackerTypes'
  BY <1>t, SameTracker
<1>2. ReaderOK'
  BY <1>i, <1>t DEF ReaderOK
<1>3. /\ assembly' \in [key : Keys \union {None}, seq : Nat, count : Nat, next : Nat]
      /\ chunkDone' \in [Keys -> Nat]
  <2>1. env \in Envelope
    BY <1>i, <1>t DEF ReaderOK
  <2>2. env.key \in Keys /\ env.seq \in Nat
    BY <2>1 DEF Envelope
  <2>3. CASE env.kind = "closed"
    BY <1>i, <2>3, ForgetTypes DEF Record
  <2>4. CASE env.kind # "closed"
    BY <1>i, <2>2, <2>4 DEF Record, OtherTypes
  <2> QED BY <2>3, <2>4
<1>4. OtherTypes'
  BY <1>i, <1>t, <1>3 DEF OtherTypes
<1> QED BY <1>1, <1>2, <1>4, Assemble

\* ConnectionOpened: the client is inserted once the app-server has been told.
LEMMA OpenSentStep ==
    ASSUME IInv, OpenSent
    PROVE  IInv'
<1>i. /\ OtherTypes /\ ReaderOK /\ TrackerTypes /\ FeedOK /\ ClientsOK /\ ClosersOK
      /\ EventsInOrder /\ NoOrphan /\ Conns = 1..Len(keyOf) /\ Len(keyOf) \in Nat
  BY Disassemble
<1>r. /\ conn \in 1..Len(keyOf) /\ env \in Envelope /\ keyOf[conn] = env.key
      /\ clients[env.key] = 0 /\ feed[conn] = <<>> /\ todo = {} /\ gone = {}
      /\ env.key \in Keys
  BY <1>i DEF OpenSent, ReaderOK, Envelope
<1>t. /\ UNCHANGED <<log, cursor, lastSeq, keyOf, cancelled, finished, closers, assembly, chunkDone>>
      /\ UNCHANGED <<halted, faults, pos, env, conn, todo, gone, stopping>>
      /\ at' = "send" /\ tasks' = tasks \union {conn}
      /\ clients' = [clients EXCEPT ![env.key] = conn] /\ Put(conn, "opened", 0)
  BY DEF OpenSent, GoTo, chunks
<1>c. PICK c \in 1..Len(keyOf) : c = conn
  BY <1>r
<1>p. /\ Put(c, "opened", 0) /\ keyOf \in Seq(Keys) /\ backlog \in 0..EventCapacity
      /\ "opened" \in {"opened", "message", "closed"} /\ 0 \in Nat
      /\ feed[c] = <<>>
  BY <1>i, <1>r, <1>t, <1>c DEF TrackerTypes, OtherTypes
<1>1. FeedOK' /\ backlog' \in 0..EventCapacity
  BY <1>i, <1>t, <1>p, PutProps
<1>2. /\ \A d \in 1..Len(keyOf) : d # conn => (Live(d)' <=> Live(d))
      /\ Live(conn)'
  <2>1. (\A d \in 1..Len(keyOf) : d # c => (Live(d)' <=> Live(d))) /\ Live(c)'
    BY <1>i, <1>t, <1>p, PutLive
  <2> QED BY <1>c, <1>t, <2>1 DEF Live, Opened, Closed
<1>3. EventsInOrder'
  BY <1>i, <1>t, <1>p, PutOrdered
<1>4. ~Live(conn)
  BY <1>r DEF Live, Opened
<1>5. /\ clients' \in [Keys -> 0..Len(keyOf)] /\ clients'[env.key] = conn
      /\ \A k \in Keys : k # env.key => clients'[k] = clients[k]
  BY <1>i, <1>r, <1>t DEF TrackerTypes
<1>6. ClientsOK'
  <2> SUFFICES ASSUME NEW k \in Keys, clients'[k] # 0
               PROVE  keyOf'[clients'[k]] = k /\ Live(clients[k])' /\ clients'[k] \notin closers'
    BY DEF ClientsOK
  <2>1. CASE k = env.key
    <3>1. conn \notin closers
      BY <1>i, <1>4 DEF ClosersOK
    <3> QED BY <1>r, <1>t, <1>2, <1>5, <2>1, <3>1 DEF Live, Opened, Closed
  <2>2. CASE k # env.key
    <3>1. /\ clients'[k] = clients[k] /\ keyOf[clients[k]] = k /\ Live(clients[k])
          /\ clients[k] \notin closers /\ clients[k] \in 1..Len(keyOf)
      BY <1>i, <1>5, <2>2 DEF ClientsOK, TrackerTypes
    <3>2. PICK d \in 1..Len(keyOf) : d = clients[k] /\ d = clients'[k]
      BY <3>1
    <3>3. Live(d)'
      BY <1>2, <1>4, <3>1, <3>2
    <3>4. Live(clients[k])'
      BY <3>2, <3>3 DEF Live, Opened, Closed
    <3> QED BY <1>t, <3>1, <3>4
  <2> QED BY <2>1, <2>2
<1>7. ClosersOK'
  <2> SUFFICES ASSUME NEW d \in closers PROVE Live(d)'
    BY <1>t DEF ClosersOK
  <2>1. Live(d) /\ d \in 1..Len(keyOf) /\ d # conn
    BY <1>i, <1>4 DEF ClosersOK, TrackerTypes
  <2> QED BY <1>2, <2>1
<1>8. NoOrphan'
  <2> SUFFICES ASSUME NEW d \in 1..Len(keyOf)
               PROVE  /\ Live(d)' => d \in Range(clients') \union closers
                      /\ d \in tasks' => d \in Range(clients') \union cancelled
    BY <1>i, <1>t DEF NoOrphan, Conns, Live, Opened, Closed
  <2>1. CASE d = conn
    <3>1. DOMAIN clients' = Keys /\ clients'[env.key] = d
      BY <1>5, <2>1
    <3>2. d \in Range(clients')
      BY <1>r, <3>1 DEF Range
    <3> QED BY <3>2
  <2>2. CASE d # conn
    <3>1. ASSUME d \in Range(clients) PROVE d \in Range(clients')
      <4>1. PICK j \in Keys : clients[j] = d
        BY <1>i, <3>1 DEF Range, TrackerTypes
      <4>2. clients'[j] = d /\ DOMAIN clients' = Keys
        BY <1>r, <1>5, <4>1
      <4> QED BY <4>2 DEF Range
    <3>2. /\ Live(d) => d \in Range(clients) \union closers
          /\ d \in tasks => d \in Range(clients) \union cancelled
      BY <1>i DEF NoOrphan, Live
    <3> QED BY <1>t, <1>2, <2>2, <3>1, <3>2
  <2> QED BY <2>1, <2>2
<1>9. TrackerOK'
  BY <1>1, <1>3, <1>6, <1>7, <1>8 DEF TrackerOK
<1>10. TrackerTypes'
  BY <1>i, <1>r, <1>t, <1>5 DEF TrackerTypes
<1>11. ReaderOK'
  BY <1>r, <1>t, <1>5 DEF ReaderOK
<1>12. OtherTypes'
  BY <1>i, <1>t, <1>1 DEF OtherTypes
<1> QED BY <1>9, <1>10, <1>11, <1>12, Assemble

\* IncomingMessage goes to a connection that is open and that nobody is closing.
LEMMA MessageSentStep ==
    ASSUME IInv, MessageSent
    PROVE  IInv'
<1>i. /\ OtherTypes /\ ReaderOK /\ TrackerTypes /\ FeedOK /\ ClientsOK /\ ClosersOK
      /\ EventsInOrder /\ NoOrphan /\ Conns = 1..Len(keyOf) /\ Len(keyOf) \in Nat
  BY Disassemble
<1>r. /\ env \in Envelope /\ env.key \in Keys /\ env.seq \in Nat /\ conn # 0
      /\ clients[env.key] = conn /\ todo = {} /\ gone = {}
  BY <1>i DEF MessageSent, ReaderOK, Envelope
<1>t. /\ UNCHANGED <<log, cursor, clients, keyOf, cancelled, tasks, finished, closers>>
      /\ UNCHANGED <<assembly, chunkDone, halted, faults, pos, env, conn, todo, gone, stopping>>
      /\ at' = "record" /\ lastSeq' = [lastSeq EXCEPT ![env.key] = env.seq]
      /\ Put(conn, "message", env.seq)
  BY DEF MessageSent, GoTo, chunks
<1>c. PICK c \in 1..Len(keyOf), q \in Nat : c = conn /\ q = env.seq
  BY <1>i, <1>r DEF TrackerTypes
<1>p. /\ Put(c, "message", q) /\ keyOf \in Seq(Keys) /\ backlog \in 0..EventCapacity
      /\ "message" \in {"opened", "message", "closed"} /\ Live(c)
  BY <1>i, <1>r, <1>t, <1>c DEF TrackerTypes, OtherTypes, ClientsOK
<1>1. FeedOK' /\ backlog' \in 0..EventCapacity
  BY <1>i, <1>t, <1>p, PutProps
<1>2. \A d \in 1..Len(keyOf) : Live(d)' <=> Live(d)
  BY <1>i, <1>t, <1>p, PutLive
<1>3. EventsInOrder'
  BY <1>i, <1>t, <1>p, PutOrdered
<1>4. ClientsOK'
  <2> SUFFICES ASSUME NEW k \in Keys, clients[k] # 0
               PROVE  keyOf[clients[k]] = k /\ Live(clients[k])' /\ clients[k] \notin closers
    BY <1>t DEF ClientsOK, Live, Opened, Closed
  <2>1. PICK d \in 1..Len(keyOf) : d = clients[k] /\ d = clients'[k]
    BY <1>i, <1>t DEF TrackerTypes
  <2>2. Live(d)'
    BY <1>i, <1>2, <2>1 DEF ClientsOK
  <2> QED BY <1>i, <2>1, <2>2 DEF ClientsOK, Live, Opened, Closed
<1>5. ClosersOK'
  <2>1. closers \subseteq 1..Len(keyOf)
    BY <1>i DEF TrackerTypes
  <2> QED BY <1>i, <1>t, <1>2, <2>1 DEF ClosersOK
<1>6. NoOrphan'
  <2> SUFFICES ASSUME NEW d \in 1..Len(keyOf)
               PROVE  /\ Live(d)' => d \in Range(clients) \union closers
                      /\ d \in tasks => d \in Range(clients) \union cancelled
    BY <1>i, <1>t DEF NoOrphan, Conns, Live, Opened, Closed
  <2> QED BY <1>i, <1>2 DEF NoOrphan, Live
<1>7. TrackerOK'
  BY <1>1, <1>3, <1>4, <1>5, <1>6 DEF TrackerOK
<1>8. TrackerTypes'
  BY <1>i, <1>r, <1>t DEF TrackerTypes
<1>9. ReaderOK'
  BY <1>r, <1>t DEF ReaderOK
<1>10. OtherTypes'
  BY <1>i, <1>t, <1>1 DEF OtherTypes
<1> QED BY <1>7, <1>8, <1>9, <1>10, Assemble

\* ConnectionClosed is the last event of a connection that no client has any more.
LEMMA CloserStep ==
    ASSUME IInv, NEW c \in closers, CloserSends(c)
    PROVE  IInv'
<1>i. /\ OtherTypes /\ ReaderOK /\ TrackerTypes /\ FeedOK /\ ClientsOK /\ ClosersOK
      /\ EventsInOrder /\ NoOrphan /\ Conns = 1..Len(keyOf) /\ Len(keyOf) \in Nat
  BY Disassemble
<1>t. /\ UNCHANGED <<log, cursor, clients, lastSeq, keyOf, cancelled, tasks, finished>>
      /\ UNCHANGED <<assembly, chunkDone, halted, faults, pos, at, env, conn, todo, gone, stopping>>
      /\ closers' = closers \ {c}
      /\ Put(c, "closed", 0)
  BY DEF CloserSends, reader, tracker, chunks
<1>p. /\ keyOf \in Seq(Keys) /\ backlog \in 0..EventCapacity /\ c \in 1..Len(keyOf)
      /\ "closed" \in {"opened", "message", "closed"} /\ Live(c) /\ 0 \in Nat
  BY <1>i DEF TrackerTypes, OtherTypes, ClosersOK
<1>1. /\ FeedOK' /\ backlog' \in 0..EventCapacity
      /\ \A d \in 1..Len(keyOf) : d # c => feed'[d] = feed[d]
  BY <1>i, <1>t, <1>p, PutProps
<1>2. (\A d \in 1..Len(keyOf) : d # c => (Live(d)' <=> Live(d))) /\ ~Live(c)'
  BY <1>i, <1>t, <1>p, PutLive
<1>3. EventsInOrder'
  BY <1>i, <1>t, <1>p, PutOrdered
<1>4. ClientsOK'
  <2> SUFFICES ASSUME NEW k \in Keys, clients[k] # 0
               PROVE  keyOf[clients[k]] = k /\ Live(clients[k])' /\ clients[k] \notin closers'
    BY <1>t DEF ClientsOK, Live, Opened, Closed
  <2>1. PICK d \in 1..Len(keyOf) : d = clients[k] /\ d = clients'[k]
    BY <1>i, <1>t DEF TrackerTypes
  <2>2. d # c /\ Live(d)'
    BY <1>i, <1>2, <2>1 DEF ClientsOK
  <2> QED BY <1>i, <1>t, <2>1, <2>2 DEF ClientsOK, Live, Opened, Closed
<1>5. ClosersOK'
  <2>1. closers \subseteq 1..Len(keyOf)
    BY <1>i DEF TrackerTypes
  <2> QED BY <1>i, <1>t, <1>2, <2>1 DEF ClosersOK
<1>6. NoOrphan'
  <2> SUFFICES ASSUME NEW d \in 1..Len(keyOf)
               PROVE  /\ Live(d)' => d \in Range(clients) \union closers'
                      /\ d \in tasks => d \in Range(clients) \union cancelled
    BY <1>i, <1>t DEF NoOrphan, Conns, Live, Opened, Closed
  <2> QED BY <1>i, <1>t, <1>2 DEF NoOrphan, Live
<1>7. TrackerOK'
  BY <1>1, <1>3, <1>4, <1>5, <1>6 DEF TrackerOK
<1>8. TrackerTypes'
  BY <1>i, <1>t DEF TrackerTypes
<1>9. ReaderOK'
  <2>1. at = "open" => conn \in 1..Len(keyOf) /\ feed'[conn] = <<>>
    <3> SUFFICES ASSUME at = "open" PROVE conn \in 1..Len(keyOf) /\ feed'[conn] = <<>>
      OBVIOUS
    <3>1. conn \in 1..Len(keyOf) /\ feed[conn] = <<>>
      BY <1>i DEF ReaderOK
    <3>2. conn # c
      BY <1>p, <3>1 DEF Live, Opened
    <3> QED BY <1>1, <3>1, <3>2
  <2> QED BY <1>i, <1>t, <2>1 DEF ReaderOK
<1>10. OtherTypes'
  BY <1>i, <1>t, <1>1 DEF OtherTypes
<1> QED BY <1>7, <1>8, <1>9, <1>10, Assemble

\* The reader closes the client of k, alone or as the first of several.
LEMMA CloseStep ==
    ASSUME IInv, NEW k \in Keys, clients[k] # 0, CloseClient(k),
           UNCHANGED <<keyOf, feed, tasks, log, cursor, stopping, backlog, halted>>,
           finished' \subseteq finished, pos' \in 0..Len(log), env' \in Envelope \union {None},
           todo' \subseteq Keys \ {k}, gone' \subseteq Keys, \A j \in todo' : clients[j] # 0,
           gone' = {} => todo' = {} /\ env' \in Envelope /\ env'.key = k,
           faults' \in 0..MaxFaults, chunkDone' \in [Keys -> Nat],
           assembly' \in [key : Keys \union {None}, seq : Nat, count : Nat, next : Nat]
    PROVE  IInv'
<1>i. /\ OtherTypes /\ TrackerTypes /\ Len(keyOf) \in Nat
  BY Disassemble
<1>c. /\ RemoveClient(k) /\ closers' = closers \union {clients[k]} /\ conn' = clients[k]
      /\ at' = "close"
  BY DEF CloseClient
<1>1. /\ TrackerOK' /\ clients'[k] = 0
      /\ \A j \in Keys : j # k => clients'[j] = clients[j]
      /\ clients' \in [Keys -> 0..Len(keyOf)] /\ lastSeq' \in [Keys -> Nat]
      /\ cancelled' \subseteq 1..Len(keyOf) /\ closers' \subseteq 1..Len(keyOf)
      /\ clients[k] \in 1..Len(keyOf)
  BY <1>c, DropClient
<1>2. TrackerTypes'
  BY <1>i, <1>1 DEF TrackerTypes
<1>3. ReaderOK'
  BY <1>c, <1>1 DEF ReaderOK
<1>4. OtherTypes'
  <2>0. keyOf' = keyOf /\ log' = log /\ cursor' = cursor
    OBVIOUS
  <2>a. conn' \in 0..Len(keyOf')
    BY <1>i, <1>c, <1>1, <2>0
  <2>b. pos' \in 0..Len(log') /\ cursor' \in 0..Len(log')
    BY <1>i, <2>0 DEF OtherTypes
  <2>1. todo' \subseteq Keys
    OBVIOUS
  <2>2. log' \in Logs /\ stopping' \in BOOLEAN /\ halted' \in BOOLEAN /\ backlog' \in 0..EventCapacity
    BY <1>i DEF OtherTypes
  <2> QED BY <1>c, <2>a, <2>b, <2>1, <2>2 DEF OtherTypes
<1> QED BY <1>1, <1>2, <1>3, <1>4, Assemble

LEMMA SendTimesOutStep ==
    ASSUME IInv, SendTimesOut
    PROVE  IInv'
<1>i. OtherTypes /\ ReaderOK /\ TrackerTypes /\ Len(keyOf) \in Nat
  BY Disassemble
<1>t. /\ UNCHANGED <<log, cursor, keyOf, tasks, finished, backlog, feed, assembly, chunkDone>>
      /\ UNCHANGED <<halted, pos, stopping>>
      /\ at' = "down" /\ env' = None /\ conn' = 0 /\ todo' = {} /\ gone' = {}
  BY DEF SendTimesOut, Leave, chunks
<1>1. TrackerOK' /\ TrackerTypes'
  <2>1. CASE at = "send" /\ IsInitialize(env)
    <3>1. PICK k \in Keys : k = env.key
      BY <1>i, <2>1 DEF ReaderOK, Envelope
    <3>2. clients[k] # 0 /\ clients[k] = conn
      BY <1>i, <2>1, <3>1 DEF ReaderOK
    <3>3. RemoveClient(k) /\ closers' = closers \union {clients[k]}
      BY <2>1, <3>1, <3>2 DEF SendTimesOut
    <3>4. /\ TrackerOK'
          /\ clients' \in [Keys -> 0..Len(keyOf)] /\ lastSeq' \in [Keys -> Nat]
          /\ cancelled' \subseteq 1..Len(keyOf) /\ closers' \subseteq 1..Len(keyOf)
      BY <1>t, <3>2, <3>3, DropClient
    <3> QED BY <1>i, <1>t, <3>4 DEF TrackerTypes
  <2>2. CASE ~(at = "send" /\ IsInitialize(env))
    <3>1. UNCHANGED <<clients, lastSeq, cancelled, closers>>
      BY <2>2 DEF SendTimesOut
    <3> QED BY <1>t, <3>1, SameTracker
  <2> QED BY <2>1, <2>2
<1>2. ReaderOK'
  BY <1>t DEF ReaderOK
<1>3. faults' \in 0..MaxFaults
  BY <1>i, RemoteInboundAssumption DEF OtherTypes, SendTimesOut, Fault
<1>4. OtherTypes'
  BY <1>i, <1>t, <1>3 DEF OtherTypes
<1> QED BY <1>1, <1>2, <1>4, Assemble

\* bookkeep_join_set and close_expired_clients.
LEMMA BookkeepStep ==
    ASSUME IInv, NEW c \in finished, Bookkeep(c)
    PROVE  IInv'
<1>i. OtherTypes /\ ReaderOK /\ TrackerTypes
  BY Disassemble
<1>1. PICK k \in Keys : k = keyOf[c]
  BY <1>i DEF TrackerTypes
<1>t. /\ UNCHANGED <<log, cursor, pos, env, todo, stopping, keyOf, tasks, backlog, feed, halted, faults>>
      /\ at = "select" /\ finished' = finished \ {c} /\ todo = {} /\ gone = {}
  BY <1>i DEF Bookkeep, ReaderOK
<1>2. CASE clients[k] # 0 /\ CloseClient(k) /\ gone' = {k} /\ UNCHANGED chunks
  <2>1. /\ pos' \in 0..Len(log) /\ env' \in Envelope \union {None} /\ faults' \in 0..MaxFaults
        /\ chunkDone' \in [Keys -> Nat]
        /\ assembly' \in [key : Keys \union {None}, seq : Nat, count : Nat, next : Nat]
    BY <1>i, <1>t, <1>2 DEF OtherTypes, chunks
  <2> QED BY <1>t, <1>2, <2>1, CloseStep
<1>3. CASE Forget({k}) /\ UNCHANGED <<clients, lastSeq, cancelled, closers, conn, at, gone>>
  <2>1. TrackerOK'
    BY <1>t, <1>3, SameClients
  <2>2. TrackerTypes'
    BY <1>i, <1>t, <1>3 DEF TrackerTypes
  <2>3. ReaderOK'
    BY <1>t, <1>3 DEF ReaderOK
  <2>4. OtherTypes'
    BY <1>i, <1>t, <1>3, ForgetTypes DEF OtherTypes
  <2> QED BY <2>1, <2>2, <2>3, <2>4, Assemble
<1> QED BY <1>1, <1>2, <1>3 DEF Bookkeep

LEMMA SweepStep ==
    ASSUME IInv, NEW keys \in SUBSET Keys, Sweep(keys)
    PROVE  IInv'
<1>i. OtherTypes /\ ReaderOK /\ TrackerTypes
  BY Disassemble
<1>t. /\ UNCHANGED <<log, cursor, pos, env, stopping, keyOf, tasks, finished, backlog, feed, halted>>
      /\ UNCHANGED chunks /\ gone' = keys /\ keys # {} /\ \A j \in keys : clients[j] # 0
  BY DEF Sweep
<1>1. PICK k \in keys : CloseClient(k) /\ todo' = keys \ {k}
  BY DEF Sweep
<1>2. /\ pos' \in 0..Len(log) /\ env' \in Envelope \union {None} /\ faults' \in 0..MaxFaults
      /\ chunkDone' \in [Keys -> Nat]
      /\ assembly' \in [key : Keys \union {None}, seq : Nat, count : Nat, next : Nat]
  BY <1>i, <1>t, RemoteInboundAssumption DEF OtherTypes, chunks, Sweep, Fault
<1>3. k \in Keys /\ clients[k] # 0 /\ todo' \subseteq Keys \ {k} /\ \A j \in todo' : clients[j] # 0
  BY <1>t, <1>1
<1> QED BY <1>t, <1>1, <1>2, <1>3, CloseStep

LEMMA CloseSentStep ==
    ASSUME IInv, CloseSent
    PROVE  IInv'
<1>i. OtherTypes /\ ReaderOK /\ TrackerTypes /\ Len(keyOf) \in Nat
  BY Disassemble
<1>t. /\ UNCHANGED <<log, cursor, pos, stopping, tasks, finished, backlog, halted, faults>>
      /\ at = "close"
  BY DEF CloseSent
<1>r. /\ \A k \in todo : clients[k] # 0
      /\ gone = {} => todo = {} /\ env \in Envelope /\ clients[env.key] = 0 /\ env.key \in Keys
  BY <1>i, <1>t DEF ReaderOK, Envelope
<1>1. CASE \E k \in todo : /\ CloseClient(k) /\ todo' = todo \ {k}
                           /\ UNCHANGED <<keyOf, feed, chunks, env, gone>>
  <2>1. PICK k \in todo : /\ CloseClient(k) /\ todo' = todo \ {k}
                          /\ UNCHANGED <<keyOf, feed, chunks, env, gone>>
    BY <1>1
  <2>2. /\ pos' \in 0..Len(log) /\ env' \in Envelope \union {None} /\ faults' \in 0..MaxFaults
        /\ chunkDone' \in [Keys -> Nat] /\ gone' \subseteq Keys /\ gone' # {}
        /\ assembly' \in [key : Keys \union {None}, seq : Nat, count : Nat, next : Nat]
    BY <1>i, <1>t, <1>r, <2>1 DEF OtherTypes, chunks
  <2>3. k \in Keys /\ clients[k] # 0 /\ todo' \subseteq Keys \ {k} /\ \A j \in todo' : clients[j] # 0
    BY <1>i, <1>r, <2>1 DEF OtherTypes
  <2> QED BY <1>t, <2>1, <2>2, <2>3, CloseStep
<1>2. CASE /\ todo = {} /\ Forget(gone) /\ gone' = {} /\ at' = "select" /\ conn' = 0
           /\ UNCHANGED <<todo, env, clients, lastSeq, cancelled, closers, keyOf, feed>>
  <2>1. TrackerOK' /\ TrackerTypes'
    BY <1>t, <1>2, SameTracker
  <2>2. ReaderOK'
    BY <1>2 DEF ReaderOK
  <2>3. OtherTypes'
    BY <1>i, <1>t, <1>2, ForgetTypes DEF OtherTypes
  <2> QED BY <2>1, <2>2, <2>3, Assemble
<1>3. CASE /\ todo = {} /\ gone = {} /\ StartOpen(env.key) /\ feed' = Append(feed, <<>>)
           /\ UNCHANGED <<todo, gone, env, clients, lastSeq, cancelled, closers, chunks>>
  <2>1. PICK k \in Keys : k = env.key
    BY <1>r, <1>3
  <2>2. /\ TrackerOK' /\ TrackerTypes' /\ conn' \in 1..Len(keyOf') /\ keyOf'[conn'] = k
        /\ feed'[conn'] = <<>> /\ Len(keyOf') = Len(keyOf) + 1
    BY <1>t, <1>3, <2>1, NewConnection
  <2>3. at' = "open"
    BY <1>3 DEF StartOpen
  <2>4. ReaderOK'
    BY <1>r, <1>3, <2>1, <2>2, <2>3 DEF ReaderOK
  <2>5. OtherTypes'
    BY <1>i, <1>t, <1>3, <2>2, <2>3 DEF OtherTypes, chunks
  <2> QED BY <2>2, <2>4, <2>5, Assemble
<1>4. CASE /\ todo = {} /\ gone = {} /\ at' = "record" /\ conn' = 0
           /\ UNCHANGED <<todo, gone, env, clients, lastSeq, cancelled, closers, keyOf, feed, chunks>>
  <2>1. TrackerOK' /\ TrackerTypes'
    BY <1>t, <1>4, SameTracker
  <2>2. ReaderOK'
    BY <1>r, <1>4 DEF ReaderOK
  <2>3. OtherTypes'
    BY <1>i, <1>t, <1>4 DEF OtherTypes, chunks
  <2> QED BY <2>1, <2>2, <2>3, Assemble
<1> QED BY <1>1, <1>2, <1>3, <1>4 DEF CloseSent

\* ClientTracker::shutdown leaves every connection to a closer.
LEMMA ShutdownStep ==
    ASSUME IInv, Shutdown
    PROVE  IInv'
<1>i. /\ OtherTypes /\ ReaderOK /\ TrackerTypes /\ FeedOK /\ ClientsOK /\ ClosersOK
      /\ EventsInOrder /\ NoOrphan /\ Conns = 1..Len(keyOf) /\ Len(keyOf) \in Nat
  BY Disassemble
<1> DEFINE open == Range(clients) \ {0}
<1>t. /\ UNCHANGED <<log, cursor, reader, keyOf, tasks, backlog, feed, chunks, faults>>
      /\ halted' = TRUE /\ cancelled' = cancelled \union open /\ closers' = closers \union open
      /\ clients' = [k \in Keys |-> 0] /\ lastSeq' = [k \in Keys |-> 0]
      /\ finished' = {} /\ at = "down"
  BY DEF Shutdown
<1>1. \A c \in open : c \in 1..Len(keyOf) /\ Live(c)
  BY <1>i DEF Range, TrackerTypes, ClientsOK
<1> HIDE DEF open
<1>2. TrackerTypes'
  <2>1. clients' \in [Keys -> 0..Len(keyOf)] /\ lastSeq' \in [Keys -> Nat]
    BY <1>i, <1>t
  <2> QED BY <1>i, <1>t, <1>1, <2>1 DEF TrackerTypes
<1>3. \A c : Live(c)' <=> Live(c)
  BY <1>t DEF Live, Opened, Closed
<1>4. FeedOK' /\ EventsInOrder' /\ ClientsOK'
  BY <1>i, <1>t DEF FeedOK, EventsInOrder, Conns, ClientsOK
<1>5. ClosersOK'
  BY <1>i, <1>t, <1>1, <1>3 DEF ClosersOK
<1>6. NoOrphan'
  <2> SUFFICES ASSUME NEW c \in Conns
               PROVE  /\ Live(c) => c \in closers'
                      /\ c \in tasks => c \in cancelled'
    BY <1>t, <1>3 DEF NoOrphan, Conns, Live, Opened, Closed
  <2>1. c # 0
    BY <1>i
  <2> QED BY <1>i, <1>t, <2>1 DEF NoOrphan, Live, open
<1>7. ReaderOK'
  BY <1>i, <1>t DEF ReaderOK, reader
<1>8. OtherTypes'
  BY <1>i, <1>t DEF OtherTypes, reader, chunks
<1> QED BY <1>2, <1>4, <1>5, <1>6, <1>7, <1>8, Assemble DEF TrackerOK

\* The reassembler's state keeps its type.
LEMMA AssemblyTypes ==
    ASSUME OtherTypes, NEW e \in Envelope,
           assembly' \in {assembly, NoAssembly, [AssemblyFor(e) EXCEPT !.next = @ + 1]}
    PROVE  assembly' \in [key : Keys \union {None}, seq : Nat, count : Nat, next : Nat]
<1>1. NoAssembly \in [key : Keys \union {None}, seq : Nat, count : Nat, next : Nat]
  BY DEF NoAssembly
<1>2. e.key \in Keys /\ e.seq \in Nat /\ e.count \in Nat
  BY DEF Envelope
<1>3. AssemblyFor(e) \in [key : Keys \union {None}, seq : Nat, count : Nat, next : Nat]
  BY <1>2 DEF OtherTypes, AssemblyFor
<1>4. [AssemblyFor(e) EXCEPT !.next = @ + 1]
        \in [key : Keys \union {None}, seq : Nat, count : Nat, next : Nat]
  BY <1>3
<1> QED BY <1>1, <1>4 DEF OtherTypes

LEMMA ReadStep ==
    ASSUME IInv, Read
    PROVE  IInv'
<1>i. OtherTypes /\ ReaderOK /\ TrackerTypes /\ Len(keyOf) \in Nat
  BY Disassemble
<1>l. log \in Seq(Envelope) /\ Len(log) \in Nat
  BY LogProps
<1>1. PICK e \in Envelope : e = log[pos + 1]
  BY <1>i, <1>l DEF Read, OtherTypes
<1>e. e.key \in Keys /\ e.kind \in Kinds
  BY DEF Envelope
<1>t. /\ UNCHANGED <<log, cursor, todo, gone, stopping, tasks, finished, backlog, chunkDone>>
      /\ UNCHANGED <<halted, faults>>
      /\ at = "select" /\ todo = {} /\ gone = {} /\ pos' \in 0..Len(log)
  BY <1>i, <1>l DEF Read, ReaderOK, OtherTypes
<1>a. assembly' \in [key : Keys \union {None}, seq : Nat, count : Nat, next : Nat]
  <2>1. assembly' \in {assembly, NoAssembly, [AssemblyFor(e) EXCEPT !.next = @ + 1]}
    BY <1>1 DEF Read
  <2> QED BY <1>i, <2>1, AssemblyTypes
<1>2. CASE UNCHANGED <<at, env, conn, clients, lastSeq, cancelled, keyOf, closers, feed>>
  <2>1. TrackerOK' /\ TrackerTypes'
    BY <1>t, <1>2, SameTracker
  <2>2. ReaderOK'
    BY <1>t, <1>2 DEF ReaderOK
  <2>3. OtherTypes'
    BY <1>i, <1>t, <1>a, <1>2 DEF OtherTypes
  <2> QED BY <2>1, <2>2, <2>3, Assemble
<1>3. CASE HandleMessage(e) /\ env' = e
  <2>1. CASE /\ clients[e.key] = 0 /\ StartOpen(e.key) /\ feed' = Append(feed, <<>>)
             /\ UNCHANGED <<clients, lastSeq, cancelled, closers>>
    <3>1. /\ TrackerOK' /\ TrackerTypes' /\ conn' \in 1..Len(keyOf') /\ keyOf'[conn'] = e.key
          /\ feed'[conn'] = <<>> /\ Len(keyOf') = Len(keyOf) + 1
      BY <1>e, <1>t, <2>1, NewConnection
    <3>2. at' = "open"
      BY <2>1 DEF StartOpen
    <3>3. ReaderOK'
      BY <1>t, <1>3, <2>1, <3>1, <3>2 DEF ReaderOK
    <3>4. OtherTypes'
      BY <1>i, <1>t, <1>a, <1>3, <3>1, <3>2 DEF OtherTypes
    <3> QED BY <3>1, <3>3, <3>4, Assemble
  <2>2. CASE clients[e.key] # 0 /\ CloseClient(e.key) /\ UNCHANGED <<keyOf, feed>>
    <3>1. /\ faults' \in 0..MaxFaults /\ chunkDone' \in [Keys -> Nat]
          /\ env' \in Envelope \union {None} /\ todo' \subseteq Keys \ {e.key} /\ gone' \subseteq Keys
          /\ env' \in Envelope /\ env'.key = e.key /\ todo' = {}
      BY <1>i, <1>t, <1>3 DEF OtherTypes
    <3> QED BY <1>e, <1>t, <1>a, <2>2, <3>1, CloseStep
  <2>3. CASE /\ clients[e.key] # 0 /\ at' = "send" /\ conn' = clients[e.key]
             /\ UNCHANGED <<clients, lastSeq, cancelled, keyOf, closers, feed>>
    <3>1. TrackerOK' /\ TrackerTypes'
      BY <1>t, <2>3, SameTracker
    <3>2. ReaderOK'
      BY <1>t, <1>3, <2>3 DEF ReaderOK
    <3>3. conn' \in 0..Len(keyOf')
      BY <1>i, <1>e, <2>3 DEF TrackerTypes
    <3>4. OtherTypes'
      BY <1>i, <1>t, <1>a, <1>3, <2>3, <3>3 DEF OtherTypes
    <3> QED BY <3>1, <3>2, <3>4, Assemble
  <2>4. CASE /\ at' = "record" /\ conn' = 0
             /\ UNCHANGED <<clients, lastSeq, cancelled, keyOf, closers, feed>>
    <3>1. TrackerOK' /\ TrackerTypes'
      BY <1>t, <2>4, SameTracker
    <3>2. ReaderOK'
      BY <1>t, <1>3, <2>4 DEF ReaderOK
    <3>3. OtherTypes'
      BY <1>i, <1>t, <1>a, <1>3, <2>4 DEF OtherTypes
    <3> QED BY <3>1, <3>2, <3>3, Assemble
  <2> QED BY <1>3, <2>1, <2>2, <2>3, <2>4 DEF HandleMessage
<1> QED BY <1>1, <1>2, <1>3 DEF Read
-----------------------------------------------------------------------------
(* The theorems *)

LEMMA NextInv == IInv /\ [Next]_vars => IInv'
<1> SUFFICES ASSUME IInv, [Next]_vars PROVE IInv'
  OBVIOUS
<1>1. ASSUME NEW c \in finished, Bookkeep(c) PROVE IInv'
  BY <1>1, BookkeepStep
<1>2. ASSUME NEW keys \in SUBSET Keys, Sweep(keys) PROVE IInv'
  BY <1>2, SweepStep
<1>3. ASSUME NEW c \in tasks, TaskEnds(c) \/ WriterGone(c) \/ AppDisconnects(c) PROVE IInv'
  BY <1>3, TaskStep
<1>4. ASSUME NEW c \in closers, CloserSends(c) PROVE IInv'
  BY <1>4, CloserStep
<1> QED BY <1>1, <1>2, <1>3, <1>4, QuietStep, ReadStep, OpenSentStep, MessageSentStep,
           SendTimesOutStep, CloseSentStep, RecordStep, ShutdownStep DEF Next

LEMMA Inductive == Spec => []IInv
BY InitInv, NextInv, PTL DEF Spec

\* Every variable keeps its type: the reader's cursor never passes the backend's log, and
\* the ids in the tracker's tables are ids that were drawn.
THEOREM TypeCorrect == Spec => []TypeOK
<1>1. IInv => TypeOK
  BY DEF IInv
<1> QED BY <1>1, Inductive, PTL

\* The app-server sees ConnectionOpened first and nothing after ConnectionClosed, although
\* handle_message, the detached tasks of send_connection_closed and an aborted reader
\* interleave in any way.
THEOREM EventOrder == Spec => []EventsInOrder
<1>1. IInv => EventsInOrder
  BY DEF IInv, TrackerOK
<1> QED BY <1>1, Inductive, PTL

\* At every await at which the reader may time out or be aborted, a connection the
\* app-server believes open has a client or a task that closes it, and every outbound
\* task has a client or was told to end.
THEOREM NothingOrphaned == Spec => []NoOrphan
<1>1. IInv => NoOrphan
  BY DEF IInv, TrackerOK
<1> QED BY <1>1, Inductive, PTL
=============================================================================
