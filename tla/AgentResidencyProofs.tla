------------------------ MODULE AgentResidencyProofs ------------------------
(***************************************************************************)
(* The invariants of the agent tree hold for any number of calls, agents   *)
(* and slots.                                                              *)
(***************************************************************************)
EXTENDS AgentResidency, FiniteSetTheorems, WellFoundedInduction, TLAPS

\* What a call holds and has filled in, by where it is.
CallOK(c) ==
    /\ call[c].slot <=> call[c].pc \in {"prepare", "create", "commit"}
    /\ call[c].reserved <=> call[c].spawn /\ call[c].pc \in {"create", "commit"}
    /\ call[c].cand # None <=> call[c].pc \in {"check", "shutdown", "await"}
    /\ call[c].spawn => call[c].path \in Paths
    /\ call[c].pc # "idle" => /\ call[c].msg \in Message
                              /\ call[c].thread = None <=>
                                   call[c].spawn /\ call[c].pc \notin {"commit", "submit", "died"}
    /\ call[c].thread # None => call[c].thread <= created
    /\ call[c].pc = "prepare" => call[c].spawn
    /\ call[c].pc \in {"load", "capacity"} => ~call[c].spawn

\* The path of a spawn in flight is reserved for it and its thread has no path yet.
SpawnOK(c) ==
    /\ call[c].reserved => tree[call[c].path] = Reserved
    /\ call[c].spawn /\ call[c].pc = "commit" => pathOf[call[c].thread] = None

SpawnsApart ==
    \A c, d \in Callers : c # d =>
      /\ (call[c].reserved /\ call[d].reserved) => call[c].path # call[d].path
      /\ (/\ call[c].spawn /\ call[c].pc = "commit"
          /\ call[d].spawn /\ call[d].pc = "commit") => call[c].thread # call[d].thread

ReservedIsHeld ==
    \A p \in Paths : tree[p] = Reserved =>
      \E c \in Callers : call[c].reserved /\ call[c].path = p

TreeIsIndex == \A p \in Paths, t \in Threads : tree[p] = t <=> pathOf[t] = p

CreatedFirst == \A t \in Threads : Registered(t) => t <= created

\* Loaded threads that are neither residents nor in the hands of a call: each was lost
\* by an aborted one.
Untracked == {t \in loaded : t \notin Range(residents) /\ Holders(t) = {}}

\* Calls that may still create a thread, and calls that hold a victim.
Creating == {c \in Callers : call[c].pc \in {"prepare", "create"}}
Evicting == {c \in Callers : call[c].pc \in {"check", "shutdown", "await"}}

LeaksAreCancels == Cardinality(Untracked) <= cancels

LoadBound ==
    Cardinality(loaded) + Cardinality(Creating)
      <= Capacity + Cardinality(Callers) - 1 + cancels

CallsInv ==
    /\ \A c \in Callers : CallOK(c) /\ SpawnOK(c)
    /\ SpawnsApart /\ ReservedIsHeld /\ TreeIsIndex /\ CreatedFirst

IInv ==
    /\ TypeOK /\ CallsInv
    /\ Accounting /\ LeaksAreCancels /\ LoadBound
-----------------------------------------------------------------------------
(* The residency list *)

LEMMA ConcatProps ==
    ASSUME NEW S, NEW a \in Seq(S), NEW b \in Seq(S)
    PROVE  /\ a \o b \in Seq(S) /\ Len(a \o b) = Len(a) + Len(b)
           /\ \A j \in 1..(Len(a) + Len(b)) :
                (a \o b)[j] = IF j <= Len(a) THEN a[j] ELSE b[j - Len(a)]
OBVIOUS

\* pop_lru_candidate: what is left when position i is cut out and what follows it comes
\* first.
Rotated(s, i) == SubSeq(s, i + 1, Len(s)) \o SubSeq(s, 1, i - 1)

LEMMA CutProps ==
    ASSUME NEW S, NEW s \in Seq(S), NEW i \in 1..Len(s)
    PROVE  /\ RemoveAt(s, i) \in Seq(S) /\ Len(RemoveAt(s, i)) = Len(s) - 1
           /\ \A j \in 1..(Len(s) - 1) : RemoveAt(s, i)[j] = IF j < i THEN s[j] ELSE s[j + 1]
           /\ Rotated(s, i) \in Seq(S) /\ Len(Rotated(s, i)) = Len(s) - 1
           /\ \A j \in 1..(Len(s) - 1) :
                Rotated(s, i)[j] = IF j <= Len(s) - i THEN s[j + i] ELSE s[j - (Len(s) - i)]
<1> DEFINE a == SubSeq(s, 1, i - 1)
           b == SubSeq(s, i + 1, Len(s))
<1>1. a \in Seq(S) /\ Len(a) = i - 1 /\ \A j \in 1..(i - 1) : a[j] = s[j]
  OBVIOUS
<1>2. b \in Seq(S) /\ Len(b) = Len(s) - i /\ \A j \in 1..(Len(s) - i) : b[j] = s[j + i]
  OBVIOUS
<1> HIDE DEF a, b
<1>n. Len(a) + Len(b) = Len(s) - 1 /\ Len(b) + Len(a) = Len(s) - 1
  BY <1>1, <1>2
<1>3. /\ a \o b \in Seq(S) /\ Len(a \o b) = Len(s) - 1
      /\ \A j \in 1..(Len(s) - 1) : (a \o b)[j] = IF j < i THEN s[j] ELSE s[j + 1]
  <2>1. /\ a \o b \in Seq(S) /\ Len(a \o b) = Len(s) - 1
        /\ \A j \in 1..(Len(s) - 1) : (a \o b)[j] = IF j <= i - 1 THEN a[j] ELSE b[j - (i - 1)]
    <3>1. /\ a \o b \in Seq(S) /\ Len(a \o b) = Len(a) + Len(b)
          /\ \A j \in 1..(Len(a) + Len(b)) :
               (a \o b)[j] = IF j <= Len(a) THEN a[j] ELSE b[j - Len(a)]
      BY <1>1, <1>2, ConcatProps
    <3> QED BY <1>1, <1>2, <1>n, <3>1
  <2>2. ASSUME NEW j \in 1..(Len(s) - 1), ~(j < i) PROVE b[j - (i - 1)] = s[j + 1]
    <3>1. j - (i - 1) \in 1..(Len(s) - i) /\ (j - (i - 1)) + i = j + 1
      BY <2>2
    <3> QED BY <1>2, <3>1
  <2> QED BY <1>1, <2>1, <2>2
<1>4. /\ b \o a \in Seq(S) /\ Len(b \o a) = Len(s) - 1
      /\ \A j \in 1..(Len(s) - 1) : (b \o a)[j] = IF j <= Len(s) - i THEN s[j + i]
                                                    ELSE s[j - (Len(s) - i)]
  <2>1. /\ b \o a \in Seq(S) /\ Len(b \o a) = Len(s) - 1
        /\ \A j \in 1..(Len(s) - 1) : (b \o a)[j] = IF j <= Len(s) - i THEN b[j]
                                                      ELSE a[j - (Len(s) - i)]
    <3>1. /\ b \o a \in Seq(S) /\ Len(b \o a) = Len(b) + Len(a)
          /\ \A j \in 1..(Len(b) + Len(a)) :
               (b \o a)[j] = IF j <= Len(b) THEN b[j] ELSE a[j - Len(b)]
      BY <1>1, <1>2, ConcatProps
    <3> QED BY <1>1, <1>2, <1>n, <3>1
  <2>2. ASSUME NEW j \in 1..(Len(s) - 1), j <= Len(s) - i PROVE b[j] = s[j + i]
    BY <1>2, <2>2
  <2>3. ASSUME NEW j \in 1..(Len(s) - 1), ~(j <= Len(s) - i)
        PROVE  a[j - (Len(s) - i)] = s[j - (Len(s) - i)]
    <3>1. j - (Len(s) - i) \in 1..(i - 1)
      BY <2>3
    <3> QED BY <1>1, <3>1
  <2> QED BY <2>1, <2>2, <2>3
<1> QED BY <1>3, <1>4 DEF a, b, RemoveAt, Rotated

\* r lists what s does, in the order of f and without position i.
Reindexes(f, s, i, r) ==
    /\ Len(r) = Len(s) - 1 /\ f \in [1..(Len(s) - 1) -> 1..Len(s)]
    /\ \A j \in 1..(Len(s) - 1) : r[j] = s[f[j]] /\ f[j] # i
    /\ \A j, k \in 1..(Len(s) - 1) : f[j] = f[k] => j = k
    /\ \A k \in 1..Len(s) : k # i => \E j \in 1..(Len(s) - 1) : f[j] = k

LEMMA Reordered ==
    ASSUME NEW S, NEW s \in Seq(S), NEW i \in 1..Len(s), IsInjective(s),
           NEW r \in Seq(S), NEW f, Reindexes(f, s, i, r)
    PROVE  IsInjective(r) /\ Range(r) = Range(s) \ {s[i]}
<1> USE DEF Reindexes
<1>1. DOMAIN r = 1..(Len(s) - 1) /\ DOMAIN s = 1..Len(s)
  OBVIOUS
<1>2. IsInjective(r)
  <2> SUFFICES ASSUME NEW j \in 1..(Len(s) - 1), NEW k \in 1..(Len(s) - 1), r[j] = r[k]
               PROVE  j = k
    BY <1>1 DEF IsInjective
  <2>1. f[j] \in 1..Len(s) /\ f[k] \in 1..Len(s) /\ s[f[j]] = s[f[k]]
    OBVIOUS
  <2>2. f[j] = f[k]
    BY <1>1, <2>1 DEF IsInjective
  <2> QED BY <2>2
<1>3. ASSUME NEW x \in Range(r) PROVE x \in Range(s) \ {s[i]}
  <2>1. PICK j \in 1..(Len(s) - 1) : r[j] = x
    BY <1>1 DEF Range
  <2>2. f[j] \in 1..Len(s) /\ x = s[f[j]] /\ f[j] # i
    BY <2>1
  <2> QED BY <1>1, <2>2 DEF Range, IsInjective
<1>4. ASSUME NEW x \in Range(s) \ {s[i]} PROVE x \in Range(r)
  <2>1. PICK k \in 1..Len(s) : s[k] = x /\ k # i
    BY <1>1 DEF Range
  <2>2. PICK j \in 1..(Len(s) - 1) : f[j] = k
    BY <2>1
  <2> QED BY <1>1, <2>1, <2>2 DEF Range
<1> QED BY <1>2, <1>3, <1>4

\* Both ways of cutting take one element out of a list without duplicates.
LEMMA CutInjective ==
    ASSUME NEW S, NEW s \in Seq(S), NEW i \in 1..Len(s), IsInjective(s)
    PROVE  /\ IsInjective(RemoveAt(s, i)) /\ Range(RemoveAt(s, i)) = Range(s) \ {s[i]}
           /\ IsInjective(Rotated(s, i)) /\ Range(Rotated(s, i)) = Range(s) \ {s[i]}
<1> DEFINE n == Len(s)
<1>n. n \in Nat /\ i \in 1..n
  OBVIOUS
<1>1. IsInjective(RemoveAt(s, i)) /\ Range(RemoveAt(s, i)) = Range(s) \ {s[i]}
  <2> DEFINE r == RemoveAt(s, i)
  <2> DEFINE f == [j \in 1..(n - 1) |-> IF j < i THEN j ELSE j + 1]
  <2>1. r \in Seq(S) /\ Len(r) = n - 1 /\ \A j \in 1..(n - 1) : r[j] = s[f[j]]
    BY CutProps
  <2> HIDE DEF n
  <2>2. f \in [1..(n - 1) -> 1..n] /\ \A j \in 1..(n - 1) : f[j] # i
    BY <1>n
  <2>3. \A j, k \in 1..(n - 1) : f[j] = f[k] => j = k
    BY <1>n
  <2>4. ASSUME NEW k \in 1..n, k # i PROVE \E j \in 1..(n - 1) : f[j] = k
    <3>1. CASE k < i
      BY <1>n, <3>1
    <3>2. CASE k > i
      <4>1. k - 1 \in 1..(n - 1) /\ ~(k - 1 < i) /\ (k - 1) + 1 = k
        BY <1>n, <3>2
      <4> QED BY <4>1
    <3> QED BY <1>n, <2>4, <3>1, <3>2
  <2> HIDE DEF f
  <2>5. Reindexes(f, s, i, r)
    BY <2>1, <2>2, <2>3, <2>4 DEF Reindexes, n
  <2> QED BY <2>1, <2>5, Reordered
<1>2. IsInjective(Rotated(s, i)) /\ Range(Rotated(s, i)) = Range(s) \ {s[i]}
  <2> DEFINE r == Rotated(s, i)
  <2> DEFINE f == [j \in 1..(n - 1) |-> IF j <= n - i THEN j + i ELSE j - (n - i)]
  <2>1. r \in Seq(S) /\ Len(r) = n - 1 /\ \A j \in 1..(n - 1) : r[j] = s[f[j]]
    BY CutProps
  <2> HIDE DEF n
  <2>2. f \in [1..(n - 1) -> 1..n] /\ \A j \in 1..(n - 1) : f[j] # i
    BY <1>n
  <2>3. \A j, k \in 1..(n - 1) : f[j] = f[k] => j = k
    BY <1>n
  <2>4. ASSUME NEW k \in 1..n, k # i PROVE \E j \in 1..(n - 1) : f[j] = k
    <3>1. CASE k < i
      <4>1. k + (n - i) \in 1..(n - 1) /\ ~(k + (n - i) <= n - i) /\ (k + (n - i)) - (n - i) = k
        BY <1>n, <3>1
      <4> QED BY <4>1
    <3>2. CASE k > i
      <4>1. k - i \in 1..(n - 1) /\ k - i <= n - i /\ (k - i) + i = k
        BY <1>n, <3>2
      <4> QED BY <4>1
    <3> QED BY <1>n, <2>4, <3>1, <3>2
  <2> HIDE DEF f
  <2>5. Reindexes(f, s, i, r)
    BY <2>1, <2>2, <2>3, <2>4 DEF Reindexes, n
  <2> QED BY <2>1, <2>5, Reordered
<1> QED BY <1>1, <1>2

\* remove: the list without the thread.
LEMMA WithoutProps ==
    ASSUME residents \in Seq(Threads), IsInjective(residents), NEW t
    PROVE  /\ Without(t) \in Seq(Threads) /\ IsInjective(Without(t))
           /\ Range(Without(t)) = Range(residents) \ {t}
<1>1. CASE t \in Range(residents)
  <2> DEFINE i == CHOOSE i \in DOMAIN residents : residents[i] = t
  <2>1. i \in 1..Len(residents) /\ residents[i] = t
    BY <1>1 DEF Range
  <2>2. Without(t) = RemoveAt(residents, i)
    BY <1>1 DEF Without
  <2> HIDE DEF i
  <2>3. RemoveAt(residents, i) \in Seq(Threads)
    BY <2>1, CutProps
  <2>4. /\ IsInjective(RemoveAt(residents, i))
        /\ Range(RemoveAt(residents, i)) = Range(residents) \ {residents[i]}
    BY <2>1, <2>3, CutInjective
  <2> QED BY <2>1, <2>2, <2>3, <2>4
<1>2. CASE t \notin Range(residents)
  BY <1>2 DEF Without
<1> QED BY <1>1, <1>2

\* touch_resident: the thread is on the list, once.
LEMMA TouchProps ==
    ASSUME residents \in Seq(Threads), IsInjective(residents), NEW t \in Threads, Touch(t)
    PROVE  /\ residents' \in Seq(Threads) /\ IsInjective(residents)'
           /\ Range(residents)' = Range(residents) \union {t}
<1> DEFINE w == Without(t)
<1>1. w \in Seq(Threads) /\ IsInjective(w) /\ Range(w) = Range(residents) \ {t}
  BY WithoutProps
<1>2. residents' = Append(w, t)
  BY DEF Touch
<1> HIDE DEF w
<1>3. /\ residents' \in Seq(Threads) /\ Len(residents') = Len(w) + 1
      /\ \A j \in 1..Len(w) : residents'[j] = w[j]
      /\ residents'[Len(w) + 1] = t
  BY <1>1, <1>2
<1>4. t \notin Range(w)
  BY <1>1
<1>5. IsInjective(residents')
  BY <1>1, <1>3, <1>4 DEF IsInjective, Range
<1>6. Range(residents') = Range(w) \union {t}
  BY <1>1, <1>3 DEF Range
<1> QED BY <1>1, <1>3, <1>5, <1>6

\* A list without duplicates is as long as the set of its elements is large.
LEMMA RangeCount ==
    ASSUME NEW S, NEW s \in Seq(S)
    PROVE  IsFiniteSet(Range(s)) /\ Cardinality(Range(s)) <= Len(s)
<1>1. IsFiniteSet(1..Len(s)) /\ Cardinality(1..Len(s)) = Len(s)
  <2>1. Len(s) \in Nat /\ 1 \in Int /\ Len(s) \in Int
    OBVIOUS
  <2> QED BY <2>1, FS_Interval
<1>2. s \in [1..Len(s) -> Range(s)] /\ \A x \in Range(s) : \E i \in 1..Len(s) : s[i] = x
  BY DEF Range
<1>3. s \in Surjection(1..Len(s), Range(s))
  BY <1>2 DEF Surjection
<1> QED BY <1>1, <1>3, FS_Surjection
-----------------------------------------------------------------------------
(* Counting *)

\* Two subsets of a finite set that differ in x only.
LEMMA CountStep ==
    ASSUME NEW S, IsFiniteSet(S), NEW A \in SUBSET S, NEW B \in SUBSET S, NEW x \in S,
           A \ {x} = B \ {x}
    PROVE  /\ Cardinality(A) \in Nat /\ Cardinality(B) \in Nat
           /\ x \in A => Cardinality(A) > 0
           /\ Cardinality(B) = CASE x \in A /\ x \notin B -> Cardinality(A) - 1
                                 [] x \notin A /\ x \in B -> Cardinality(A) + 1
                                 [] OTHER -> Cardinality(A)
<1>1. IsFiniteSet(A) /\ IsFiniteSet(B)
  BY FS_Subset
<1>2. Cardinality(A) \in Nat /\ Cardinality(B) \in Nat
  BY <1>1, FS_CardinalityType
<1>3. CASE x \in A /\ x \notin B
  <2>1. B = A \ {x}
    BY <1>3
  <2>2. Cardinality(A \ {x}) = Cardinality(A) - 1
    BY <1>1, <1>3, FS_RemoveElement
  <2> QED BY <1>2, <1>3, <2>1, <2>2
<1>4. CASE x \notin A /\ x \in B
  <2>1. B = A \union {x}
    BY <1>4
  <2>2. Cardinality(A \union {x}) = Cardinality(A) + 1
    BY <1>1, <1>4, FS_AddElement
  <2> QED BY <1>2, <1>4, <2>1, <2>2
<1>5. CASE x \in A <=> x \in B
  <2>1. A = B
    BY <1>5
  <2>2. x \in A => Cardinality(A) > 0
    <3> SUFFICES ASSUME x \in A PROVE Cardinality(A) > 0
      OBVIOUS
    <3>1. Cardinality(A \ {x}) = Cardinality(A) - 1 /\ IsFiniteSet(A \ {x})
      BY <1>1, FS_RemoveElement
    <3>2. Cardinality(A \ {x}) \in Nat
      BY <3>1, FS_CardinalityType
    <3> QED BY <1>2, <3>1, <3>2
  <2> QED BY <1>2, <1>5, <2>1, <2>2
<1> QED BY <1>3, <1>4, <1>5

LEMMA SubsetCount ==
    ASSUME NEW S, IsFiniteSet(S), NEW A \in SUBSET S
    PROVE  IsFiniteSet(A) /\ Cardinality(A) \in Nat /\ Cardinality(A) <= Cardinality(S)
           /\ Cardinality(S) \in Nat
<1>1. IsFiniteSet(A) /\ Cardinality(A) <= Cardinality(S)
  BY FS_Subset
<1> QED BY <1>1, FS_CardinalityType

LEMMA ThreadsFinite == IsFiniteSet(Threads) /\ IsFiniteSet(Callers)
<1>1. NThreads \in Int /\ 1 \in Int
  BY AgentResidencyAssumption
<1>2. IsFiniteSet(Threads)
  BY <1>1, FS_Interval DEF Threads
<1> QED BY <1>2, AgentResidencyAssumption

\* All calls but c are as they were.
OnlyCall(c) ==
    /\ call' \in [Callers -> Call]
    /\ \A d \in Callers \ {c} : call'[d] = call[d]

Slots == {c \in Callers : call[c].slot}
Reservations == {c \in Callers : call[c].reserved}
Registrations == {t \in Threads : Registered(t)}

LEMMA SlotStep ==
    ASSUME NEW c \in Callers, OnlyCall(c), pending = Cardinality(Slots)
    PROVE  /\ Cardinality(Slots) \in Nat
           /\ call[c].slot => Cardinality(Slots) > 0
           /\ Cardinality(Slots') =
                IF call[c].slot THEN IF call'[c].slot THEN pending ELSE pending - 1
                                ELSE IF call'[c].slot THEN pending + 1 ELSE pending
<1>1. Slots \in SUBSET Callers /\ Slots' \in SUBSET Callers
  BY DEF Slots
<1>2. /\ Slots \ {c} = Slots' \ {c}
      /\ c \in Slots <=> call[c].slot
      /\ c \in Slots' <=> call'[c].slot
  BY DEF Slots, OnlyCall
<1> QED BY <1>1, <1>2, CountStep, ThreadsFinite

LEMMA ReservationStep ==
    ASSUME NEW c \in Callers, OnlyCall(c)
    PROVE  /\ Cardinality(Reservations) \in Nat
           /\ call[c].reserved => Cardinality(Reservations) > 0
           /\ Cardinality(Reservations') =
                IF call[c].reserved
                  THEN IF call'[c].reserved THEN Cardinality(Reservations)
                                            ELSE Cardinality(Reservations) - 1
                  ELSE IF call'[c].reserved THEN Cardinality(Reservations) + 1
                                            ELSE Cardinality(Reservations)
<1>1. Reservations \in SUBSET Callers /\ Reservations' \in SUBSET Callers
  BY DEF Reservations
<1>2. /\ Reservations \ {c} = Reservations' \ {c}
      /\ c \in Reservations <=> call[c].reserved
      /\ c \in Reservations' <=> call'[c].reserved
  BY DEF Reservations, OnlyCall
<1> QED BY <1>1, <1>2, CountStep, ThreadsFinite

LEMMA RegistrationStep ==
    ASSUME NEW t \in Threads, \A u \in Threads \ {t} : pathOf'[u] = pathOf[u]
    PROVE  /\ Cardinality(Registrations) \in Nat
           /\ Registered(t) => Cardinality(Registrations) > 0
           /\ Cardinality(Registrations') =
                IF Registered(t)
                  THEN IF Registered(t)' THEN Cardinality(Registrations)
                                         ELSE Cardinality(Registrations) - 1
                  ELSE IF Registered(t)' THEN Cardinality(Registrations) + 1
                                         ELSE Cardinality(Registrations)
<1>1. Registrations \in SUBSET Threads /\ Registrations' \in SUBSET Threads
  BY DEF Registrations
<1>2. /\ Registrations \ {t} = Registrations' \ {t}
      /\ t \in Registrations <=> Registered(t)
      /\ t \in Registrations' <=> Registered(t)'
  BY DEF Registrations, Registered
<1> QED BY <1>1, <1>2, CountStep, ThreadsFinite

LEMMA AccountingSets ==
    Accounting <=> /\ total = Cardinality(Registrations) + Cardinality(Reservations)
                   /\ pending = Cardinality(Slots)
                   /\ IsInjective(residents)
BY DEF Accounting, Registrations, Reservations, Slots
-----------------------------------------------------------------------------
(* Initial states *)

LEMMA IdleIsCall == Idle \in Call
BY DEF Idle, Call, Steps

LEMMA InitInv == Init => IInv
<1> SUFFICES ASSUME Init PROVE IInv
  OBVIOUS
<1> USE AgentResidencyAssumption
<1>1. TypeOK
  <2>1. call \in [Callers -> Call]
    BY IdleIsCall DEF Init
  <2>2. queue \in [Threads -> Seq(Message \union {"shutdown"})] /\ residents \in Seq(Threads)
    BY DEF Init
  <2>3. /\ tree \in [Paths -> {Free, Reserved} \union Threads]
        /\ pathOf \in [Threads -> Paths \union {None}]
    BY DEF Init
  <2>4. /\ run \in [Threads -> {"init", "turn", "done", "down"}]
        /\ gen \in [Threads -> Nat] /\ mail \in [Threads -> SUBSET Message]
    BY DEF Init
  <2>5. created \in 0..NThreads /\ ops \in 0..MaxOps /\ cancels \in 0..MaxCancels
    BY DEF Init
  <2> QED BY <2>1, <2>2, <2>3, <2>4, <2>5 DEF Init, TypeOK
<1>2. CallsInv
  <2>1. \A c \in Callers : call[c] = Idle
    BY DEF Init
  <2>2. \A c \in Callers : CallOK(c) /\ SpawnOK(c)
    BY <2>1 DEF CallOK, SpawnOK, Idle
  <2>3. SpawnsApart
    BY <2>1 DEF SpawnsApart, Idle
  <2>4. ReservedIsHeld /\ TreeIsIndex /\ CreatedFirst
    BY DEF Init, ReservedIsHeld, TreeIsIndex, CreatedFirst, Registered
  <2> QED BY <2>2, <2>3, <2>4 DEF CallsInv
<1>3. Accounting
  <2>1. Registrations = {} /\ Reservations = {} /\ Slots = {}
    BY DEF Init, Registrations, Registered, Reservations, Slots, Idle
  <2>2. IsInjective(residents)
    BY DEF Init, IsInjective
  <2> QED BY <2>1, <2>2, FS_EmptySet, AccountingSets DEF Init
<1>4. LeaksAreCancels /\ LoadBound
  <2>1. Untracked = {} /\ loaded = {} /\ Creating = {}
    BY DEF Init, Untracked, Creating, Idle
  <2>2. Cardinality(Callers) \in Nat \ {0}
    <3>1. IsFiniteSet(Callers) /\ Cardinality(Callers) \in Nat
      BY FS_CardinalityType
    <3> QED BY <3>1, FS_EmptySet
  <2>3. cancels = 0 /\ Capacity \in Nat
    BY DEF Init
  <2>4. Cardinality({}) = 0
    BY FS_EmptySet
  <2>5. LeaksAreCancels
    BY <2>1, <2>3, <2>4 DEF LeaksAreCancels
  <2>6. LoadBound
    BY <2>1, <2>2, <2>3, <2>4 DEF LoadBound
  <2> QED BY <2>5, <2>6
<1> QED BY <1>1, <1>2, <1>3, <1>4 DEF IInv
-----------------------------------------------------------------------------
(* What a step of call c must keep *)

\* The tree of paths is untouched, and so is what the call has reserved of it.
LEMMA RegistryFrame ==
    ASSUME IInv, NEW c \in Callers, OnlyCall(c), CallOK(c)', UNCHANGED <<tree, pathOf>>,
           created \in Nat, created' \in Nat, created' >= created,
           call'[c].reserved <=> call[c].reserved,
           call[c].reserved => call'[c].path = call[c].path,
           (call'[c].spawn /\ call'[c].pc = "commit") =>
             call'[c].thread \in Threads /\ call'[c].thread > created
    PROVE  CallsInv'
<1>i. TypeOK /\ CallsInv
  BY DEF IInv
<1>1. ASSUME NEW d \in Callers PROVE CallOK(d)'
  <2>1. CASE d # c
    <3>1. call'[d] = call[d] /\ call[d].thread \in Threads \union {None}
      BY <1>i, <2>1 DEF OnlyCall, TypeOK, Call
    <3> QED BY <1>i, <3>1, AgentResidencyAssumption DEF CallsInv, CallOK, Threads
  <2> QED BY <2>1
<1>2. ASSUME NEW d \in Callers PROVE SpawnOK(d)'
  <2>1. CASE d # c
    <3>1. call'[d] = call[d]
      BY <2>1 DEF OnlyCall
    <3> QED BY <1>i, <3>1 DEF CallsInv, SpawnOK
  <2>2. CASE d = c
    BY <1>i, <2>2 DEF CallsInv, SpawnOK, CreatedFirst, Registered, Threads
  <2> QED BY <2>1, <2>2
<1>3. SpawnsApart'
  <2>1. ASSUME NEW d \in Callers \ {c}, call[d].spawn, call[d].pc = "commit"
        PROVE  call[d].thread \in Threads /\ call[d].thread <= created
    BY <1>i, <2>1 DEF CallsInv, CallOK, TypeOK, Call
  <2>2. ASSUME NEW d \in Callers \ {c} PROVE call'[d] = call[d]
    BY <2>2 DEF OnlyCall
  <2>3. ASSUME NEW d \in Callers \ {c},
               call'[c].spawn /\ call'[c].pc = "commit" /\ call'[d].spawn /\ call'[d].pc = "commit"
        PROVE  call'[c].thread # call'[d].thread
    BY <2>1, <2>2, <2>3 DEF Threads
  <2>4. ASSUME NEW d \in Callers \ {c}, call'[c].reserved, call'[d].reserved
        PROVE  call'[c].path # call'[d].path
    BY <1>i, <2>2, <2>4 DEF CallsInv, SpawnsApart
  <2>5. \A d, e \in Callers \ {c} : d # e =>
          /\ (call'[d].reserved /\ call'[e].reserved) => call'[d].path # call'[e].path
          /\ (/\ call'[d].spawn /\ call'[d].pc = "commit"
              /\ call'[e].spawn /\ call'[e].pc = "commit") => call'[d].thread # call'[e].thread
    BY <1>i, <2>2 DEF CallsInv, SpawnsApart
  <2> QED BY <2>3, <2>4, <2>5 DEF SpawnsApart
<1>4. ReservedIsHeld'
  <2> SUFFICES ASSUME NEW p \in Paths, tree[p] = Reserved
               PROVE  \E d \in Callers : call'[d].reserved /\ call'[d].path = p
    BY DEF ReservedIsHeld
  <2>1. PICK d \in Callers : call[d].reserved /\ call[d].path = p
    BY <1>i DEF CallsInv, ReservedIsHeld
  <2>2. call'[d].reserved /\ call'[d].path = p
    BY <2>1 DEF OnlyCall
  <2> QED BY <2>2
<1>5. TreeIsIndex' /\ CreatedFirst'
  BY <1>i DEF CallsInv, TreeIsIndex, CreatedFirst, Registered, Threads
<1> QED BY <1>1, <1>2, <1>3, <1>4, <1>5 DEF CallsInv

\* Loaded threads stay where a call or a later eviction finds them.
Tracks(c) ==
    \A t \in loaded' :
      (\/ t \notin loaded \/ t \in Range(residents)
       \/ call[c].cand = t \/ (call[c].thread = t /\ call[c].pc = "commit"))
      => \/ t \in Range(residents')
         \/ call'[c].cand = t \/ (call'[c].thread = t /\ call'[c].pc = "commit")

LEMMA TrackFrame ==
    ASSUME IInv, NEW c \in Callers, OnlyCall(c), loaded' \subseteq Threads,
           Tracks(c)
    PROVE  Untracked' \subseteq Untracked
<1> SUFFICES ASSUME NEW t \in loaded', t \notin Range(residents'), Holders(t)' = {}
             PROVE  t \in loaded /\ t \notin Range(residents) /\ Holders(t) = {}
  BY DEF Untracked
<1>1. ~(call'[c].cand = t \/ (call'[c].thread = t /\ call'[c].pc = "commit"))
  BY DEF Holders
<1>2. /\ t \in loaded /\ t \notin Range(residents)
      /\ ~(call[c].cand = t \/ (call[c].thread = t /\ call[c].pc = "commit"))
  BY <1>1 DEF Tracks
<1>3. \A d \in Callers \ {c} : ~(call[d].cand = t \/ (call[d].thread = t /\ call[d].pc = "commit"))
  BY DEF Holders, OnlyCall
<1> QED BY <1>2, <1>3 DEF Holders

LEMMA LeakFrame ==
    ASSUME IInv, Untracked' \subseteq Untracked, cancels' = cancels
    PROVE  LeaksAreCancels'
<1>1. IsFiniteSet(Untracked)
  BY ThreadsFinite, FS_Subset DEF IInv, TypeOK, Untracked
<1>2. /\ Cardinality(Untracked') <= Cardinality(Untracked)
      /\ Cardinality(Untracked') \in Nat /\ Cardinality(Untracked) \in Nat
  BY <1>1, SubsetCount
<1> QED BY <1>2 DEF IInv, LeaksAreCancels, TypeOK

\* No thread is loaded and no slot is taken.
LEMMA BoundFrame ==
    ASSUME IInv, loaded' \subseteq loaded, Creating' \subseteq Creating,
           cancels' \in {cancels, cancels + 1}
    PROVE  LoadBound'
<1>1. IsFiniteSet(loaded) /\ IsFiniteSet(Creating)
  BY ThreadsFinite, FS_Subset DEF IInv, TypeOK, Creating
<1>2. /\ Cardinality(loaded') <= Cardinality(loaded)
      /\ Cardinality(loaded') \in Nat /\ Cardinality(loaded) \in Nat
      /\ Cardinality(Creating') <= Cardinality(Creating)
      /\ Cardinality(Creating') \in Nat /\ Cardinality(Creating) \in Nat
  BY <1>1, SubsetCount
<1>3. Cardinality(Callers) \in Nat /\ Capacity \in Nat /\ cancels \in Nat
  BY ThreadsFinite, FS_CardinalityType, AgentResidencyAssumption DEF IInv, TypeOK
<1> QED BY <1>2, <1>3 DEF IInv, LoadBound
-----------------------------------------------------------------------------
(* Sessions *)

SessionsOK ==
    /\ loaded \subseteq Threads /\ run \in [Threads -> {"init", "turn", "done", "down"}]
    /\ gen \in [Threads -> Nat]
    /\ queue \in [Threads -> Seq(Message \union {"shutdown"})]
    /\ mail \in [Threads -> SUBSET Message]
    /\ created \in 0..NThreads /\ lost \in BOOLEAN

LEMMA SessionTypes ==
    ASSUME TypeOK, NEW t \in Threads
    PROVE  /\ SessionsOK /\ (UNCHANGED sessions => SessionsOK')
           /\ RemoveThread(t) => SessionsOK'
           /\ StartThread(t) => SessionsOK'
<1>1. SessionsOK
  BY DEF TypeOK, SessionsOK
<1>2. ASSUME UNCHANGED sessions PROVE SessionsOK'
  BY <1>1, <1>2 DEF SessionsOK, sessions
<1>3. ASSUME End(t)
      PROVE  /\ run' \in [Threads -> {"init", "turn", "done", "down"}]
             /\ queue' \in [Threads -> Seq(Message \union {"shutdown"})]
             /\ mail' \in [Threads -> SUBSET Message] /\ lost' \in BOOLEAN
  BY <1>1, <1>3 DEF SessionsOK, End
<1>4. ASSUME RemoveThread(t) PROVE SessionsOK'
  BY <1>1, <1>3, <1>4 DEF SessionsOK, RemoveThread
<1>5. ASSUME StartThread(t) PROVE SessionsOK'
  BY <1>1, <1>5, AgentResidencyAssumption DEF SessionsOK, StartThread, Threads
<1> QED BY <1>1, <1>2, <1>4, <1>5

\* The submission loop and the turn of a session change nothing calls account for.
LEMMA SessionStep ==
    ASSUME IInv, NEW t \in Threads, Loop(t) \/ TakeMail(t) \/ TurnEnds(t)
    PROVE  IInv'
<1>i. TypeOK /\ SessionsOK
  BY SessionTypes DEF IInv
<1>1. UNCHANGED <<registry, residency, loaded, gen, created, call, bounds>>
  BY DEF Loop, HandleMessage, HandleShutdown, TakeMail, TurnEnds
<1>2. /\ run' \in [Threads -> {"init", "turn", "done", "down"}]
      /\ queue' \in [Threads -> Seq(Message \union {"shutdown"})]
      /\ mail' \in [Threads -> SUBSET Message] /\ lost' \in BOOLEAN
  <2>1. CASE HandleMessage(t)
    <3>1. queue[t] \in Seq(Message \union {"shutdown"}) /\ queue[t] # <<>>
      BY <1>i, <2>1 DEF SessionsOK, HandleMessage
    <3>2. Head(queue[t]) \in Message /\ Tail(queue[t]) \in Seq(Message \union {"shutdown"})
      BY <3>1, <2>1 DEF HandleMessage
    <3>3. queue' \in [Threads -> Seq(Message \union {"shutdown"})]
      BY <1>i, <2>1, <3>2 DEF SessionsOK, HandleMessage
    <3>4. run' \in [Threads -> {"init", "turn", "done", "down"}] /\ lost' = lost
      BY <1>i, <2>1 DEF SessionsOK, HandleMessage
    <3>5. mail' = [mail EXCEPT ![t] = {}] \/ mail' = [mail EXCEPT ![t] = @ \union {Head(queue[t])}]
      BY <2>1 DEF HandleMessage
    <3>6. mail' \in [Threads -> SUBSET Message]
      BY <1>i, <3>2, <3>5 DEF SessionsOK
    <3> QED BY <1>i, <3>3, <3>4, <3>6 DEF SessionsOK
  <2>2. CASE HandleShutdown(t)
    BY <1>i, <2>2 DEF SessionsOK, HandleShutdown, End
  <2>3. CASE TakeMail(t) \/ TurnEnds(t)
    BY <1>i, <2>3 DEF SessionsOK, TakeMail, TurnEnds
  <2> QED BY <2>1, <2>2, <2>3 DEF Loop
<1>3. TypeOK'
  BY <1>i, <1>1, <1>2 DEF TypeOK, SessionsOK, registry, residency, bounds
<1>4. CallsInv'
  BY <1>1 DEF IInv, CallsInv, CallOK, SpawnOK, SpawnsApart, ReservedIsHeld, TreeIsIndex,
              CreatedFirst, Registered, registry
<1>5. Accounting'
  BY <1>1 DEF IInv, Accounting, Registered, registry, residency
<1>6. LeaksAreCancels' /\ LoadBound'
  BY <1>1 DEF IInv, LeaksAreCancels, Untracked, Holders, LoadBound, Creating, residency, bounds
<1> QED BY <1>3, <1>4, <1>5, <1>6 DEF IInv
-----------------------------------------------------------------------------
(* Kinds of steps of a call *)

\* Call c goes on and leaves the registry alone; its slot, if that changes, is counted.
SlotCounted(c) ==
    pending' = IF call[c].slot THEN IF call'[c].slot THEN pending ELSE pending - 1
                               ELSE IF call'[c].slot THEN pending + 1 ELSE pending

LEMMA PlainStep ==
    ASSUME IInv, NEW c \in Callers, OnlyCall(c), CallOK(c)', UNCHANGED registry,
           SessionsOK', created' >= created,
           residents' \in Seq(Threads), IsInjective(residents)',
           ops' \in 0..MaxOps, cancels' = cancels,
           SlotCounted(c),
           call'[c].reserved <=> call[c].reserved,
           call[c].reserved => call'[c].path = call[c].path,
           (call'[c].spawn /\ call'[c].pc = "commit") =>
             call'[c].thread \in Threads /\ call'[c].thread > created,
           Tracks(c),
           LoadBound'
    PROVE  IInv'
<1>i. TypeOK /\ CallsInv /\ Accounting
  BY DEF IInv
<1>1. created \in Nat /\ created' \in Nat
  BY <1>i DEF TypeOK, SessionsOK
<1>2. CallsInv'
  BY <1>1, RegistryFrame DEF registry
<1>3. /\ total = Cardinality(Registrations) + Cardinality(Reservations)
      /\ pending = Cardinality(Slots)
  BY <1>i, AccountingSets
<1>4. pending' = Cardinality(Slots') /\ pending' \in Nat
  BY <1>i, <1>3, SlotStep DEF TypeOK, SlotCounted
<1>5. Registrations' = Registrations /\ Reservations' = Reservations
  BY DEF Registrations, Registered, Reservations, OnlyCall, registry
<1>6. Accounting'
  BY <1>3, <1>4, <1>5 DEF Accounting, Registrations, Reservations, Slots, registry
<1>7. LeaksAreCancels'
  BY TrackFrame, LeakFrame DEF SessionsOK
<1>8. TypeOK'
  BY <1>i, <1>4 DEF TypeOK, SessionsOK, OnlyCall, registry
<1> QED BY <1>2, <1>6, <1>7, <1>8 DEF IInv

\* Call c ends and gives back what it holds.
LEMMA DropStep ==
    ASSUME IInv, NEW c \in Callers, call' = [call EXCEPT ![c] = Idle], DropHeld(c),
           UNCHANGED <<residents, loaded, created, ops>>, SessionsOK',
           \/ cancels' = cancels /\ call[c].pc \notin {"check", "shutdown", "await", "commit"}
           \/ cancels' = cancels + 1 /\ cancels < MaxCancels
    PROVE  IInv'
<1>i. TypeOK /\ CallsInv /\ Accounting /\ CallOK(c) /\ SpawnOK(c) /\ call[c] \in Call
  BY DEF IInv, CallsInv, TypeOK
<1>c. OnlyCall(c) /\ call'[c] = Idle
  BY <1>i, IdleIsCall DEF OnlyCall, TypeOK
<1>n. call'[c].slot = FALSE /\ call'[c].reserved = FALSE /\ call'[c].spawn = FALSE
        /\ call'[c].pc = "idle" /\ call'[c].cand = None /\ call'[c].thread = None
  BY <1>c DEF Idle
<1>p. call[c].reserved => call[c].path \in Paths /\ tree[call[c].path] = Reserved
  BY <1>i DEF CallOK, SpawnOK
<1>t. tree' = IF call[c].reserved THEN [tree EXCEPT ![call[c].path] = Free] ELSE tree
  BY <1>p DEF DropHeld
<1>1. Accounting' /\ pending' \in Nat /\ total' \in Nat
  <2>1. /\ total = Cardinality(Registrations) + Cardinality(Reservations)
        /\ pending = Cardinality(Slots) /\ IsInjective(residents)
    BY <1>i, AccountingSets
  <2>2. pending' = Cardinality(Slots') /\ pending' \in Nat
    BY <1>c, <1>n, <2>1, SlotStep DEF DropHeld
  <2>3. Registrations' = Registrations
    BY DEF Registrations, Registered, DropHeld
  <2>4. Cardinality(Registrations) \in Nat
    BY ThreadsFinite, SubsetCount DEF Registrations
  <2>5. total' = Cardinality(Registrations) + Cardinality(Reservations') /\ total' \in Nat
    BY <1>c, <1>n, <2>1, <2>4, ReservationStep DEF DropHeld
  <2>6. IsInjective(residents')
    BY <2>1
  <2> QED BY <2>2, <2>3, <2>5, <2>6 DEF Accounting, Registrations, Reservations, Slots
<1>2. CallsInv'
  <2>1. \A d \in Callers : CallOK(d)'
    BY <1>i, <1>c DEF CallsInv, CallOK, OnlyCall, Idle
  <2>2. \A d \in Callers \ {c} : call'[d].reserved => call'[d].path \in Paths /\ tree'[call'[d].path] = Reserved
    <3> SUFFICES ASSUME NEW d \in Callers \ {c}, call'[d].reserved
                 PROVE  call'[d].path \in Paths /\ tree'[call'[d].path] = Reserved
      OBVIOUS
    <3>1. call'[d] = call[d]
      BY <1>c DEF OnlyCall
    <3>2. call[d].path \in Paths /\ tree[call[d].path] = Reserved
      BY <1>i, <3>1 DEF CallsInv, CallOK, SpawnOK
    <3>3. call[c].reserved => call[c].path # call[d].path
      BY <1>i, <3>1 DEF CallsInv, SpawnsApart
    <3> QED BY <1>i, <1>t, <3>1, <3>2, <3>3 DEF TypeOK
  <2>3. \A d \in Callers : SpawnOK(d)'
    BY <1>i, <1>c, <1>n, <2>2 DEF CallsInv, SpawnOK, OnlyCall, DropHeld
  <2>4. SpawnsApart'
    BY <1>i, <1>c, <1>n DEF CallsInv, SpawnsApart, OnlyCall
  <2>5. ReservedIsHeld'
    <3> SUFFICES ASSUME NEW p \in Paths, tree'[p] = Reserved
                 PROVE  \E d \in Callers : call'[d].reserved /\ call'[d].path = p
      BY DEF ReservedIsHeld
    <3>1. tree[p] = Reserved /\ (call[c].reserved => p # call[c].path)
      BY <1>i, <1>p, <1>t, AgentResidencyAssumption DEF TypeOK
    <3>2. PICK d \in Callers : call[d].reserved /\ call[d].path = p
      BY <1>i, <3>1 DEF CallsInv, ReservedIsHeld
    <3>3. d # c
      BY <3>1, <3>2
    <3> QED BY <1>c, <3>2, <3>3 DEF OnlyCall
  <2>6. TreeIsIndex'
    <3> SUFFICES ASSUME NEW p \in Paths, NEW t \in Threads PROVE tree'[p] = t <=> pathOf'[t] = p
      BY DEF TreeIsIndex
    <3>1. tree[p] = t <=> pathOf[t] = p
      BY <1>i DEF CallsInv, TreeIsIndex
    <3>2. Free # t /\ Reserved # t
      BY AgentResidencyAssumption
    <3> QED BY <1>i, <1>p, <1>t, <3>1, <3>2 DEF TypeOK, DropHeld
  <2>7. CreatedFirst'
    BY <1>i DEF CallsInv, CreatedFirst, Registered, DropHeld
  <2> QED BY <2>1, <2>3, <2>4, <2>5, <2>6, <2>7 DEF CallsInv
<1>3. LeaksAreCancels'
  <2>u. Untracked \in SUBSET Threads /\ Untracked' \in SUBSET Threads /\ IsFiniteSet(Untracked)
          /\ Cardinality(Untracked) \in Nat
    BY <1>i, ThreadsFinite, FS_Subset, FS_CardinalityType DEF TypeOK, SessionsOK, Untracked
  <2>1. CASE cancels' = cancels /\ call[c].pc \notin {"check", "shutdown", "await", "commit"}
    <3>1. call[c].cand = None /\ None \notin Threads
      BY <1>i, <2>1, AgentResidencyAssumption DEF CallOK
    <3>2. loaded' \subseteq Threads
      BY DEF SessionsOK
    <3>3. \A t \in loaded' : call[c].cand # t
      BY <3>1, <3>2
    <3>4. Tracks(c)
      BY <2>1, <3>3 DEF Tracks
    <3>5. Untracked' \subseteq Untracked
      BY <1>c, <3>2, <3>4, TrackFrame
    <3> QED BY <2>1, <3>5, LeakFrame
  <2>2. CASE cancels' = cancels + 1
    <3> DEFINE x == IF call[c].cand # None THEN call[c].cand ELSE call[c].thread
    <3>1. Untracked' \subseteq Untracked \union {x}
      <4> SUFFICES ASSUME NEW t \in loaded', t \notin Range(residents'), Holders(t)' = {}, t # x
                   PROVE  t \in loaded /\ t \notin Range(residents) /\ Holders(t) = {}
        BY DEF Untracked
      <4>1. t \in Threads /\ t # None
        BY AgentResidencyAssumption DEF SessionsOK
      <4>2. \A d \in Callers \ {c} : ~(call[d].cand = t \/ (call[d].thread = t /\ call[d].pc = "commit"))
        BY <1>c DEF Holders, OnlyCall
      <4>3. ~(call[c].cand = t \/ (call[c].thread = t /\ call[c].pc = "commit"))
        BY <1>i, <4>1 DEF CallOK
      <4> QED BY <4>2, <4>3 DEF Holders
    <3>2. /\ IsFiniteSet(Untracked \union {x})
          /\ Cardinality(Untracked \union {x}) <= Cardinality(Untracked) + 1
          /\ Cardinality(Untracked \union {x}) \in Nat
      <4>1. IsFiniteSet(Untracked \union {x})
              /\ Cardinality(Untracked \union {x}) = IF x \in Untracked THEN Cardinality(Untracked)
                                                      ELSE Cardinality(Untracked) + 1
        BY <2>u, FS_AddElement
      <4> QED BY <2>u, <4>1
    <3>3. Cardinality(Untracked') <= Cardinality(Untracked \union {x}) /\ Cardinality(Untracked') \in Nat
      BY <3>1, <3>2, SubsetCount
    <3>4. Cardinality(Untracked) <= cancels /\ cancels \in Nat
      BY <1>i DEF IInv, LeaksAreCancels, TypeOK
    <3> QED BY <2>2, <2>u, <3>2, <3>3, <3>4 DEF LeaksAreCancels
  <2> QED BY <2>1, <2>2
<1>4. LoadBound'
  <2>1. Creating' \subseteq Creating
    BY <1>c, <1>n DEF Creating, OnlyCall
  <2> QED BY <2>1, BoundFrame
<1>5. TypeOK'
  <2>1. tree' \in [Paths -> {Free, Reserved} \union Threads]
    BY <1>i, <1>p, <1>t DEF TypeOK
  <2>2. cancels' \in 0..MaxCancels
    BY <1>i, AgentResidencyAssumption DEF TypeOK
  <2> QED BY <1>i, <1>c, <1>1, <2>1, <2>2 DEF TypeOK, SessionsOK, OnlyCall, DropHeld
<1> QED BY <1>1, <1>2, <1>3, <1>4, <1>5 DEF IInv
-----------------------------------------------------------------------------
(* The steps of a call *)

\* A step that takes no slot and loads no thread.
LEMMA NoSlot ==
    ASSUME IInv, NEW c \in Callers, OnlyCall(c), loaded' \subseteq loaded, cancels' = cancels,
           call'[c].pc \in {"prepare", "create"} => call[c].pc \in {"prepare", "create"}
    PROVE  LoadBound'
<1>1. Creating' \subseteq Creating
  BY DEF Creating, OnlyCall
<1> QED BY <1>1, BoundFrame

LEMMA BeginStep ==
    ASSUME IInv, NEW c \in Callers,
           \/ \E p \in Paths : Spawn(c, p)
           \/ \E t \in Threads, m \in Message : Send(c, t, m)
    PROVE  IInv'
<1>i. TypeOK /\ CallOK(c)
  BY DEF IInv, CallsInv
<1>1. PICK new : /\ Begin(c, new)
                 /\ \/ \E p \in Paths : new = [Idle EXCEPT !.pc = "reserve", !.spawn = TRUE,
                                                            !.path = p, !.msg = "followup"]
                    \/ \E t \in Threads, m \in Message :
                         Registered(t) /\ new = [Idle EXCEPT !.pc = "load", !.thread = t, !.msg = m]
  BY DEF Spawn, Send
<1>2. /\ new.slot = FALSE /\ new.reserved = FALSE /\ new.cand = None
      /\ \/ /\ new.pc = "reserve" /\ new.spawn = TRUE /\ new.path \in Paths
            /\ new.msg = "followup" /\ new.thread = None
         \/ /\ new.pc = "load" /\ new.spawn = FALSE /\ new.thread \in Threads
            /\ Registered(new.thread) /\ new.msg \in Message
  BY <1>1 DEF Idle
<1>3. new \in Call
  <2>1. CASE \E p \in Paths : new = [Idle EXCEPT !.pc = "reserve", !.spawn = TRUE,
                                                 !.path = p, !.msg = "followup"]
    <3>1. PICK p \in Paths : new = [Idle EXCEPT !.pc = "reserve", !.spawn = TRUE,
                                                 !.path = p, !.msg = "followup"]
      BY <2>1
    <3> QED BY <3>1 DEF Idle, Call, Steps, Message
  <2>2. CASE \E t \in Threads, m \in Message :
               new = [Idle EXCEPT !.pc = "load", !.thread = t, !.msg = m]
    <3>1. PICK t \in Threads, m \in Message :
            new = [Idle EXCEPT !.pc = "load", !.thread = t, !.msg = m]
      BY <2>2
    <3> QED BY <3>1 DEF Idle, Call, Steps
  <2> QED BY <1>1, <2>1, <2>2
<1>4. OnlyCall(c) /\ call'[c] = new /\ call[c].pc = "idle"
  <2>1. call \in [Callers -> Call] /\ call' = [call EXCEPT ![c] = new] /\ call[c].pc = "idle"
    BY <1>i, <1>1 DEF Begin, TypeOK
  <2> QED BY <1>3, <2>1 DEF OnlyCall
<1>5. UNCHANGED <<registry, residency, sessions, cancels>> /\ ops' \in 0..MaxOps
  <2>1. ops \in 0..MaxOps /\ MaxOps \in Nat
    BY <1>i, AgentResidencyAssumption DEF TypeOK
  <2>2. Begin(c, new)
    BY <1>1
  <2>3. /\ UNCHANGED <<registry, residency, sessions, cancels>>
        /\ ops < MaxOps /\ ops' = ops + 1
    BY <2>2 DEF Begin
  <2>4. ops' \in 0..MaxOps
    BY <2>1, <2>3
  <2> QED BY <2>3, <2>4
<1>6. CallOK(c)'
  <2>1. new.thread # None => new.thread <= created'
    BY <1>2, <1>5, AgentResidencyAssumption DEF IInv, CallsInv, CreatedFirst, sessions
  <2> QED BY <1>2, <1>4, <2>1, AgentResidencyAssumption DEF CallOK, Message
<1>7. SessionsOK' /\ created' = created
  BY <1>i, <1>5 DEF TypeOK, SessionsOK, sessions
<1>8. ~call[c].slot /\ ~call[c].reserved /\ call[c].cand = None
  BY <1>i, <1>4 DEF CallOK
<1>9. LoadBound'
  BY <1>2, <1>4, <1>5, NoSlot DEF sessions
<1>10. created' >= created
  BY <1>7, <1>i DEF TypeOK
<1>11. residents' = residents /\ pending' = pending /\ loaded' = loaded /\ cancels' = cancels
  BY <1>5 DEF residency, sessions
<1>12. residents' \in Seq(Threads) /\ IsInjective(residents)'
  BY <1>i, <1>11 DEF IInv, TypeOK, Accounting
<1>13. Tracks(c)
  <2>1. \A t \in loaded' : t \in Threads /\ t # None
    BY <1>7, AgentResidencyAssumption DEF SessionsOK
  <2> QED BY <1>4, <1>8, <1>11, <2>1 DEF Tracks
<1>14. SlotCounted(c)
  BY <1>2, <1>4, <1>8, <1>11 DEF SlotCounted
<1> QED BY <1>14, <1>2, <1>4, <1>5, <1>6, <1>7, <1>8, <1>9, <1>10, <1>11, <1>12, <1>13, PlainStep

\* What every step of a call may use.
LEMMA CallFacts ==
    ASSUME IInv, NEW c \in Callers
    PROVE  /\ TypeOK /\ CallOK(c) /\ SpawnOK(c) /\ call[c] \in Call /\ call \in [Callers -> Call]
           /\ residents \in Seq(Threads) /\ IsInjective(residents)
           /\ SessionsOK /\ created \in Nat /\ ops \in 0..MaxOps /\ cancels \in Nat
           /\ \A t \in loaded : t \in Threads /\ t # None
<1>1. TypeOK /\ CallOK(c) /\ SpawnOK(c) /\ IsInjective(residents)
  BY DEF IInv, CallsInv, Accounting
<1>2. call \in [Callers -> Call] /\ residents \in Seq(Threads) /\ loaded \subseteq Threads
  BY <1>1 DEF TypeOK
<1>3. SessionsOK /\ created \in Nat /\ ops \in 0..MaxOps /\ cancels \in Nat
  BY <1>1 DEF TypeOK, SessionsOK
<1> QED BY <1>1, <1>2, <1>3, AgentResidencyAssumption

\* A call goes from one place to another and touches nothing else.
LEMMA MoveStep ==
    ASSUME IInv, NEW c \in Callers, OnlyCall(c), CallOK(c)',
           UNCHANGED <<registry, pending, created, bounds>>, loaded' \subseteq loaded, SessionsOK',
           residents' \in Seq(Threads), IsInjective(residents)', Tracks(c),
           ~call[c].slot, ~call'[c].slot, ~call[c].reserved, ~call'[c].reserved
    PROVE  IInv'
<1>f. TypeOK /\ created \in Nat /\ ops \in 0..MaxOps /\ CallOK(c)
  BY CallFacts
<1>1. ops' \in 0..MaxOps /\ cancels' = cancels /\ created' >= created
  BY <1>f DEF bounds
<1>2. call'[c].pc \notin {"prepare", "create", "commit"}
  BY DEF CallOK
<1>3. LoadBound'
  BY <1>1, <1>2, NoSlot
<1>4. SlotCounted(c)
  BY DEF SlotCounted
<1> QED BY <1>1, <1>2, <1>3, <1>4, PlainStep

\* touch_resident by a call that moves on.
LEMMA TouchTracks ==
    ASSUME IInv, NEW c \in Callers, NEW t \in Threads, Touch(t), loaded' \subseteq loaded,
           \A u \in loaded :
             call[c].cand = u \/ (call[c].thread = u /\ call[c].pc = "commit") => u = t
    PROVE  residents' \in Seq(Threads) /\ IsInjective(residents)' /\ Tracks(c)
<1>1. residents \in Seq(Threads) /\ IsInjective(residents)
  BY CallFacts
<1>2. /\ residents' \in Seq(Threads) /\ IsInjective(residents)'
      /\ Range(residents)' = Range(residents) \union {t}
  BY <1>1, TouchProps
<1> QED BY <1>2 DEF Tracks

\* The calls whose sessions stay as they are.
LEMMA SameSessions ==
    ASSUME IInv, UNCHANGED sessions
    PROVE  /\ SessionsOK' /\ loaded' = loaded /\ created' = created /\ created' >= created
           /\ created \in Nat
BY DEF IInv, TypeOK, SessionsOK, sessions

\* The call has what it had.
Keeps(c) ==
    /\ call'[c].spawn = call[c].spawn /\ call'[c].msg = call[c].msg
    /\ call'[c].path = call[c].path /\ call'[c].thread = call[c].thread
    /\ call'[c].slot = call[c].slot /\ call'[c].reserved = call[c].reserved

\* Only the program counter of the call moves.
LEMMA GotoProps ==
    ASSUME IInv, NEW c \in Callers, NEW pc \in Steps, Goto(c, pc)
    PROVE  OnlyCall(c) /\ Keeps(c) /\ call'[c].pc = pc /\ call'[c].cand = call[c].cand
<1>1. call \in [Callers -> Call] /\ call[c] \in Call
  BY CallFacts
<1>2. /\ call'[c] = [call[c] EXCEPT !.pc = pc]
      /\ \A d \in Callers \ {c} : call'[d] = call[d]
      /\ DOMAIN call' = Callers /\ call' = [d \in Callers |-> call'[d]]
  BY <1>1 DEF Goto
<1>3. [call[c] EXCEPT !.pc = pc] \in Call
  BY <1>1 DEF Call
<1> QED BY <1>1, <1>2, <1>3 DEF OnlyCall, Keeps, Call

LEMMA LoadStep ==
    ASSUME IInv, NEW c \in Callers, Load(c)
    PROVE  IInv'
<1>f. /\ TypeOK /\ CallOK(c) /\ call[c] \in Call /\ residents \in Seq(Threads)
      /\ IsInjective(residents) /\ \A t \in loaded : t \in Threads /\ t # None
  BY CallFacts
<1>s. SessionsOK' /\ loaded' = loaded /\ created' = created
  BY SameSessions DEF Load
<1>p. /\ call[c].pc = "load" /\ ~call[c].slot /\ ~call[c].reserved /\ call[c].cand = None
      /\ ~call[c].spawn
  BY <1>f DEF Load, CallOK
<1>1. CASE /\ call[c].thread \in loaded
           /\ Touch(call[c].thread) /\ Goto(c, "capacity")
           /\ UNCHANGED <<registry, pending, bounds>>
  <2>1. OnlyCall(c) /\ Keeps(c) /\ call'[c].pc = "capacity" /\ call'[c].cand = call[c].cand
    BY <1>1, GotoProps DEF Steps
  <2>2. CallOK(c)'
    BY <1>f, <1>s, <1>p, <2>1 DEF CallOK, Keeps
  <2>3. residents' \in Seq(Threads) /\ IsInjective(residents)' /\ Tracks(c)
    BY <1>f, <1>s, <1>p, <1>1, TouchTracks
  <2> QED BY <1>s, <1>p, <1>1, <2>1, <2>2, <2>3, MoveStep DEF Keeps
<1>2. CASE Goto(c, "reserve") /\ UNCHANGED <<registry, residency, bounds>>
  <2>1. OnlyCall(c) /\ Keeps(c) /\ call'[c].pc = "reserve" /\ call'[c].cand = call[c].cand
    BY <1>2, GotoProps DEF Steps
  <2>2. CallOK(c)'
    BY <1>f, <1>s, <1>p, <2>1 DEF CallOK, Keeps
  <2>3. residents' \in Seq(Threads) /\ IsInjective(residents)' /\ Tracks(c)
    BY <1>f, <1>s, <1>p, <1>2 DEF Tracks, residency
  <2> QED BY <1>s, <1>p, <1>2, <2>1, <2>2, <2>3, MoveStep DEF residency, Keeps
<1>3. CASE Return(c) /\ UNCHANGED residents
  BY <1>s, <1>p, <1>3, DropStep DEF Return, bounds
<1> QED BY <1>1, <1>2, <1>3 DEF Load

\* The call begins to look for a victim.
LEMMA SearchStep ==
    ASSUME IInv, NEW c \in Callers, call[c].pc = "reserve", NEW n \in Nat,
           call' = [call EXCEPT ![c].pc = "scan", ![c].left = n],
           UNCHANGED <<registry, pending, residents, sessions, bounds>>
    PROVE  IInv'
<1>f. /\ TypeOK /\ CallOK(c) /\ call[c] \in Call /\ call \in [Callers -> Call]
      /\ residents \in Seq(Threads) /\ IsInjective(residents)
      /\ \A t \in loaded : t \in Threads /\ t # None
  BY CallFacts
<1>s. SessionsOK' /\ loaded' = loaded /\ created' = created
  BY SameSessions
<1>p. ~call[c].slot /\ ~call[c].reserved /\ call[c].cand = None
  BY <1>f DEF CallOK
<1>1. /\ call'[c] = [call[c] EXCEPT !.pc = "scan", !.left = n]
      /\ \A d \in Callers \ {c} : call'[d] = call[d]
      /\ call' = [d \in Callers |-> call'[d]]
  BY <1>f
<1>2. [call[c] EXCEPT !.pc = "scan", !.left = n] \in Call
  BY <1>f DEF Call, Steps
<1>3. OnlyCall(c) /\ Keeps(c) /\ call'[c].pc = "scan" /\ call'[c].cand = call[c].cand
  BY <1>f, <1>1, <1>2 DEF OnlyCall, Keeps, Call
<1>4. CallOK(c)'
  BY <1>f, <1>s, <1>p, <1>3 DEF CallOK, Keeps
<1>5. residents' \in Seq(Threads) /\ IsInjective(residents)' /\ Tracks(c)
  BY <1>f, <1>s, <1>p DEF Tracks
<1> QED BY <1>s, <1>p, <1>3, <1>4, <1>5, MoveStep DEF Keeps

\* pop_lru_candidate: the oldest candidate exists and only it is cut out.
LEMMA OldestProps ==
    ASSUME residents \in Seq(Threads), NEW c \in Callers, Candidates(c) # {}
    PROVE  Oldest(c) \in 1..Len(residents) /\ residents[Oldest(c)] # call[c].thread
<1> DEFINE C == Candidates(c)
<1>1. C \subseteq 1..Len(residents) /\ C \in SUBSET Nat /\ C # {}
  BY DEF Candidates
<1>2. PICK i \in C : \A j \in C : i <= j
  <2>1. PICK R : R = OpToRel(<, Nat)
    OBVIOUS
  <2>2. IsWellFoundedOn(R, Nat)
    BY <2>1, NatLessThanWellFounded
  <2>3. \E x \in C : \A y \in C : ~(<<y, x>> \in R)
    BY <1>1, <2>2, WFMin
  <2>4. PICK x \in C : \A y \in C : ~(<<y, x>> \in R)
    BY <2>3
  <2>a. \A y, z \in Nat : y < z => <<y, z>> \in R
    <3>1. R = {ss \in Nat \X Nat : ss[1] < ss[2]}
      BY <2>1, Zenon DEF OpToRel
    <3> QED BY <3>1
  <2>5. ASSUME NEW y \in C PROVE x <= y
    <3>1. x \in Nat /\ y \in Nat
      BY <1>1
    <3>2. ~(y < x)
      BY <2>4, <2>a, <3>1, Zenon
    <3> QED BY <3>1, <3>2
  <2> QED BY <2>4, <2>5
<1>3. Oldest(c) \in Candidates(c)
  BY <1>2 DEF Oldest
<1> QED BY <1>1, <1>3 DEF Candidates

LEMMA ScanStep ==
    ASSUME IInv, NEW c \in Callers, Scan(c)
    PROVE  IInv'
<1>f. /\ TypeOK /\ CallOK(c) /\ call[c] \in Call /\ call \in [Callers -> Call]
      /\ residents \in Seq(Threads) /\ IsInjective(residents)
      /\ \A t \in loaded : t \in Threads /\ t # None
  BY CallFacts
<1>s. SessionsOK' /\ loaded' = loaded /\ created' = created
  BY SameSessions DEF Scan
<1>p. call[c].pc = "scan" /\ ~call[c].slot /\ ~call[c].reserved /\ call[c].cand = None
  BY <1>f DEF Scan, CallOK
<1>1. CASE Return(c) /\ UNCHANGED residents
  BY <1>s, <1>p, <1>1, DropStep DEF Return, bounds
<1>2. CASE call[c].left # 0 /\ Candidates(c) # {}
  <2> DEFINE i == Oldest(c)
  <2>1. i \in 1..Len(residents)
    BY <1>f, <1>2, OldestProps
  <2>2. /\ call' = [call EXCEPT ![c].cand = residents[i], ![c].pc = "check",
                               ![c].left = @ - 1]
        /\ residents' = Rotated(residents, i)
        /\ UNCHANGED <<registry, pending, bounds>>
    BY <1>2 DEF Scan, Rotated
  <2> HIDE DEF i
  <2>3. PICK x \in Threads : x = residents[i]
    BY <1>f, <2>1
  <2>4. call[c].left - 1 \in Nat
    BY <1>f, <1>2 DEF Call
  <2>5. /\ call'[c] = [call[c] EXCEPT !.cand = x, !.pc = "check", !.left = call[c].left - 1]
        /\ \A d \in Callers \ {c} : call'[d] = call[d]
        /\ call' = [d \in Callers |-> call'[d]]
    BY <1>f, <2>2, <2>3
  <2>6. [call[c] EXCEPT !.cand = x, !.pc = "check", !.left = call[c].left - 1] \in Call
    BY <1>f, <2>4 DEF Call, Steps
  <2>7. OnlyCall(c) /\ Keeps(c) /\ call'[c].pc = "check" /\ call'[c].cand = x
    <3>1. OnlyCall(c)
      BY <1>f, <2>5, <2>6 DEF OnlyCall
    <3> QED BY <1>f, <2>5, <3>1 DEF Keeps, Call
  <2>8. CallOK(c)'
    BY <1>f, <1>s, <1>p, <2>7, AgentResidencyAssumption DEF CallOK, Keeps
  <2>9. residents' \in Seq(Threads) /\ IsInjective(residents)' /\ Range(residents') = Range(residents) \ {x}
    <3>1. Rotated(residents, i) \in Seq(Threads)
      BY <1>f, <2>1, CutProps
    <3>2. IsInjective(Rotated(residents, i)) /\ Range(Rotated(residents, i)) = Range(residents) \ {residents[i]}
      BY <1>f, <2>1, CutInjective
    <3> QED BY <2>2, <2>3, <3>1, <3>2
  <2>10. Tracks(c)
    BY <1>f, <1>s, <1>p, <2>7, <2>9 DEF Tracks
  <2> QED BY <1>s, <1>p, <2>2, <2>7, <2>8, <2>9, <2>10, MoveStep DEF Keeps
<1> QED BY <1>1, <1>2 DEF Scan

LEMMA CheckStep ==
    ASSUME IInv, NEW c \in Callers, Check(c)
    PROVE  IInv'
<1>f. /\ TypeOK /\ CallOK(c) /\ call[c] \in Call /\ call \in [Callers -> Call]
      /\ residents \in Seq(Threads) /\ IsInjective(residents)
      /\ \A t \in loaded : t \in Threads /\ t # None
  BY CallFacts
<1>s. SessionsOK' /\ loaded' = loaded /\ created' = created
  BY SameSessions DEF Check
<1>p. /\ call[c].pc = "check" /\ ~call[c].slot /\ ~call[c].reserved /\ call[c].cand # None
      /\ call[c].cand \in Threads /\ UNCHANGED <<registry, pending, bounds>>
  BY <1>f DEF Check, CallOK, Call
<1>1. CASE /\ call' = [call EXCEPT ![c].pc = "scan", ![c].cand = None]
           /\ (call[c].cand \notin loaded /\ UNCHANGED residents) \/ Touch(call[c].cand)
  <2>1. /\ call'[c] = [call[c] EXCEPT !.pc = "scan", !.cand = None]
        /\ \A d \in Callers \ {c} : call'[d] = call[d]
        /\ call' = [d \in Callers |-> call'[d]]
    BY <1>f, <1>1
  <2>2. [call[c] EXCEPT !.pc = "scan", !.cand = None] \in Call
    BY <1>f DEF Call, Steps
  <2>3. OnlyCall(c) /\ Keeps(c) /\ call'[c].pc = "scan" /\ call'[c].cand = None
    <3>1. OnlyCall(c)
      BY <1>f, <2>1, <2>2 DEF OnlyCall
    <3> QED BY <1>f, <2>1, <3>1 DEF Keeps, Call
  <2>4. CallOK(c)'
    BY <1>f, <1>s, <1>p, <2>3 DEF CallOK, Keeps
  <2>5. CASE call[c].cand \notin loaded /\ UNCHANGED residents
    <3>1. residents' \in Seq(Threads) /\ IsInjective(residents)' /\ Tracks(c)
      BY <1>f, <1>s, <1>p, <2>5 DEF Tracks
    <3> QED BY <1>s, <1>p, <2>3, <2>4, <3>1, MoveStep DEF Keeps
  <2>6. CASE Touch(call[c].cand)
    <3>1. residents' \in Seq(Threads) /\ IsInjective(residents)' /\ Tracks(c)
      BY <1>s, <1>p, <2>6, TouchTracks
    <3> QED BY <1>s, <1>p, <2>3, <2>4, <3>1, MoveStep DEF Keeps
  <2> QED BY <1>1, <2>5, <2>6
<1>2. CASE /\ call' = [call EXCEPT ![c].pc = "shutdown", ![c].gen = gen[call[c].cand]]
           /\ UNCHANGED residents
  <2>1. PICK g \in Nat : g = gen[call[c].cand]
    BY <1>f, <1>p DEF TypeOK
  <2>2. /\ call'[c] = [call[c] EXCEPT !.pc = "shutdown", !.gen = g]
        /\ \A d \in Callers \ {c} : call'[d] = call[d]
        /\ call' = [d \in Callers |-> call'[d]]
    BY <1>f, <1>2, <2>1
  <2>3. [call[c] EXCEPT !.pc = "shutdown", !.gen = g] \in Call
    BY <1>f DEF Call, Steps
  <2>4. OnlyCall(c) /\ Keeps(c) /\ call'[c].pc = "shutdown" /\ call'[c].cand = call[c].cand
    <3>1. OnlyCall(c)
      BY <1>f, <2>2, <2>3 DEF OnlyCall
    <3> QED BY <1>f, <2>2, <3>1 DEF Keeps, Call
  <2>5. CallOK(c)'
    BY <1>f, <1>s, <1>p, <2>4 DEF CallOK, Keeps
  <2>6. residents' \in Seq(Threads) /\ IsInjective(residents)' /\ Tracks(c)
    BY <1>f, <1>s, <1>p, <1>2, <2>4 DEF Tracks
  <2> QED BY <1>s, <1>p, <2>4, <2>5, <2>6, MoveStep DEF Keeps
<1> QED BY <1>1, <1>2 DEF Check

LEMMA SubmitShutdownStep ==
    ASSUME IInv, NEW c \in Callers, SubmitShutdown(c)
    PROVE  IInv'
<1>f. /\ TypeOK /\ CallOK(c) /\ call[c] \in Call /\ call \in [Callers -> Call]
      /\ residents \in Seq(Threads) /\ IsInjective(residents) /\ SessionsOK
      /\ \A t \in loaded : t \in Threads /\ t # None
  BY CallFacts
<1>p. /\ call[c].pc = "shutdown" /\ ~call[c].slot /\ ~call[c].reserved
      /\ call[c].cand \in Threads /\ Goto(c, "await")
      /\ UNCHANGED <<registry, residents, pending, loaded, run, gen, mail, created, lost, bounds>>
  BY <1>f DEF SubmitShutdown, CallOK, Call, residency
<1>1. queue' \in [Threads -> Seq(Message \union {"shutdown"})]
  BY <1>f, <1>p DEF SubmitShutdown, SessionsOK
<1>2. SessionsOK'
  BY <1>f, <1>p, <1>1 DEF SessionsOK
<1>3. OnlyCall(c) /\ Keeps(c) /\ call'[c].pc = "await" /\ call'[c].cand = call[c].cand
  BY <1>p, GotoProps DEF Steps
<1>4. CallOK(c)'
  BY <1>f, <1>p, <1>3 DEF CallOK, Keeps
<1>5. residents' \in Seq(Threads) /\ IsInjective(residents)' /\ Tracks(c)
  BY <1>f, <1>p, <1>3 DEF Tracks
<1> QED BY <1>p, <1>2, <1>3, <1>4, <1>5, MoveStep DEF Keeps

\* The victim is unloaded, so nothing needs to track it any more.
LEMMA UnloadStep ==
    ASSUME IInv, NEW c \in Callers, Unload(c)
    PROVE  IInv'
<1>f. /\ TypeOK /\ CallOK(c) /\ call[c] \in Call /\ call \in [Callers -> Call]
      /\ residents \in Seq(Threads) /\ IsInjective(residents)
      /\ \A t \in loaded : t \in Threads /\ t # None
  BY CallFacts
<1>p. /\ call[c].pc = "await" /\ ~call[c].slot /\ ~call[c].reserved
      /\ call[c].cand \in Threads /\ RemoveThread(call[c].cand)
      /\ UNCHANGED <<registry, residents, pending, bounds>>
      /\ call' = [call EXCEPT ![c].pc = "reserve", ![c].cand = None, ![c].gen = 0, ![c].left = 0]
  BY <1>f DEF Unload, CallOK, Call, residency
<1>s. SessionsOK' /\ loaded' = loaded \ {call[c].cand} /\ created' = created
  BY <1>f, <1>p, SessionTypes DEF RemoveThread
<1>1. /\ call'[c] = [call[c] EXCEPT !.pc = "reserve", !.cand = None, !.gen = 0, !.left = 0]
      /\ \A d \in Callers \ {c} : call'[d] = call[d]
      /\ call' = [d \in Callers |-> call'[d]]
  BY <1>f, <1>p
<1>2. [call[c] EXCEPT !.pc = "reserve", !.cand = None, !.gen = 0, !.left = 0] \in Call
  BY <1>f DEF Call, Steps
<1>3. OnlyCall(c) /\ Keeps(c) /\ call'[c].pc = "reserve" /\ call'[c].cand = None
  <2>1. OnlyCall(c)
    BY <1>f, <1>1, <1>2 DEF OnlyCall
  <2> QED BY <1>f, <1>1, <2>1 DEF Keeps, Call
<1>4. CallOK(c)'
  BY <1>f, <1>s, <1>p, <1>3 DEF CallOK, Keeps
<1>5. residents' \in Seq(Threads) /\ IsInjective(residents)' /\ Tracks(c)
  BY <1>f, <1>s, <1>p DEF Tracks
<1> QED BY <1>s, <1>p, <1>3, <1>4, <1>5, MoveStep DEF Keeps

LEMMA CheckCapacityStep ==
    ASSUME IInv, NEW c \in Callers, CheckCapacity(c)
    PROVE  IInv'
<1>f. /\ TypeOK /\ CallOK(c) /\ call[c] \in Call /\ residents \in Seq(Threads)
      /\ IsInjective(residents) /\ \A t \in loaded : t \in Threads /\ t # None
  BY CallFacts
<1>s. SessionsOK' /\ loaded' = loaded /\ created' = created /\ UNCHANGED residents
  BY SameSessions DEF CheckCapacity
<1>p. /\ call[c].pc = "capacity" /\ ~call[c].slot /\ ~call[c].reserved /\ call[c].cand = None
      /\ ~call[c].spawn
  BY <1>f DEF CheckCapacity, CallOK
<1>1. CASE Goto(c, "submit") /\ UNCHANGED <<registry, pending, bounds>>
  <2>1. OnlyCall(c) /\ Keeps(c) /\ call'[c].pc = "submit" /\ call'[c].cand = call[c].cand
    BY <1>1, GotoProps DEF Steps
  <2>2. CallOK(c)'
    BY <1>f, <1>s, <1>p, <2>1 DEF CallOK, Keeps
  <2>3. residents' \in Seq(Threads) /\ IsInjective(residents)' /\ Tracks(c)
    BY <1>f, <1>s, <1>p DEF Tracks
  <2> QED BY <1>s, <1>p, <1>1, <2>1, <2>2, <2>3, MoveStep DEF Keeps
<1>2. CASE Return(c)
  BY <1>s, <1>p, <1>2, DropStep DEF Return, bounds
<1> QED BY <1>1, <1>2 DEF CheckCapacity

LEMMA SubmitStep ==
    ASSUME IInv, NEW c \in Callers, Submit(c)
    PROVE  IInv'
<1>f. /\ TypeOK /\ CallOK(c) /\ call[c] \in Call /\ residents \in Seq(Threads) /\ SessionsOK
      /\ IsInjective(residents) /\ \A t \in loaded : t \in Threads /\ t # None
  BY CallFacts
<1>p. /\ call[c].pc = "submit" /\ ~call[c].slot /\ ~call[c].reserved /\ call[c].cand = None
      /\ call[c].msg \in Message /\ UNCHANGED <<loaded, created>>
  BY <1>f DEF Submit, CallOK, sessions
<1>1. CASE Return(c) /\ UNCHANGED <<residents, sessions>>
  <2>1. SessionsOK'
    BY <1>1, SameSessions
  <2> QED BY <1>p, <1>1, <2>1, DropStep DEF Return, bounds
<1>2. CASE /\ call[c].thread \in loaded
           /\ queue' = [queue EXCEPT ![call[c].thread] = Append(@, call[c].msg)]
           /\ Return(c)
           /\ UNCHANGED <<residents, loaded, run, gen, mail, created, lost>>
  <2>1. PICK t \in Threads : t = call[c].thread
    BY <1>f, <1>2
  <2>2. queue[t] \in Seq(Message \union {"shutdown"})
    BY <1>f DEF SessionsOK
  <2>3. Append(queue[t], call[c].msg) \in Seq(Message \union {"shutdown"})
    BY <1>p, <2>2
  <2>4. queue' \in [Threads -> Seq(Message \union {"shutdown"})]
    BY <1>f, <1>2, <2>1, <2>3 DEF SessionsOK
  <2>5. SessionsOK'
    BY <1>f, <1>2, <2>4 DEF SessionsOK
  <2> QED BY <1>p, <1>2, <2>5, DropStep DEF Return, bounds
<1>3. CASE Goto(c, "died") /\ UNCHANGED <<registry, residency, sessions, bounds>>
  <2>1. OnlyCall(c) /\ Keeps(c) /\ call'[c].pc = "died" /\ call'[c].cand = call[c].cand
    BY <1>3, GotoProps DEF Steps
  <2>2. CallOK(c)' /\ SessionsOK'
    BY <1>f, <1>3, <1>p, <2>1, SameSessions DEF CallOK, Keeps
  <2>3. residents' \in Seq(Threads) /\ IsInjective(residents)' /\ Tracks(c)
    BY <1>f, <1>p, <1>3 DEF Tracks, residency
  <2> QED BY <1>p, <1>3, <2>1, <2>2, <2>3, MoveStep DEF Keeps, residency
<1> QED BY <1>1, <1>2, <1>3 DEF Submit

LEMMA CancelStep ==
    ASSUME IInv, NEW c \in Callers, Cancel(c)
    PROVE  IInv'
<1>1. SessionsOK' /\ UNCHANGED <<loaded, created>>
  BY SameSessions DEF Cancel, sessions
<1> QED BY <1>1, DropStep DEF Cancel
-----------------------------------------------------------------------------
(* Slots and the threads loaded *)

\* The image of a finite set is no larger.
LEMMA ImageCount ==
    ASSUME NEW S, IsFiniteSet(S), NEW f, DOMAIN f = S, f = [x \in S |-> f[x]],
           NEW T, T = {f[x] : x \in S}
    PROVE  /\ IsFiniteSet(T) /\ Cardinality(T) \in Nat /\ Cardinality(S) \in Nat
           /\ Cardinality(T) <= Cardinality(S)
<1>1. f \in Surjection(S, T)
  BY DEF Surjection
<1> QED BY <1>1, FS_Surjection, FS_CardinalityType

\* Subadditivity of the size of a union.
LEMMA UnionCount ==
    ASSUME NEW A, IsFiniteSet(A), NEW B, IsFiniteSet(B)
    PROVE  /\ IsFiniteSet(A \union B) /\ Cardinality(A \union B) \in Nat
           /\ Cardinality(A) \in Nat /\ Cardinality(B) \in Nat
           /\ Cardinality(A \union B) <= Cardinality(A) + Cardinality(B)
           /\ A \intersect B = {} => Cardinality(A \union B) = Cardinality(A) + Cardinality(B)
<1>1. /\ IsFiniteSet(A \union B)
      /\ Cardinality(A \union B) = Cardinality(A) + Cardinality(B) - Cardinality(A \intersect B)
  BY FS_Union
<1>2. IsFiniteSet(A \intersect B)
  BY FS_Subset
<1>3. /\ Cardinality(A \union B) \in Nat /\ Cardinality(A) \in Nat /\ Cardinality(B) \in Nat
      /\ Cardinality(A \intersect B) \in Nat
  BY <1>1, <1>2, FS_CardinalityType
<1>4. A \intersect B = {} => Cardinality(A \intersect B) = 0
  BY FS_EmptySet
<1> QED BY <1>1, <1>3, <1>4

Committing == {c \in Callers : call[c].pc = "commit"}

\* Every loaded thread is on the list, with a call that evicts or commits, or lost.
LEMMA LoadedCount ==
    ASSUME IInv
    PROVE  /\ Cardinality(loaded) \in Nat /\ Cardinality(Evicting) \in Nat
           /\ Cardinality(Committing) \in Nat /\ Cardinality(Untracked) \in Nat
           /\ Cardinality(loaded) <= Len(residents) + Cardinality(Evicting)
                                       + Cardinality(Committing) + Cardinality(Untracked)
<1>i. TypeOK /\ residents \in Seq(Threads) /\ loaded \subseteq Threads
      /\ Len(residents) \in Nat
  BY DEF IInv, TypeOK
<1>c. \A c \in Callers : CallOK(c)
  BY DEF IInv, CallsInv
<1> DEFINE V == {call[c].cand : c \in Evicting}
           W == {call[c].thread : c \in Committing}
<1>1. IsFiniteSet(Evicting) /\ IsFiniteSet(Committing)
  BY ThreadsFinite, FS_Subset DEF Evicting, Committing
<1>2. /\ IsFiniteSet(V) /\ Cardinality(V) \in Nat /\ Cardinality(Evicting) \in Nat
      /\ Cardinality(V) <= Cardinality(Evicting)
  <2> DEFINE f == [c \in Evicting |-> call[c].cand]
  <2>1. DOMAIN f = Evicting /\ f = [c \in Evicting |-> f[c]] /\ V = {f[c] : c \in Evicting}
    OBVIOUS
  <2> HIDE DEF f, V
  <2> QED BY <1>1, <2>1, ImageCount
<1>3. /\ IsFiniteSet(W) /\ Cardinality(W) \in Nat /\ Cardinality(Committing) \in Nat
      /\ Cardinality(W) <= Cardinality(Committing)
  <2> DEFINE f == [c \in Committing |-> call[c].thread]
  <2>1. DOMAIN f = Committing /\ f = [c \in Committing |-> f[c]] /\ W = {f[c] : c \in Committing}
    OBVIOUS
  <2> HIDE DEF f, W
  <2> QED BY <1>1, <2>1, ImageCount
<1>4. /\ IsFiniteSet(Range(residents)) /\ Cardinality(Range(residents)) \in Nat
      /\ Cardinality(Range(residents)) <= Len(residents)
  BY <1>i, RangeCount, FS_CardinalityType
<1>5. IsFiniteSet(Untracked) /\ Cardinality(Untracked) \in Nat /\ Cardinality(loaded) \in Nat
  BY <1>i, ThreadsFinite, FS_Subset, FS_CardinalityType DEF Untracked
<1>6. loaded \subseteq (Range(residents) \union V) \union (W \union Untracked)
  <2> SUFFICES ASSUME NEW t \in loaded, t \notin Range(residents), t \notin Untracked
               PROVE  t \in V \/ t \in W
    OBVIOUS
  <2>1. PICK c \in Callers : call[c].cand = t \/ (call[c].thread = t /\ call[c].pc = "commit")
    BY DEF Untracked, Holders
  <2>2. t # None
    BY <1>i, AgentResidencyAssumption
  <2> QED BY <1>c, <2>1, <2>2 DEF CallOK, Evicting, Committing
<1> HIDE DEF V, W
<1>7. /\ IsFiniteSet(Range(residents) \union V) /\ Cardinality(Range(residents) \union V) \in Nat
      /\ Cardinality(Range(residents) \union V) <= Cardinality(Range(residents)) + Cardinality(V)
  BY <1>2, <1>4, UnionCount
<1>8. /\ IsFiniteSet(W \union Untracked) /\ Cardinality(W \union Untracked) \in Nat
      /\ Cardinality(W \union Untracked) <= Cardinality(W) + Cardinality(Untracked)
  BY <1>3, <1>5, UnionCount
<1> DEFINE U == (Range(residents) \union V) \union (W \union Untracked)
<1>9. /\ IsFiniteSet(U) /\ Cardinality(U) \in Nat
      /\ Cardinality(U) <= Cardinality(Range(residents) \union V) + Cardinality(W \union Untracked)
  BY <1>7, <1>8, UnionCount
<1>10. Cardinality(loaded) <= Cardinality(U)
  BY <1>6, <1>9, FS_Subset
<1> HIDE DEF U
<1> QED BY <1>i, <1>2, <1>3, <1>4, <1>5, <1>7, <1>8, <1>9, <1>10

\* try_reserve_pending_slot finds a slot: what is loaded and what may be loaded still
\* stay within the bound, because the call itself holds no victim.
LEMMA SlotTaken ==
    ASSUME IInv, NEW c \in Callers, call[c].pc = "reserve", SlotFree, OnlyCall(c),
           call'[c].pc \in {"prepare", "create"}, UNCHANGED <<loaded, cancels>>
    PROVE  LoadBound'
<1>1. /\ Cardinality(loaded) \in Nat /\ Cardinality(Evicting) \in Nat
      /\ Cardinality(Committing) \in Nat /\ Cardinality(Untracked) \in Nat
      /\ Cardinality(loaded) <= Len(residents) + Cardinality(Evicting)
                                  + Cardinality(Committing) + Cardinality(Untracked)
  BY LoadedCount
<1>2. /\ Cardinality(Creating) \in Nat
      /\ pending = Cardinality(Creating) + Cardinality(Committing)
  <2>1. Slots = Creating \union Committing /\ Creating \intersect Committing = {}
    BY DEF IInv, CallsInv, CallOK, Slots, Creating, Committing
  <2>2. IsFiniteSet(Creating) /\ IsFiniteSet(Committing)
    BY ThreadsFinite, FS_Subset DEF Creating, Committing
  <2>3. pending = Cardinality(Slots)
    BY AccountingSets DEF IInv
  <2> QED BY <2>1, <2>2, <2>3, UnionCount
<1>3. Cardinality(Creating') = Cardinality(Creating) + 1
  <2>1. /\ Creating \in SUBSET Callers /\ Creating' \in SUBSET Callers
        /\ Creating \ {c} = Creating' \ {c} /\ c \notin Creating /\ c \in Creating'
    BY DEF Creating, OnlyCall
  <2> QED BY <2>1, CountStep, ThreadsFinite
<1>4. Cardinality(Evicting) <= Cardinality(Callers) - 1 /\ Cardinality(Callers) \in Nat
  <2>1. Evicting \subseteq Callers \ {c}
    BY DEF Evicting
  <2>2. IsFiniteSet(Callers \ {c}) /\ Cardinality(Callers \ {c}) = Cardinality(Callers) - 1
    BY ThreadsFinite, FS_RemoveElement
  <2> QED BY <2>1, <2>2, FS_Subset, FS_CardinalityType, ThreadsFinite
<1>5. Cardinality(Untracked) <= cancels /\ cancels \in Nat /\ Len(residents) \in Nat
        /\ Capacity \in Nat
  BY AgentResidencyAssumption DEF IInv, LeaksAreCancels, TypeOK
<1>6. Len(residents) + pending < Capacity
  BY DEF SlotFree
<1>7. Cardinality(loaded) + (Cardinality(Creating) + 1)
        <= Capacity + Cardinality(Callers) - 1 + cancels
  <2>1. \A l, r, e, m, u, k, n, x, p \in Nat :
          (/\ l <= r + e + m + u /\ p = k + m /\ e <= n - 1 /\ u <= x
           /\ r + p < Capacity) => l + (k + 1) <= Capacity + n - 1 + x
    BY <1>5
  <2>2. pending \in Nat
    BY <1>1, <1>2
  <2>3. /\ Cardinality(loaded) \in Nat /\ Len(residents) \in Nat /\ Cardinality(Evicting) \in Nat
        /\ Cardinality(Committing) \in Nat /\ Cardinality(Untracked) \in Nat
        /\ Cardinality(Creating) \in Nat /\ Cardinality(Callers) \in Nat /\ cancels \in Nat
    BY <1>1, <1>2, <1>4, <1>5
  <2> QED BY <1>1, <1>2, <1>4, <1>5, <1>6, <2>1, <2>2, <2>3, Zenon
<1> QED BY <1>3, <1>7 DEF LoadBound

LEMMA ReserveStep ==
    ASSUME IInv, NEW c \in Callers, Reserve(c)
    PROVE  IInv'
<1>f. /\ TypeOK /\ CallOK(c) /\ call[c] \in Call /\ call \in [Callers -> Call]
      /\ residents \in Seq(Threads) /\ IsInjective(residents) /\ ops \in 0..MaxOps
      /\ \A t \in loaded : t \in Threads /\ t # None
  BY CallFacts
<1>s. SessionsOK' /\ loaded' = loaded /\ created' = created /\ created' >= created
  BY SameSessions DEF Reserve
<1>p. /\ call[c].pc = "reserve" /\ ~call[c].slot /\ ~call[c].reserved /\ call[c].cand = None
      /\ UNCHANGED <<registry, residents, sessions, bounds>>
  BY <1>f DEF Reserve, CallOK
<1>1. CASE ~SlotFree
  <2>1. Len(residents) \in Nat
    BY <1>f
  <2> QED BY <1>1, <1>p, <2>1, SearchStep DEF Reserve
<1>2. CASE SlotFree
  <2> DEFINE p == IF call[c].spawn THEN "prepare" ELSE "create"
  <2>0. p \in Steps /\ p \in {"prepare", "create"} /\ (p = "prepare" <=> call[c].spawn)
    BY <1>f DEF Steps, Call
  <2>1. /\ pending' = pending + 1
        /\ call' = [call EXCEPT ![c].slot = TRUE, ![c].pc = p]
    BY <1>2 DEF Reserve
  <2> HIDE DEF p
  <2>2. /\ call'[c] = [call[c] EXCEPT !.slot = TRUE, !.pc = p]
        /\ \A d \in Callers \ {c} : call'[d] = call[d]
        /\ call' = [d \in Callers |-> call'[d]]
    BY <1>f, <2>1
  <2>3. [call[c] EXCEPT !.slot = TRUE, !.pc = p] \in Call
    BY <1>f, <2>0 DEF Call
  <2>4. OnlyCall(c)
    BY <1>f, <2>2, <2>3 DEF OnlyCall
  <2>5. /\ call'[c].pc = p /\ call'[c].slot = TRUE /\ call'[c].spawn = call[c].spawn
        /\ call'[c].msg = call[c].msg /\ call'[c].path = call[c].path
        /\ call'[c].thread = call[c].thread /\ call'[c].reserved = call[c].reserved
        /\ call'[c].cand = call[c].cand
    BY <1>f, <2>2 DEF Call
  <2>6. CallOK(c)'
    BY <1>f, <1>s, <1>p, <2>0, <2>5 DEF CallOK
  <2>7. LoadBound'
    BY <1>s, <1>p, <1>2, <2>0, <2>4, <2>5, SlotTaken DEF bounds
  <2>8. residents' \in Seq(Threads) /\ IsInjective(residents)' /\ Tracks(c)
    BY <1>f, <1>s, <1>p DEF Tracks
  <2>9. SlotCounted(c) /\ ops' \in 0..MaxOps /\ cancels' = cancels
    BY <1>f, <1>p, <2>1, <2>5 DEF SlotCounted, bounds
  <2>10. call'[c].pc # "commit"
    BY <2>0, <2>5
  <2> QED BY <1>s, <1>p, <2>4, <2>5, <2>6, <2>7, <2>8, <2>9, <2>10, PlainStep
<1> QED BY <1>1, <1>2
-----------------------------------------------------------------------------
(* Creating the thread and committing the reservations *)

\* What a step needs that changes the registry.
LEMMA RegistryStep ==
    ASSUME IInv, NEW c \in Callers, OnlyCall(c), CallsInv',
           tree' \in [Paths -> {Free, Reserved} \union Threads],
           pathOf' \in [Threads -> Paths \union {None}],
           total' = Cardinality(Registrations') + Cardinality(Reservations'),
           SessionsOK', loaded' \subseteq loaded, created' >= created,
           residents' \in Seq(Threads), IsInjective(residents)', Tracks(c),
           SlotCounted(c), UNCHANGED bounds,
           call'[c].pc \in {"prepare", "create"} => call[c].pc \in {"prepare", "create"}
    PROVE  IInv'
<1>i. TypeOK /\ Accounting
  BY DEF IInv
<1>1. pending = Cardinality(Slots)
  BY <1>i, AccountingSets
<1>2. pending' = Cardinality(Slots') /\ pending' \in Nat
  BY <1>i, <1>1, SlotStep DEF TypeOK, SlotCounted
<1>3. total' \in Nat
  <2>1. Cardinality(Registrations') \in Nat
    BY ThreadsFinite, SubsetCount DEF Registrations
  <2>2. Cardinality(Reservations') \in Nat
    BY ThreadsFinite, SubsetCount DEF Reservations
  <2> QED BY <2>1, <2>2
<1>4. Accounting'
  BY <1>2 DEF Accounting, Registrations, Reservations, Slots
<1>5. LeaksAreCancels'
  BY TrackFrame, LeakFrame DEF SessionsOK, bounds
<1>6. LoadBound'
  BY NoSlot DEF bounds
<1>7. TypeOK'
  BY <1>i, <1>2, <1>3 DEF TypeOK, SessionsOK, OnlyCall, bounds
<1> QED BY <1>4, <1>5, <1>6, <1>7 DEF IInv

\* reserve_agent_path of a free path.
LEMMA ReservePathStep ==
    ASSUME IInv, NEW c \in Callers, Prepare(c), tree[call[c].path] = Free
    PROVE  IInv'
<1>f. /\ TypeOK /\ CallOK(c) /\ call[c] \in Call /\ call \in [Callers -> Call]
      /\ residents \in Seq(Threads) /\ IsInjective(residents)
      /\ \A t \in loaded : t \in Threads /\ t # None
  BY CallFacts
<1>s. SessionsOK' /\ loaded' = loaded /\ created' = created /\ created' >= created
  BY SameSessions DEF Prepare
<1>p. /\ call[c].pc = "prepare" /\ call[c].slot /\ ~call[c].reserved /\ call[c].cand = None
      /\ call[c].spawn /\ call[c].path \in Paths /\ call[c].msg \in Message
      /\ call[c].thread = None
  BY <1>f DEF Prepare, CallOK
<1>n. /\ total' = total + 1 /\ tree' = [tree EXCEPT ![call[c].path] = Reserved]
      /\ call' = [call EXCEPT ![c].reserved = TRUE, ![c].pc = "create"]
      /\ UNCHANGED <<pathOf, pending, bounds, residents>>
  BY DEF Prepare
<1>t. tree \in [Paths -> {Free, Reserved} \union Threads] /\ tree' \in [Paths -> {Free, Reserved} \union Threads]
  BY <1>f, <1>n DEF TypeOK
<1>1. /\ call'[c] = [call[c] EXCEPT !.reserved = TRUE, !.pc = "create"]
      /\ \A d \in Callers \ {c} : call'[d] = call[d]
      /\ call' = [d \in Callers |-> call'[d]]
  BY <1>f, <1>n
<1>2. [call[c] EXCEPT !.reserved = TRUE, !.pc = "create"] \in Call
  BY <1>f DEF Call, Steps
<1>3. OnlyCall(c)
  BY <1>f, <1>1, <1>2 DEF OnlyCall
<1>4. /\ call'[c].pc = "create" /\ call'[c].slot = call[c].slot /\ call'[c].spawn = call[c].spawn
      /\ call'[c].msg = call[c].msg /\ call'[c].path = call[c].path
      /\ call'[c].thread = call[c].thread /\ call'[c].reserved = TRUE
      /\ call'[c].cand = call[c].cand
  BY <1>f, <1>1 DEF Call
<1>o. \A d \in Callers \ {c} : call'[d] = call[d]
  BY <1>1
<1> HIDE DEF OnlyCall
<1>5. CallsInv'
  <2>0. CallsInv
    BY DEF IInv
  <2>1. CallOK(c)'
    BY <1>p, <1>4 DEF CallOK
  <2>2. ASSUME NEW d \in Callers \ {c} PROVE CallOK(d)'
    BY <1>o, <1>s, <2>0 DEF CallsInv, CallOK
  <2>3. SpawnOK(c)'
    BY <1>p, <1>n, <1>t, <1>4 DEF SpawnOK
  <2>4. ASSUME NEW d \in Callers \ {c} PROVE SpawnOK(d)'
    <3>1. call'[d] = call[d] /\ SpawnOK(d) /\ CallOK(d)
      BY <1>o, <2>0 DEF CallsInv
    <3>2. call[d].reserved => call[d].path \in Paths
      BY <3>1 DEF CallOK
    <3> QED BY <1>n, <1>t, <1>p, <3>1, <3>2 DEF SpawnOK
  <2>5. ASSUME NEW d \in Callers \ {c}, call[d].reserved PROVE call[d].path # call[c].path
    <3>1. tree[call[d].path] = Reserved
      BY <2>0, <2>5 DEF CallsInv, SpawnOK
    <3> QED BY <3>1, AgentResidencyAssumption
  <2>6. SpawnsApart'
    BY <2>0, <1>o, <1>4, <2>5 DEF CallsInv, SpawnsApart
  <2>7. ReservedIsHeld'
    <3> SUFFICES ASSUME NEW p \in Paths, tree'[p] = Reserved
                 PROVE  \E d \in Callers : call'[d].reserved /\ call'[d].path = p
      BY DEF ReservedIsHeld
    <3>1. CASE p = call[c].path
      BY <1>4, <3>1
    <3>2. CASE p # call[c].path
      <4>1. tree[p] = Reserved
        BY <1>n, <1>t, <1>p, <3>2
      <4>2. PICK d \in Callers : call[d].reserved /\ call[d].path = p
        BY <2>0, <4>1 DEF CallsInv, ReservedIsHeld
      <4>3. d # c
        BY <1>p, <4>2
      <4> QED BY <1>o, <4>2, <4>3
    <3> QED BY <3>1, <3>2
  <2>8. TreeIsIndex'
    <3> SUFFICES ASSUME NEW p \in Paths, NEW t \in Threads PROVE tree'[p] = t <=> pathOf'[t] = p
      BY DEF TreeIsIndex
    <3>1. tree[p] = t <=> pathOf[t] = p
      BY <2>0 DEF CallsInv, TreeIsIndex
    <3>2. Free # t /\ Reserved # t
      BY AgentResidencyAssumption
    <3> QED BY <1>n, <1>t, <1>p, <3>1, <3>2
  <2>9. CreatedFirst'
    BY <2>0, <1>n, <1>s DEF CallsInv, CreatedFirst, Registered
  <2> QED BY <2>1, <2>2, <2>3, <2>4, <2>6, <2>7, <2>8, <2>9 DEF CallsInv
<1>6. total' = Cardinality(Registrations') + Cardinality(Reservations')
  <2>1. total = Cardinality(Registrations) + Cardinality(Reservations)
    BY AccountingSets DEF IInv
  <2>2. Registrations' = Registrations
    BY <1>n DEF Registrations, Registered
  <2>3. Cardinality(Reservations') = Cardinality(Reservations) + 1 /\ Cardinality(Reservations) \in Nat
    BY <1>p, <1>3, <1>4, ReservationStep
  <2>4. Cardinality(Registrations) \in Nat
    BY ThreadsFinite, SubsetCount DEF Registrations
  <2> QED BY <1>n, <2>1, <2>2, <2>3, <2>4
<1>7. Tracks(c) /\ SlotCounted(c)
  BY <1>f, <1>s, <1>n, <1>p, <1>4 DEF Tracks, SlotCounted
<1>8. residents' \in Seq(Threads) /\ IsInjective(residents)' /\ pathOf' \in [Threads -> Paths \union {None}]
  BY <1>f, <1>n DEF TypeOK
<1> QED BY <1>s, <1>n, <1>p, <1>t, <1>3, <1>4, <1>5, <1>6, <1>7, <1>8, RegistryStep

LEMMA PrepareStep ==
    ASSUME IInv, NEW c \in Callers, Prepare(c)
    PROVE  IInv'
<1>1. CASE tree[call[c].path] = Free
  BY <1>1, ReservePathStep
<1>2. CASE Return(c)
  <2>1. SessionsOK' /\ loaded' = loaded /\ created' = created
    BY SameSessions DEF Prepare
  <2> QED BY <1>2, <2>1, DropStep DEF Prepare, Return, bounds
<1> QED BY <1>1, <1>2 DEF Prepare

LEMMA CreateStep ==
    ASSUME IInv, NEW c \in Callers, Create(c)
    PROVE  IInv'
<1>f. /\ TypeOK /\ CallOK(c) /\ call[c] \in Call /\ call \in [Callers -> Call]
      /\ residents \in Seq(Threads) /\ IsInjective(residents) /\ created \in Nat
      /\ ops \in 0..MaxOps /\ \A t \in loaded : t \in Threads /\ t # None
  BY CallFacts
<1>p. /\ call[c].pc = "create" /\ call[c].slot /\ call[c].cand = None /\ call[c].msg \in Message
      /\ call[c].reserved = call[c].spawn /\ (call[c].spawn => call[c].path \in Paths)
      /\ (call[c].thread # None => call[c].thread <= created)
  BY <1>f DEF Create, CallOK, Call
<1>1. PICK t \in Threads \ loaded :
        /\ t = IF call[c].spawn THEN created + 1 ELSE call[c].thread
        /\ StartThread(t)
        /\ call' = [call EXCEPT ![c].thread = t, ![c].pc = "commit"]
  BY DEF Create
<1>u. UNCHANGED <<registry, residents, pending, ops, cancels>>
  BY DEF Create, residency, bounds
<1>s. SessionsOK' /\ loaded' = loaded \union {t} /\ t \in Nat /\ t # None
  <2>1. SessionsOK'
    BY <1>f, <1>1, SessionTypes
  <2>2. loaded' = loaded \union {t}
    BY <1>1 DEF StartThread
  <2> QED BY <2>1, <2>2, AgentResidencyAssumption DEF Threads
<1>g. created' \in Nat /\ created' >= created /\ t <= created'
  BY <1>f, <1>1, <1>s DEF StartThread
<1>2. /\ call'[c] = [call[c] EXCEPT !.thread = t, !.pc = "commit"]
      /\ \A d \in Callers \ {c} : call'[d] = call[d]
      /\ call' = [d \in Callers |-> call'[d]]
  BY <1>f, <1>1
<1>3. [call[c] EXCEPT !.thread = t, !.pc = "commit"] \in Call
  BY <1>f DEF Call, Steps
<1>4. OnlyCall(c)
  BY <1>f, <1>2, <1>3 DEF OnlyCall
<1>5. /\ call'[c].pc = "commit" /\ call'[c].slot = call[c].slot /\ call'[c].spawn = call[c].spawn
      /\ call'[c].msg = call[c].msg /\ call'[c].path = call[c].path
      /\ call'[c].thread = t /\ call'[c].reserved = call[c].reserved
      /\ call'[c].cand = call[c].cand
  BY <1>f, <1>2 DEF Call
<1>6. CallOK(c)'
  BY <1>p, <1>s, <1>g, <1>5 DEF CallOK
<1>7. (call'[c].spawn /\ call'[c].pc = "commit") => call'[c].thread \in Threads /\ call'[c].thread > created
  BY <1>f, <1>1, <1>5
<1>8. Tracks(c) /\ SlotCounted(c)
  BY <1>f, <1>u, <1>s, <1>p, <1>5 DEF Tracks, SlotCounted
<1>9. LoadBound'
  <2>1. Cardinality(loaded') = Cardinality(loaded) + 1 /\ Cardinality(loaded) \in Nat
    <3>1. loaded \in SUBSET Threads /\ loaded' \in SUBSET Threads /\ loaded \ {t} = loaded' \ {t}
            /\ t \notin loaded /\ t \in loaded'
      BY <1>f, <1>s
    <3> QED BY <3>1, CountStep, ThreadsFinite
  <2>2. Cardinality(Creating') = Cardinality(Creating) - 1 /\ Cardinality(Creating) \in Nat
    <3>1. Creating \in SUBSET Callers /\ Creating' \in SUBSET Callers
            /\ Creating \ {c} = Creating' \ {c} /\ c \in Creating /\ c \notin Creating'
      BY <1>p, <1>4, <1>5 DEF Creating, OnlyCall
    <3> QED BY <3>1, CountStep, ThreadsFinite
  <2>3. Cardinality(loaded') + Cardinality(Creating') = Cardinality(loaded) + Cardinality(Creating)
    BY <2>1, <2>2
  <2> QED BY <1>u, <2>3 DEF IInv, LoadBound
<1>10. residents' \in Seq(Threads) /\ IsInjective(residents)' /\ ops' \in 0..MaxOps
  BY <1>f, <1>u
<1> QED BY <1>u, <1>s, <1>g, <1>4, <1>5, <1>6, <1>7, <1>8, <1>9, <1>10, PlainStep

LEMMA CreateFailsStep ==
    ASSUME IInv, NEW c \in Callers, CreateFails(c)
    PROVE  IInv'
<1>f. /\ TypeOK /\ CallOK(c) /\ call[c] \in Call /\ call \in [Callers -> Call]
      /\ residents \in Seq(Threads) /\ IsInjective(residents) /\ ops \in 0..MaxOps
      /\ \A t \in loaded : t \in Threads /\ t # None
  BY CallFacts
<1>s. SessionsOK' /\ loaded' = loaded /\ created' = created /\ created' >= created
  BY SameSessions DEF CreateFails
<1>p. call[c].pc = "create" /\ call[c].slot /\ call[c].cand = None /\ call[c].msg \in Message
  BY <1>f DEF CreateFails, CallOK
<1>1. CASE call[c].thread \in loaded
  <2>1. /\ pending' = pending - 1 /\ Touch(call[c].thread)
        /\ call' = [call EXCEPT ![c].slot = FALSE, ![c].pc = "capacity"]
        /\ UNCHANGED <<registry, bounds>>
    BY <1>1 DEF CreateFails
  <2>p. /\ call[c].thread \in Threads /\ call[c].thread # None
        /\ ~call[c].spawn /\ ~call[c].reserved
    BY <1>f, <1>p, <1>1 DEF CallOK
  <2>2. /\ call'[c] = [call[c] EXCEPT !.slot = FALSE, !.pc = "capacity"]
        /\ \A d \in Callers \ {c} : call'[d] = call[d]
        /\ call' = [d \in Callers |-> call'[d]]
    BY <1>f, <2>1
  <2>3. [call[c] EXCEPT !.slot = FALSE, !.pc = "capacity"] \in Call
    BY <1>f DEF Call, Steps
  <2>4. OnlyCall(c)
    BY <1>f, <2>2, <2>3 DEF OnlyCall
  <2>5. /\ call'[c].pc = "capacity" /\ call'[c].slot = FALSE /\ call'[c].spawn = call[c].spawn
        /\ call'[c].msg = call[c].msg /\ call'[c].path = call[c].path
        /\ call'[c].thread = call[c].thread /\ call'[c].reserved = call[c].reserved
        /\ call'[c].cand = call[c].cand
    BY <1>f, <2>2 DEF Call
  <2>6. CallOK(c)'
    BY <1>f, <1>s, <1>p, <2>p, <2>5 DEF CallOK
  <2>7. residents' \in Seq(Threads) /\ IsInjective(residents)' /\ Tracks(c)
    BY <1>f, <1>s, <1>p, <2>1, <2>p, TouchTracks
  <2>8. LoadBound'
    BY <1>s, <2>1, <2>4, <2>5, NoSlot DEF bounds
  <2>9. SlotCounted(c) /\ ops' \in 0..MaxOps /\ cancels' = cancels
    BY <1>f, <1>p, <2>1, <2>5 DEF SlotCounted, bounds
  <2> QED BY <1>s, <2>1, <2>p, <2>4, <2>5, <2>6, <2>7, <2>8, <2>9, PlainStep
<1>2. CASE call[c].thread \notin loaded
  BY <1>s, <1>p, <1>2, DropStep DEF CreateFails, Return, bounds
<1> QED BY <1>1, <1>2

\* SpawnReservation::commit turns the reservation into a registration.
LEMMA CommitSpawnStep ==
    ASSUME IInv, NEW c \in Callers, Commit(c), call[c].spawn
    PROVE  IInv'
<1>f. /\ TypeOK /\ CallOK(c) /\ SpawnOK(c) /\ call[c] \in Call /\ call \in [Callers -> Call]
      /\ residents \in Seq(Threads) /\ IsInjective(residents)
      /\ \A t \in loaded : t \in Threads /\ t # None
  BY CallFacts
<1>s. SessionsOK' /\ loaded' = loaded /\ created' = created /\ created' >= created
  BY SameSessions DEF Commit
<1>1. PICK t \in Threads, p \in Paths : t = call[c].thread /\ p = call[c].path
  BY <1>f DEF Commit, CallOK, Call
<1>p. /\ call[c].pc = "commit" /\ call[c].slot /\ call[c].reserved /\ call[c].cand = None
      /\ call[c].msg \in Message /\ t <= created /\ t # None
      /\ tree[p] = Reserved /\ pathOf[t] = None
  BY <1>f, <1>1, AgentResidencyAssumption DEF Commit, CallOK, SpawnOK
<1>n. /\ pending' = pending - 1 /\ Touch(t) /\ total' = total
      /\ tree' = [tree EXCEPT ![p] = t] /\ pathOf' = [pathOf EXCEPT ![t] = p]
      /\ call' = [call EXCEPT ![c].slot = FALSE, ![c].reserved = FALSE, ![c].pc = "submit"]
      /\ UNCHANGED bounds
  BY <1>1 DEF Commit
<1>t. /\ tree \in [Paths -> {Free, Reserved} \union Threads]
      /\ tree' \in [Paths -> {Free, Reserved} \union Threads]
      /\ pathOf \in [Threads -> Paths \union {None}]
      /\ pathOf' \in [Threads -> Paths \union {None}]
  BY <1>f, <1>n DEF TypeOK
<1>a. p # None /\ Free # Reserved /\ \A u \in Threads : u # Free /\ u # Reserved
  BY AgentResidencyAssumption
<1>2. /\ call'[c] = [call[c] EXCEPT !.slot = FALSE, !.reserved = FALSE, !.pc = "submit"]
      /\ \A d \in Callers \ {c} : call'[d] = call[d]
      /\ call' = [d \in Callers |-> call'[d]]
  BY <1>f, <1>n
<1>3. [call[c] EXCEPT !.slot = FALSE, !.reserved = FALSE, !.pc = "submit"] \in Call
  BY <1>f DEF Call, Steps
<1>4. OnlyCall(c)
  BY <1>f, <1>2, <1>3 DEF OnlyCall
<1>5. /\ call'[c].pc = "submit" /\ call'[c].slot = FALSE /\ call'[c].spawn
      /\ call'[c].msg = call[c].msg /\ call'[c].path = call[c].path
      /\ call'[c].thread = call[c].thread /\ call'[c].reserved = FALSE
      /\ call'[c].cand = call[c].cand
  BY <1>f, <1>2 DEF Call
<1>o. \A d \in Callers \ {c} : call'[d] = call[d]
  BY <1>2
<1>6. CallsInv'
  <2>0. CallsInv
    BY DEF IInv
  <2>1. CallOK(c)'
    BY <1>p, <1>s, <1>1, <1>5 DEF CallOK
  <2>2. ASSUME NEW d \in Callers \ {c} PROVE CallOK(d)'
    BY <1>o, <1>s, <2>0 DEF CallsInv, CallOK
  <2>3. SpawnOK(c)'
    BY <1>5 DEF SpawnOK
  <2>4. ASSUME NEW d \in Callers \ {c} PROVE SpawnOK(d)'
    <3>1. call'[d] = call[d] /\ SpawnOK(d) /\ CallOK(d) /\ call[d] \in Call
      BY <1>f, <1>o, <2>0 DEF CallsInv
    <3>2. ASSUME call[d].reserved PROVE tree'[call[d].path] = Reserved
      <4>1. call[d].path \in Paths /\ tree[call[d].path] = Reserved
        BY <3>1, <3>2 DEF CallOK, SpawnOK
      <4>2. call[d].path # p
        BY <2>0, <3>2, <1>p, <1>1 DEF CallsInv, SpawnsApart
      <4> QED BY <1>n, <1>t, <4>1, <4>2
    <3>3. ASSUME call[d].spawn, call[d].pc = "commit" PROVE pathOf'[call[d].thread] = None
      <4>1. call[d].thread \in Threads /\ pathOf[call[d].thread] = None
        BY <3>1, <3>3 DEF CallOK, SpawnOK, Call
      <4>2. call[d].thread # t
        BY <2>0, <3>3, <1>p, <1>1 DEF CallsInv, SpawnsApart
      <4> QED BY <1>n, <1>t, <4>1, <4>2
    <3> QED BY <3>1, <3>2, <3>3 DEF SpawnOK
  <2>5. SpawnsApart'
    BY <2>0, <1>o, <1>5 DEF CallsInv, SpawnsApart
  <2>6. ReservedIsHeld'
    <3> SUFFICES ASSUME NEW q \in Paths, tree'[q] = Reserved
                 PROVE  \E d \in Callers : call'[d].reserved /\ call'[d].path = q
      BY DEF ReservedIsHeld
    <3>1. q # p /\ tree[q] = Reserved
      BY <1>n, <1>t, <1>a
    <3>2. PICK d \in Callers : call[d].reserved /\ call[d].path = q
      BY <2>0, <3>1 DEF CallsInv, ReservedIsHeld
    <3>3. d # c
      BY <1>1, <3>1, <3>2
    <3> QED BY <1>o, <3>2, <3>3
  <2>7. TreeIsIndex'
    <3> SUFFICES ASSUME NEW q \in Paths, NEW u \in Threads PROVE tree'[q] = u <=> pathOf'[u] = q
      BY DEF TreeIsIndex
    <3>1. tree[q] = u <=> pathOf[u] = q
      BY <2>0 DEF CallsInv, TreeIsIndex
    <3>2. q # None
      BY AgentResidencyAssumption
    <3> QED BY <1>n, <1>t, <1>p, <1>a, <3>1, <3>2
  <2>8. CreatedFirst'
    BY <2>0, <1>n, <1>t, <1>s, <1>p DEF CallsInv, CreatedFirst, Registered
  <2> QED BY <2>1, <2>2, <2>3, <2>4, <2>5, <2>6, <2>7, <2>8 DEF CallsInv
<1>7. total' = Cardinality(Registrations') + Cardinality(Reservations')
  <2>1. total = Cardinality(Registrations) + Cardinality(Reservations)
    BY AccountingSets DEF IInv
  <2>2. ~Registered(t) /\ Registered(t)' /\ \A u \in Threads \ {t} : pathOf'[u] = pathOf[u]
    BY <1>n, <1>t, <1>p, <1>a DEF Registered
  <2>3. Cardinality(Registrations') = Cardinality(Registrations) + 1 /\ Cardinality(Registrations) \in Nat
    BY <2>2, RegistrationStep
  <2>4. Cardinality(Reservations') = Cardinality(Reservations) - 1 /\ Cardinality(Reservations) \in Nat
    BY <1>p, <1>4, <1>5, ReservationStep
  <2> QED BY <1>n, <2>1, <2>3, <2>4
<1>8. residents' \in Seq(Threads) /\ IsInjective(residents)' /\ Tracks(c)
  BY <1>f, <1>s, <1>p, <1>n, <1>1, TouchTracks
<1>9. SlotCounted(c)
  BY <1>n, <1>p, <1>5 DEF SlotCounted
<1> QED BY <1>s, <1>n, <1>t, <1>4, <1>5, <1>6, <1>7, <1>8, <1>9, RegistryStep

LEMMA CommitStep ==
    ASSUME IInv, NEW c \in Callers, Commit(c)
    PROVE  IInv'
<1>1. CASE call[c].spawn
  BY <1>1, CommitSpawnStep
<1>2. CASE ~call[c].spawn
  <2>f. /\ TypeOK /\ CallOK(c) /\ call[c] \in Call /\ call \in [Callers -> Call]
        /\ residents \in Seq(Threads) /\ IsInjective(residents) /\ ops \in 0..MaxOps
        /\ \A t \in loaded : t \in Threads /\ t # None
    BY CallFacts
  <2>s. SessionsOK' /\ loaded' = loaded /\ created' = created /\ created' >= created
    BY SameSessions DEF Commit
  <2>1. PICK t \in Threads : t = call[c].thread
    BY <1>2, <2>f DEF Commit, CallOK, Call
  <2>p. /\ call[c].pc = "commit" /\ call[c].slot /\ ~call[c].reserved /\ call[c].cand = None
        /\ call[c].msg \in Message /\ t <= created /\ t # None
    BY <1>2, <2>f, <2>1, AgentResidencyAssumption DEF Commit, CallOK
  <2>n. /\ pending' = pending - 1 /\ Touch(t) /\ UNCHANGED <<registry, bounds>>
        /\ call' = [call EXCEPT ![c].slot = FALSE, ![c].reserved = FALSE, ![c].pc = "capacity"]
    BY <1>2, <2>1 DEF Commit, registry
  <2>2. /\ call'[c] = [call[c] EXCEPT !.slot = FALSE, !.reserved = FALSE, !.pc = "capacity"]
        /\ \A d \in Callers \ {c} : call'[d] = call[d]
        /\ call' = [d \in Callers |-> call'[d]]
    BY <2>f, <2>n
  <2>3. [call[c] EXCEPT !.slot = FALSE, !.reserved = FALSE, !.pc = "capacity"] \in Call
    BY <2>f DEF Call, Steps
  <2>4. OnlyCall(c)
    BY <2>f, <2>2, <2>3 DEF OnlyCall
  <2>5. /\ call'[c].pc = "capacity" /\ call'[c].slot = FALSE /\ call'[c].spawn = call[c].spawn
        /\ call'[c].msg = call[c].msg /\ call'[c].path = call[c].path
        /\ call'[c].thread = call[c].thread /\ call'[c].reserved = FALSE
        /\ call'[c].cand = call[c].cand
    BY <2>f, <2>2 DEF Call
  <2>6. CallOK(c)'
    BY <1>2, <2>p, <2>s, <2>1, <2>5 DEF CallOK
  <2>7. residents' \in Seq(Threads) /\ IsInjective(residents)' /\ Tracks(c)
    BY <2>f, <2>s, <2>p, <2>n, <2>1, TouchTracks
  <2>8. LoadBound'
    BY <2>s, <2>n, <2>4, <2>5, NoSlot DEF bounds
  <2>9. SlotCounted(c) /\ ops' \in 0..MaxOps /\ cancels' = cancels
    BY <2>f, <2>n, <2>p, <2>5 DEF SlotCounted, bounds
  <2> QED BY <2>s, <2>n, <2>p, <2>4, <2>5, <2>6, <2>7, <2>8, <2>9, PlainStep
<1> QED BY <1>1, <1>2

\* handle_thread_request_result forgets the agent everywhere at once.
LEMMA DiedStep ==
    ASSUME IInv, NEW c \in Callers, Died(c)
    PROVE  IInv'
<1>f. /\ TypeOK /\ CallOK(c) /\ call[c] \in Call /\ call \in [Callers -> Call]
      /\ residents \in Seq(Threads) /\ IsInjective(residents)
      /\ \A t \in loaded : t \in Threads /\ t # None
  BY CallFacts
<1>1. PICK t \in Threads : t = call[c].thread
  BY <1>f DEF Died, CallOK, Call
<1>p. call[c].pc = "died" /\ ~call[c].slot /\ ~call[c].reserved /\ call[c].cand = None
  BY <1>f DEF Died, CallOK
<1>n. /\ RemoveThread(t) /\ residents' = Without(t)
      /\ total' = (IF Registered(t) THEN total - 1 ELSE total)
      /\ tree' = (IF Registered(t) THEN [tree EXCEPT ![pathOf[t]] = Free] ELSE tree)
      /\ pathOf' = [pathOf EXCEPT ![t] = None]
      /\ call' = [call EXCEPT ![c] = Idle] /\ UNCHANGED <<pending, bounds>>
  BY <1>1 DEF Died
<1>s. SessionsOK' /\ loaded' = loaded \ {t} /\ created' = created /\ created' >= created
  BY <1>f, <1>n, SessionTypes DEF RemoveThread, TypeOK
<1>t. /\ tree \in [Paths -> {Free, Reserved} \union Threads]
      /\ pathOf \in [Threads -> Paths \union {None}]
      /\ pathOf' \in [Threads -> Paths \union {None}]
      /\ (Registered(t) => pathOf[t] \in Paths)
  BY <1>f, <1>n DEF TypeOK, Registered
<1>t2. tree' \in [Paths -> {Free, Reserved} \union Threads]
  BY <1>n, <1>t
<1>c. OnlyCall(c) /\ call'[c] = Idle
  BY <1>f, <1>n, IdleIsCall DEF OnlyCall
<1>d. /\ call'[c].slot = FALSE /\ call'[c].reserved = FALSE /\ call'[c].spawn = FALSE
      /\ call'[c].pc = "idle" /\ call'[c].cand = None /\ call'[c].thread = None
  BY <1>c DEF Idle
<1>o. \A d \in Callers \ {c} : call'[d] = call[d]
  BY <1>c DEF OnlyCall
<1>a. Free # Reserved /\ None \notin Paths /\ \A u \in Threads : u # Free /\ u # Reserved
  BY AgentResidencyAssumption
<1>2. CallsInv'
  <2>0. CallsInv
    BY DEF IInv
  <2>r. Registered(t) => tree[pathOf[t]] = t
    BY <1>t, <2>0 DEF CallsInv, TreeIsIndex
  <2>1. CallOK(c)'
    BY <1>d DEF CallOK
  <2>2. ASSUME NEW d \in Callers \ {c} PROVE CallOK(d)'
    BY <1>o, <1>s, <2>0 DEF CallsInv, CallOK
  <2>3. SpawnOK(c)'
    BY <1>d DEF SpawnOK
  <2>4. ASSUME NEW d \in Callers \ {c} PROVE SpawnOK(d)'
    <3>1. call'[d] = call[d] /\ SpawnOK(d) /\ CallOK(d) /\ call[d] \in Call
      BY <1>f, <1>o, <2>0 DEF CallsInv
    <3>2. ASSUME call[d].reserved PROVE tree'[call[d].path] = Reserved
      <4>1. call[d].path \in Paths /\ tree[call[d].path] = Reserved
        BY <3>1, <3>2 DEF CallOK, SpawnOK
      <4>2. Registered(t) => call[d].path # pathOf[t]
        BY <1>a, <2>r, <4>1
      <4> QED BY <1>n, <1>t, <4>1, <4>2
    <3>3. ASSUME call[d].spawn, call[d].pc = "commit" PROVE pathOf'[call[d].thread] = None
      <4>1. call[d].thread \in Threads /\ pathOf[call[d].thread] = None
        BY <3>1, <3>3 DEF CallOK, SpawnOK, Call
      <4> QED BY <1>n, <1>t, <4>1
    <3> QED BY <3>1, <3>2, <3>3 DEF SpawnOK
  <2>5. SpawnsApart'
    BY <2>0, <1>o, <1>d DEF CallsInv, SpawnsApart
  <2>6. ReservedIsHeld'
    <3> SUFFICES ASSUME NEW q \in Paths, tree'[q] = Reserved
                 PROVE  \E d \in Callers : call'[d].reserved /\ call'[d].path = q
      BY DEF ReservedIsHeld
    <3>1. tree[q] = Reserved
      BY <1>n, <1>t, <1>a
    <3>2. PICK d \in Callers : call[d].reserved /\ call[d].path = q
      BY <2>0, <3>1 DEF CallsInv, ReservedIsHeld
    <3>3. d # c
      BY <1>p, <3>2
    <3> QED BY <1>o, <3>2, <3>3
  <2>7. TreeIsIndex'
    <3> SUFFICES ASSUME NEW q \in Paths, NEW u \in Threads PROVE tree'[q] = u <=> pathOf'[u] = q
      BY DEF TreeIsIndex
    <3>1. /\ tree[q] = u <=> pathOf[u] = q
          /\ tree[q] = t <=> pathOf[t] = q
      BY <2>0 DEF CallsInv, TreeIsIndex
    <3>2. q # None
      BY <1>a
    <3> QED BY <1>n, <1>t, <1>a, <2>r, <3>1, <3>2 DEF Registered
  <2>8. CreatedFirst'
    BY <2>0, <1>n, <1>t, <1>s DEF CallsInv, CreatedFirst, Registered
  <2> QED BY <2>1, <2>2, <2>3, <2>4, <2>5, <2>6, <2>7, <2>8 DEF CallsInv
<1>3. total' = Cardinality(Registrations') + Cardinality(Reservations')
  <2>1. total = Cardinality(Registrations) + Cardinality(Reservations)
    BY AccountingSets DEF IInv
  <2>2. ~Registered(t)' /\ \A u \in Threads \ {t} : pathOf'[u] = pathOf[u]
    BY <1>n, <1>t DEF Registered
  <2>3. /\ Cardinality(Registrations) \in Nat
        /\ Cardinality(Registrations') = IF Registered(t) THEN Cardinality(Registrations) - 1
                                                          ELSE Cardinality(Registrations)
    BY <2>2, RegistrationStep
  <2>4. Cardinality(Reservations') = Cardinality(Reservations) /\ Cardinality(Reservations) \in Nat
    BY <1>p, <1>c, <1>d, ReservationStep
  <2> QED BY <1>n, <2>1, <2>3, <2>4
<1>4. residents' \in Seq(Threads) /\ IsInjective(residents)' /\ Range(residents') = Range(residents) \ {t}
  BY <1>f, <1>n, WithoutProps
<1>5. Tracks(c)
  BY <1>f, <1>s, <1>p, <1>4 DEF Tracks
<1>6. SlotCounted(c)
  BY <1>n, <1>p, <1>d DEF SlotCounted
<1> QED BY <1>s, <1>n, <1>t, <1>t2, <1>c, <1>d, <1>2, <1>3, <1>4, <1>5, <1>6, RegistryStep
-----------------------------------------------------------------------------
(* The theorems *)

LEMMA NextInv == IInv /\ [Next]_vars => IInv'
<1> SUFFICES ASSUME IInv, [Next]_vars PROVE IInv'
  OBVIOUS
<1>1. ASSUME NEW c \in Callers, Step(c) PROVE IInv'
  BY <1>1, LoadStep, ReserveStep, ScanStep, CheckStep, SubmitShutdownStep, UnloadStep, PrepareStep,
     CreateStep, CreateFailsStep, CommitStep, CheckCapacityStep, SubmitStep, DiedStep DEF Step
<1>2. ASSUME NEW c \in Callers, \/ \E p \in Paths : Spawn(c, p)
                                \/ \E t \in Threads, m \in Message : Send(c, t, m)
      PROVE  IInv'
  BY <1>2, BeginStep
<1>3. ASSUME NEW c \in Callers, Cancel(c) PROVE IInv'
  BY <1>3, CancelStep
<1>4. ASSUME NEW t \in Threads, Loop(t) \/ TakeMail(t) \/ TurnEnds(t) PROVE IInv'
  BY <1>4, SessionStep
<1>5. CASE UNCHANGED vars
  <2>1. /\ UNCHANGED <<tree, pathOf, total, residents, pending, loaded, run, gen, queue, mail, call>>
        /\ UNCHANGED <<created, ops, cancels, lost>>
    BY <1>5 DEF vars, registry, residency, sessions, bounds
  <2>2. TypeOK'
    BY <2>1 DEF IInv, TypeOK
  <2>3. CallsInv'
    BY <2>1 DEF IInv, CallsInv, CallOK, SpawnOK, SpawnsApart, ReservedIsHeld, TreeIsIndex,
                CreatedFirst, Registered
  <2>4. Accounting' /\ LeaksAreCancels' /\ LoadBound'
    BY <2>1 DEF IInv, Accounting, Registered, LeaksAreCancels, Untracked, Holders, LoadBound, Creating
  <2> QED BY <2>2, <2>3, <2>4 DEF IInv
<1> QED BY <1>1, <1>2, <1>3, <1>4, <1>5 DEF Next

LEMMA Inductive == Spec => []IInv
BY InitInv, NextInv, PTL DEF Spec

\* Every variable keeps its type; in particular total_count and pending_slots, which the
\* code decrements when a reservation is dropped or an agent dies, never go below zero.
THEOREM TypeCorrect == Spec => []TypeOK
<1>1. IInv => TypeOK
  BY DEF IInv
<1> QED BY <1>1, Inductive, PTL

\* total_count and pending_slots count what they stand for after any interleaving of calls
\* that return, fail, die or are dropped at an await, and touch_resident, remove and
\* pop_lru_candidate keep the residency list free of duplicates.
THEOREM CountersAgree == Spec => []Accounting
<1>1. IInv => Accounting
  BY DEF IInv
<1> QED BY <1>1, Inductive, PTL

\* agent_tree and thread_paths are inverse to each other, and a path that is reserved is
\* reserved by exactly one spawn in flight: Drop of a SpawnReservation never frees a path
\* of another spawn, commit never overwrites one.
THEOREM OneOwner == Spec => []PathOwnership
<1>1. ASSUME IInv PROVE PathOwnership
  <2>i. CallsInv /\ TypeOK
    BY <1>1 DEF IInv
  <2>1. \A p \in Paths, t \in Threads : tree[p] = t <=> pathOf[t] = p
    BY <2>i DEF CallsInv, TreeIsIndex
  <2>2. ASSUME NEW p \in Paths
        PROVE  Cardinality({c \in Callers : call[c].reserved /\ call[c].path = p})
                 = IF tree[p] = Reserved THEN 1 ELSE 0
    <3> DEFINE R == {c \in Callers : call[c].reserved /\ call[c].path = p}
    <3>1. CASE tree[p] = Reserved
      <4>1. PICK c \in Callers : call[c].reserved /\ call[c].path = p
        BY <2>i, <3>1 DEF CallsInv, ReservedIsHeld
      <4>2. R = {c}
        BY <2>i, <4>1 DEF CallsInv, SpawnsApart
      <4>3. Cardinality(R) = 1
        BY <4>2, FS_Singleton
      <4> QED BY <3>1, <4>3
    <3>2. CASE tree[p] # Reserved
      <4>1. R = {}
        BY <2>i, <3>2 DEF CallsInv, SpawnOK
      <4>2. Cardinality(R) = 0
        BY <4>1, FS_EmptySet
      <4> QED BY <3>2, <4>2
    <3> QED BY <3>1, <3>2
  <2> QED BY <2>1, <2>2 DEF PathOwnership
<1> QED BY <1>1, Inductive, PTL

\* As long as no call was aborted, a thread that is loaded is on the residency list or in
\* the hands of a call of reserve_slot or commit: no error path of these forgets one.
THEOREM NoneForgotten == Spec => []LoadedIsTracked
<1>1. ASSUME IInv PROVE LoadedIsTracked
  <2> SUFFICES ASSUME cancels = 0, NEW t \in loaded, t \notin Range(residents), Holders(t) = {}
               PROVE  FALSE
    BY DEF LoadedIsTracked
  <2>1. IsFiniteSet(Untracked) /\ Cardinality(Untracked) \in Nat /\ Cardinality(Untracked) <= 0
    BY <1>1, ThreadsFinite, FS_Subset, FS_CardinalityType DEF IInv, TypeOK, LeaksAreCancels, Untracked
  <2>2. Cardinality(Untracked) = 0
    BY <2>1
  <2>3. Untracked = {}
    BY <2>1, <2>2, FS_EmptySet
  <2> QED BY <2>3 DEF Untracked
<1> QED BY <1>1, Inductive, PTL

\* try_reserve_pending_slot counts residents and pending slots but not victims that calls
\* hold: the agents loaded exceed Capacity by at most the other calls and the aborted ones.
THEOREM BoundedOvershoot == Spec => []Overshoot
<1>1. ASSUME IInv PROVE Overshoot
  <2>1. /\ Cardinality(loaded) \in Nat /\ Cardinality(Creating) \in Nat
        /\ Cardinality(Callers) \in Nat /\ Capacity \in Nat /\ cancels \in Nat
    BY <1>1, ThreadsFinite, FS_Subset, FS_CardinalityType, AgentResidencyAssumption
       DEF IInv, TypeOK, Creating
  <2>2. Cardinality(loaded) + Cardinality(Creating) <= Capacity + Cardinality(Callers) - 1 + cancels
    BY <1>1 DEF IInv, LoadBound
  <2> QED BY <2>1, <2>2 DEF Overshoot
<1> QED BY <1>1, Inductive, PTL
=============================================================================
