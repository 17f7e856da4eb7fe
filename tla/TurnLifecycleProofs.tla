------------------------ MODULE TurnLifecycleProofs ------------------------
(***************************************************************************)
(* The turns of a session for any number of turns, inputs, mails and       *)
(* operations: what holds whatever the fibers do, and what holds in a quiet*)
(* session, in which only the submission loop starts and aborts turns.     *)
(***************************************************************************)
EXTENDS TurnLifecycle, TLAPS

\* What a fiber's frame holds at the steps that use it.
FrameOK ==
    \A f \in Fibers :
        /\ pc[f] \in {"recheck", "collect", "stash", "prepare", "install"}
               => starting[f] \in Turns
        /\ (pc[f] \in {"abort", "kill"} /\ why[f] = "Replaced")
               => starting[f] \in Turns
        /\ pc[f] \in {"recheck", "collect", "stash", "report", "clear", "kill"}
               => ts[f] \in TurnStates

Typed == TypeOK /\ FrameOK
-----------------------------------------------------------------------------
(* Types.                                                                  *)

LEMMA SeqTypes ==
    /\ \A s \in Seq(Mails) : s \in Seq(Items)
    /\ \A s, r \in Seq(Items) : s \o r \in Seq(Items)
    /\ \A s \in Seq(Items), i \in Items : Append(s, i) \in Seq(Items)
    /\ \A s \in Seq(Mails), i \in Mails : Append(s, i) \in Seq(Mails)
    /\ \A i \in Items : <<i>> \in Seq(Items)
    /\ <<>> \in Seq(Items) /\ <<>> \in Seq(Mails)
  BY DEF Items

\* The active turn is none at all, or has a turn state.
LEMMA ActiveParts ==
    ASSUME TypeOK
    PROVE  /\ active = Idle <=> active.ts = None
           /\ active = Idle => active.task = None
           /\ active # Idle => active.ts \in TurnStates
           /\ active.task \in Turns \cup {None}
           /\ active.task # None => active # Idle /\ active.task \in Turns
           /\ active # Idle => active = [ts |-> active.ts, task |-> active.task]
  BY FibersAssumption DEF TypeOK, Idle, Fibers

\* The types, variable group by variable group.
InboxTypes ==
    /\ active \in {Idle} \cup [ts : TurnStates, task : Turns \cup {None}]
    /\ pending \in [TurnStates -> Seq(Items)]
    /\ phase \in [TurnStates -> {"CurrentTurn", "NextTurn"}]
    /\ mailbox \in Seq(Mails) /\ recorded \in Seq(Items)
TaskTypes ==
    /\ kind \in [Turns -> {"none", "regular", "shell", "compact"}]
    /\ input \in [Turns -> Seq(Items)] /\ cancelled \in [Turns -> BOOLEAN]
    /\ samples \in [Turns -> 0..MaxSamples] /\ terminal \in [Turns -> Nat]
FrameTypes ==
    /\ starting \in [Fibers -> Turns \cup {None}]
    /\ ts \in [Fibers -> TurnStates \cup {None}]
    /\ held \in [Fibers -> Seq(Items)]
    /\ why \in [Fibers -> {"Replaced", "Interrupted"}]
    /\ victim \in [Fibers -> Turns \cup {None}]
EnvTypes ==
    /\ left \in [Operations -> Nat] /\ submitted \subseteq Items
    /\ steered \in [Inputs -> Turns \cup {None}]

LEMMA TypeParts ==
    TypeOK <=> /\ InboxTypes /\ TaskTypes /\ FrameTypes /\ EnvTypes
               /\ pc \in [Fibers -> Labels]
  BY DEF TypeOK, InboxTypes, TaskTypes, FrameTypes, EnvTypes

LEMMA FiberKinds ==
    /\ Loop \in Fibers /\ Breaker \in Fibers
    /\ \A t \in Turns : t \in Fibers /\ t # Loop /\ t # Breaker /\ t # None
  BY FibersAssumption DEF Fibers

LEMMA InitTyped == Init => Typed
<1> SUFFICES ASSUME Init PROVE Typed
  OBVIOUS
<1>1. TypeOK
  BY FiberKinds, SeqTypes, BudgetAssumption, BoundAssumption
  DEF Init, TypeOK, Labels, Idle
<1>2. FrameOK
  BY FiberKinds DEF Init, FrameOK, Fibers
<1> QED
  BY <1>1, <1>2 DEF Typed

\* A turn samples at most MaxSamples times more.
LEMMA Counting ==
    ASSUME TaskTypes, NEW t \in Turns, CountSample(t)
    PROVE  samples' \in [Turns -> 0..MaxSamples]
  BY BoundAssumption DEF TaskTypes, CountSample

\* Steps of the submission loop keep the types.
LEMMA EnvironmentTyped ==
    ASSUME Typed, Environment
    PROVE  Typed'
<1> USE DEF Typed
<1>1. ASSUME NEW i \in Inputs, Steer(i) PROVE Typed'
  <2>1. active.ts \in TurnStates /\ active.task \in Turns /\ i \in Items
    BY <1>1, ActiveParts DEF Steer, Items
  <2>2. TypeOK'
    <3>1. InboxTypes'
      BY <1>1, <2>1, SeqTypes, TypeParts
      DEF Operations, Steer, Handle, Spend, Submit, AppendToActive, task, frame, InboxTypes
    <3>2. TaskTypes'
      BY <1>1, <2>1, SeqTypes, TypeParts
      DEF Operations, Steer, Handle, Spend, Submit, AppendToActive, task, frame, TaskTypes
    <3>3. FrameTypes'
      BY <1>1, <2>1, SeqTypes, TypeParts
      DEF Operations, Steer, Handle, Spend, Submit, AppendToActive, task, frame, FrameTypes
    <3>4. EnvTypes'
      BY <1>1, <2>1, SeqTypes, TypeParts
      DEF Operations, Steer, Handle, Spend, Submit, AppendToActive, task, frame, EnvTypes
    <3>5. pc' \in [Fibers -> Labels]
      BY <1>1, <2>1, SeqTypes, TypeParts
      DEF Operations, Steer, Handle, Spend, Submit, AppendToActive, task, frame, Labels
    <3> QED
      BY <3>1, <3>2, <3>3, <3>4, <3>5
      DEF TypeOK, InboxTypes, TaskTypes, FrameTypes, EnvTypes
  <2>3. FrameOK'
    BY <1>1 DEF Steer, FrameOK, frame
  <2> QED
    BY <2>2, <2>3
<1>2. ASSUME NEW t \in Turns, NEW k \in {"regular", "shell", "compact"},
             NEW items \in Seq(Items), submitted' \subseteq Items,
             \E op \in Operations : Handle(op), Spawn(t, k, items)
      PROVE Typed'
  <2>1. TypeOK'
    <3>1. InboxTypes'
      BY <1>2, FiberKinds, TypeParts
      DEF Handle, Spend, Spawn, CreateTurn, Goto, inbox, InboxTypes
    <3>2. TaskTypes'
      BY <1>2, FiberKinds, TypeParts
      DEF Handle, Spend, Spawn, CreateTurn, Goto, inbox, TaskTypes
    <3>3. FrameTypes'
      BY <1>2, FiberKinds, TypeParts
      DEF Handle, Spend, Spawn, CreateTurn, Goto, inbox, FrameTypes
    <3>4. EnvTypes'
      BY <1>2, FiberKinds, TypeParts
      DEF Handle, Spend, Spawn, CreateTurn, Goto, inbox, EnvTypes
    <3>5. pc' \in [Fibers -> Labels]
      BY <1>2, FiberKinds, TypeParts
      DEF Handle, Spend, Spawn, CreateTurn, Goto, inbox, Labels
    <3> QED
      BY <3>1, <3>2, <3>3, <3>4, <3>5
      DEF TypeOK, InboxTypes, TaskTypes, FrameTypes, EnvTypes
  <2>2. FrameOK'
    BY <1>2, FiberKinds DEF Spawn, CreateTurn, Goto, FrameOK, TypeOK
  <2> QED
    BY <2>1, <2>2
<1>3. ASSUME NEW i \in Inputs, NEW t \in Turns, StartTurn(i, t) PROVE Typed'
  <2>1. <<i>> \in Seq(Items) /\ submitted' \subseteq Items
    BY <1>3, SeqTypes DEF StartTurn, Submit, TypeOK, Items
  <2>2. (\E op \in Operations : Handle(op)) /\ Spawn(t, "regular", <<i>>)
    BY <1>3 DEF StartTurn, Operations
  <2> QED
    BY <1>2, <2>1, <2>2
<1>4. ASSUME NEW t \in Turns, RunUserShell(t) PROVE Typed'
  <2>1. <<>> \in Seq(Items) /\ submitted' \subseteq Items
    BY <1>4, SeqTypes DEF RunUserShell, TypeOK
  <2>2. (\E op \in Operations : Handle(op)) /\ Spawn(t, "shell", <<>>)
    BY <1>4 DEF RunUserShell, Operations
  <2> QED
    BY <1>2, <2>1, <2>2
<1>5. ASSUME NEW t \in Turns, Compact(t) PROVE Typed'
  <2>1. <<>> \in Seq(Items) /\ submitted' \subseteq Items
    BY <1>5, SeqTypes DEF Compact, TypeOK
  <2>2. (\E op \in Operations : Handle(op)) /\ Spawn(t, "compact", <<>>)
    BY <1>5 DEF Compact, Operations
  <2> QED
    BY <1>2, <2>1, <2>2
<1>6. ASSUME NEW i \in Inputs \cup Injections, NEW t \in Turns, StartIfIdle(i, t)
      PROVE  Typed'
  <2>1. i \in Items /\ <<i>> \in Seq(Items) /\ <<>> \in Seq(Items)
    BY SeqTypes DEF Items
  <2>2. <<t, "reserve">> \in TurnStates
    BY DEF TurnStates
  <2>3. TypeOK'
    <3>1. InboxTypes'
      BY <1>6, <2>1, <2>2, FiberKinds, TypeParts
      DEF Operations, StartIfIdle, Handle, Spend, Submit, Reserve, CreateTurn, Goto, inbox, InboxTypes
    <3>2. TaskTypes'
      BY <1>6, <2>1, <2>2, FiberKinds, TypeParts
      DEF Operations, StartIfIdle, Handle, Spend, Submit, Reserve, CreateTurn, Goto, inbox, TaskTypes
    <3>3. FrameTypes'
      BY <1>6, <2>1, <2>2, FiberKinds, TypeParts
      DEF Operations, StartIfIdle, Handle, Spend, Submit, Reserve, CreateTurn, Goto, inbox, FrameTypes
    <3>4. EnvTypes'
      BY <1>6, <2>1, <2>2, FiberKinds, TypeParts
      DEF Operations, StartIfIdle, Handle, Spend, Submit, Reserve, CreateTurn, Goto, inbox, EnvTypes
    <3>5. pc' \in [Fibers -> Labels]
      BY <1>6, <2>1, <2>2, FiberKinds, TypeParts
      DEF Operations, StartIfIdle, Handle, Spend, Submit, Reserve, CreateTurn, Goto, inbox, Labels
    <3> QED
      BY <3>1, <3>2, <3>3, <3>4, <3>5
      DEF TypeOK, InboxTypes, TaskTypes, FrameTypes, EnvTypes
  <2>4. FrameOK'
    BY <1>6, <2>2, FiberKinds DEF StartIfIdle, Reserve, CreateTurn, Goto, FrameOK, TypeOK
  <2> QED
    BY <2>3, <2>4
<1>7. ASSUME NEW t \in Turns, BreakTurn(t) PROVE Typed'
  <2>1. active.ts \in TurnStates /\ active.task \in Turns
    BY <1>7, ActiveParts, FiberKinds DEF BreakTurn
  <2>2. TypeOK'
    <3>1. InboxTypes'
      BY <1>7, <2>1, FiberKinds, TypeParts
      DEF Operations, BreakTurn, Spend, TakeAndCancel, Goto, inbox, InboxTypes
    <3>2. TaskTypes'
      BY <1>7, <2>1, FiberKinds, TypeParts
      DEF Operations, BreakTurn, Spend, TakeAndCancel, Goto, inbox, TaskTypes
    <3>3. FrameTypes'
      BY <1>7, <2>1, FiberKinds, TypeParts
      DEF Operations, BreakTurn, Spend, TakeAndCancel, Goto, inbox, FrameTypes
    <3>4. EnvTypes'
      BY <1>7, <2>1, FiberKinds, TypeParts
      DEF Operations, BreakTurn, Spend, TakeAndCancel, Goto, inbox, EnvTypes
    <3>5. pc' \in [Fibers -> Labels]
      BY <1>7, <2>1, FiberKinds, TypeParts
      DEF Operations, BreakTurn, Spend, TakeAndCancel, Goto, inbox, Labels
    <3> QED
      BY <3>1, <3>2, <3>3, <3>4, <3>5
      DEF TypeOK, InboxTypes, TaskTypes, FrameTypes, EnvTypes
  <2>3. FrameOK'
    BY <1>7, <2>1, FiberKinds DEF BreakTurn, TakeAndCancel, Goto, FrameOK, TypeOK
  <2> QED
    BY <2>2, <2>3
<1>8. ASSUME Interrupt PROVE Typed'
  <2>1. TypeOK'
    <3>1. InboxTypes'
      BY <1>8, FiberKinds, TypeParts
      DEF Operations, Interrupt, Handle, Spend, Goto, inbox, task, InboxTypes
    <3>2. TaskTypes'
      BY <1>8, FiberKinds, TypeParts
      DEF Operations, Interrupt, Handle, Spend, Goto, inbox, task, TaskTypes
    <3>3. FrameTypes'
      BY <1>8, FiberKinds, TypeParts
      DEF Operations, Interrupt, Handle, Spend, Goto, inbox, task, FrameTypes
    <3>4. EnvTypes'
      BY <1>8, FiberKinds, TypeParts
      DEF Operations, Interrupt, Handle, Spend, Goto, inbox, task, EnvTypes
    <3>5. pc' \in [Fibers -> Labels]
      BY <1>8, FiberKinds, TypeParts
      DEF Operations, Interrupt, Handle, Spend, Goto, inbox, task, Labels
    <3> QED
      BY <3>1, <3>2, <3>3, <3>4, <3>5
      DEF TypeOK, InboxTypes, TaskTypes, FrameTypes, EnvTypes
  <2>2. FrameOK'
    BY <1>8, FiberKinds DEF Interrupt, Goto, FrameOK, TypeOK
  <2> QED
    BY <2>1, <2>2
<1>9. ASSUME NEW m \in Mails, Mail(m) PROVE Typed'
  <2>1. Append(mailbox, m) \in Seq(Mails) /\ m \in Items
    BY SeqTypes DEF TypeOK, Items
  <2>2. TypeOK'
    <3>1. InboxTypes'
      BY <1>9, <2>1, FiberKinds, TypeParts
      DEF Operations, Mail, Handle, Spend, Submit, Goto, task, frame, InboxTypes
    <3>2. TaskTypes'
      BY <1>9, <2>1, FiberKinds, TypeParts
      DEF Operations, Mail, Handle, Spend, Submit, Goto, task, frame, TaskTypes
    <3>3. FrameTypes'
      BY <1>9, <2>1, FiberKinds, TypeParts
      DEF Operations, Mail, Handle, Spend, Submit, Goto, task, frame, FrameTypes
    <3>4. EnvTypes'
      BY <1>9, <2>1, FiberKinds, TypeParts
      DEF Operations, Mail, Handle, Spend, Submit, Goto, task, frame, EnvTypes
    <3>5. pc' \in [Fibers -> Labels]
      BY <1>9, <2>1, FiberKinds, TypeParts
      DEF Operations, Mail, Handle, Spend, Submit, Goto, task, frame, Labels
    <3> QED
      BY <3>1, <3>2, <3>3, <3>4, <3>5
      DEF TypeOK, InboxTypes, TaskTypes, FrameTypes, EnvTypes
  <2>3. FrameOK'
    BY <1>9, FiberKinds DEF Mail, Goto, FrameOK, TypeOK, frame
  <2> QED
    BY <2>2, <2>3
<1>10. ASSUME NEW i \in Injections, Inject(i) PROVE Typed'
  <2>1. i \in Items
    BY DEF Items
  <2>2. TypeOK'
    <3>1. InboxTypes'
      <4>1. CASE active = Idle
        <5>1. recorded' = Append(recorded, i) /\ UNCHANGED <<active, inbox>>
          BY <1>10, <4>1 DEF Inject
        <5> QED
          BY <2>1, <5>1, SeqTypes, TypeParts DEF inbox, InboxTypes
      <4>2. CASE active # Idle
        <5>1. AppendToActive(i) /\ UNCHANGED <<active, recorded>>
          BY <1>10, <4>2 DEF Inject
        <5> QED
          BY <2>1, <4>2, <5>1, ActiveParts, SeqTypes, TypeParts
          DEF AppendToActive, InboxTypes
      <4> QED
        BY <4>1, <4>2
    <3>2. TaskTypes'
      BY <1>10, <2>1, ActiveParts, SeqTypes, TypeParts
      DEF Operations, Inject, Spend, Submit, AppendToActive, inbox, task, frame, TaskTypes
    <3>3. FrameTypes'
      BY <1>10, <2>1, ActiveParts, SeqTypes, TypeParts
      DEF Operations, Inject, Spend, Submit, AppendToActive, inbox, task, frame, FrameTypes
    <3>4. EnvTypes'
      BY <1>10, <2>1, ActiveParts, SeqTypes, TypeParts
      DEF Operations, Inject, Spend, Submit, AppendToActive, inbox, task, frame, EnvTypes
    <3>5. pc' \in [Fibers -> Labels]
      BY <1>10, <2>1, ActiveParts, SeqTypes, TypeParts
      DEF Operations, Inject, Spend, Submit, AppendToActive, inbox, task, frame, Labels
    <3> QED
      BY <3>1, <3>2, <3>3, <3>4, <3>5
      DEF TypeOK, InboxTypes, TaskTypes, FrameTypes, EnvTypes
  <2>3. FrameOK'
    BY <1>10 DEF Inject, FrameOK, frame
  <2> QED
    BY <2>2, <2>3
<1> QED
  BY <1>1, <1>3, <1>4, <1>5, <1>6, <1>7, <1>8, <1>9, <1>10 DEF Environment

LEMMA LoopTyped ==
    ASSUME Typed, LoopStep
    PROVE  Typed'
<1> USE DEF Typed
<1>1. ASSUME TakeActiveTurn PROVE Typed'
  <2>0. \/ /\ active.ts \in TurnStates /\ active.task \in Turns
           /\ TakeAndCancel(Loop) /\ Goto(Loop, "kill")
        \/ /\ active' = Idle
           /\ Goto(Loop, IF why[Loop] = "Replaced" THEN "prepare" ELSE "idle")
           /\ UNCHANGED <<task, ts, victim>>
    BY <1>1, ActiveParts DEF TakeActiveTurn
  <2>1. UNCHANGED <<inbox, recorded, starting, held, why, env, terminal>> /\ pc[Loop] = "abort"
    BY <1>1 DEF TakeActiveTurn
  <2>2. TypeOK'
    <3>1. InboxTypes'
      BY <2>0, <2>1, FiberKinds, TypeParts
      DEF TakeAndCancel, Goto, task, env, inbox, InboxTypes
    <3>2. TaskTypes'
      BY <2>0, <2>1, FiberKinds, TypeParts
      DEF TakeAndCancel, Goto, task, env, inbox, TaskTypes
    <3>3. FrameTypes'
      BY <2>0, <2>1, FiberKinds, TypeParts
      DEF TakeAndCancel, Goto, task, env, inbox, FrameTypes
    <3>4. EnvTypes'
      BY <2>0, <2>1, FiberKinds, TypeParts
      DEF TakeAndCancel, Goto, task, env, inbox, EnvTypes
    <3>5. pc' \in [Fibers -> Labels]
      BY <2>0, <2>1, FiberKinds, TypeParts
      DEF TakeAndCancel, Goto, task, env, inbox, Labels
    <3> QED
      BY <3>1, <3>2, <3>3, <3>4, <3>5
      DEF TypeOK, InboxTypes, TaskTypes, FrameTypes, EnvTypes
  <2>3. FrameOK'
    BY <2>0, <2>1, FiberKinds DEF TakeAndCancel, Goto, FrameOK, TypeOK
  <2> QED
    BY <2>2, <2>3
<1>2. ASSUME StartIfIdleGivesUp PROVE Typed'
  <2>2. TypeOK'
    <3>1. InboxTypes'
      BY <1>2, FiberKinds, SeqTypes, TypeParts
      DEF StartIfIdleGivesUp, ClearReservation, Goto, task, env, inbox, InboxTypes
    <3>2. TaskTypes'
      BY <1>2, FiberKinds, SeqTypes, TypeParts
      DEF StartIfIdleGivesUp, ClearReservation, Goto, task, env, inbox, TaskTypes
    <3>3. FrameTypes'
      BY <1>2, FiberKinds, SeqTypes, TypeParts
      DEF StartIfIdleGivesUp, ClearReservation, Goto, task, env, inbox, FrameTypes
    <3>4. EnvTypes'
      BY <1>2, FiberKinds, SeqTypes, TypeParts
      DEF StartIfIdleGivesUp, ClearReservation, Goto, task, env, inbox, EnvTypes
    <3>5. pc' \in [Fibers -> Labels]
      BY <1>2, FiberKinds, SeqTypes, TypeParts
      DEF StartIfIdleGivesUp, ClearReservation, Goto, task, env, inbox, Labels
    <3> QED
      BY <3>1, <3>2, <3>3, <3>4, <3>5
      DEF TypeOK, InboxTypes, TaskTypes, FrameTypes, EnvTypes
  <2>3. FrameOK'
    BY <1>2, FiberKinds DEF StartIfIdleGivesUp, Goto, FrameOK, TypeOK
  <2> QED
    BY <2>2, <2>3
<1>3. ASSUME StartIfIdleCommits PROVE Typed'
  <2>1. ts[Loop] \in TurnStates
    BY <1>3, FiberKinds DEF StartIfIdleCommits, FrameOK
  <2>2. TypeOK'
    <3>1. InboxTypes'
      BY <1>3, <2>1, FiberKinds, SeqTypes, TypeParts
      DEF StartIfIdleCommits, Goto, task, env, InboxTypes, FrameTypes
    <3>2. TaskTypes'
      BY <1>3, <2>1, FiberKinds, SeqTypes, TypeParts
      DEF StartIfIdleCommits, Goto, task, env, TaskTypes
    <3>3. FrameTypes'
      BY <1>3, <2>1, FiberKinds, SeqTypes, TypeParts
      DEF StartIfIdleCommits, Goto, task, env, FrameTypes
    <3>4. EnvTypes'
      BY <1>3, <2>1, FiberKinds, SeqTypes, TypeParts
      DEF StartIfIdleCommits, Goto, task, env, EnvTypes
    <3>5. pc' \in [Fibers -> Labels]
      BY <1>3, <2>1, FiberKinds, SeqTypes, TypeParts
      DEF StartIfIdleCommits, Goto, task, env, Labels
    <3> QED
      BY <3>1, <3>2, <3>3, <3>4, <3>5
      DEF TypeOK, InboxTypes, TaskTypes, FrameTypes, EnvTypes
  <2>3. FrameOK'
    BY <1>3, FiberKinds DEF StartIfIdleCommits, Goto, FrameOK, TypeOK
  <2> QED
    BY <2>2, <2>3
<1> QED
  BY <1>1, <1>2, <1>3 DEF LoopStep

\* Draining pending input and mail keeps the types.
LEMMA DrainTyped ==
    ASSUME Typed, NEW f \in Fibers, GetPendingInput(f)
    PROVE  /\ pending' \in [TurnStates -> Seq(Items)]
           /\ held' \in [Fibers -> Seq(Items)]
           /\ mailbox' \in Seq(Mails)
<1> USE DEF Typed
<1>1. CASE ~Accepting
  BY <1>1, TypeParts DEF GetPendingInput, InboxTypes, FrameTypes
<1>2. CASE Accepting /\ active = Idle
  BY <1>2, TypeParts, SeqTypes DEF GetPendingInput, InboxTypes, FrameTypes
<1>3. CASE Accepting /\ active # Idle
  <2>1. pending[active.ts] \o mailbox \in Seq(Items)
    BY <1>3, ActiveParts, TypeParts, SeqTypes DEF InboxTypes
  <2> QED
    BY <1>3, <2>1, TypeParts, SeqTypes DEF GetPendingInput, InboxTypes, FrameTypes
<1> QED
  BY <1>1, <1>2, <1>3

LEMMA StartingTyped ==
    ASSUME Typed, NEW f \in Fibers, StartingStep(f)
    PROVE  Typed'
<1> USE DEF Typed
<1>1. ASSUME KillTask(f) PROVE Typed'
  <2>2. TypeOK'
    <3>1. InboxTypes'
      BY <1>1, SeqTypes, TypeParts
      DEF KillTask, task, env, frame, InboxTypes
    <3>2. TaskTypes'
      <4>0. PICK v : v = victim[f]
        OBVIOUS
      <4>1. terminal' = [terminal EXCEPT ![v] = terminal[v] + 1]
        BY <1>1, <4>0 DEF KillTask
      <4>2. terminal' \in [Turns -> Nat]
        <5>1. terminal \in [Turns -> Nat]
          BY TypeParts DEF TaskTypes
        <5>2. CASE v \in Turns
          BY <4>1, <5>1, <5>2
        <5>3. CASE v \notin Turns
          <6>1. terminal' = terminal
            BY <4>1, <5>1, <5>3
          <6> QED
            BY <5>1, <6>1
        <5> QED
          BY <5>2, <5>3
      <4> QED
        BY <1>1, <4>2, TypeParts DEF KillTask, task, TaskTypes
    <3>3. FrameTypes'
      BY <1>1, SeqTypes, TypeParts
      DEF KillTask, task, env, frame, FrameTypes
    <3>4. EnvTypes'
      BY <1>1, SeqTypes, TypeParts
      DEF KillTask, task, env, frame, EnvTypes
    <3>5. pc' \in [Fibers -> Labels]
      BY <1>1, SeqTypes, TypeParts
      DEF KillTask, task, env, frame, Labels
    <3> QED
      BY <3>1, <3>2, <3>3, <3>4, <3>5
      DEF TypeOK, InboxTypes, TaskTypes, FrameTypes, EnvTypes
  <2>3. FrameOK'
    BY <1>1 DEF KillTask, FrameOK, TypeOK, frame
  <2> QED
    BY <2>2, <2>3
<1>2. ASSUME CheckPendingWork(f) PROVE Typed'
  <2>2. TypeOK'
    <3>1. InboxTypes'
      BY <1>2, TypeParts
      DEF CheckPendingWork, Goto, Return, inbox, task, env, frame, InboxTypes
    <3>2. TaskTypes'
      BY <1>2, TypeParts
      DEF CheckPendingWork, Goto, Return, inbox, task, env, frame, TaskTypes
    <3>3. FrameTypes'
      BY <1>2, TypeParts
      DEF CheckPendingWork, Goto, Return, inbox, task, env, frame, FrameTypes
    <3>4. EnvTypes'
      BY <1>2, TypeParts
      DEF CheckPendingWork, Goto, Return, inbox, task, env, frame, EnvTypes
    <3>5. pc' \in [Fibers -> Labels]
      BY <1>2, TypeParts
      DEF CheckPendingWork, Goto, Return, inbox, task, env, frame, Labels
    <3> QED
      BY <3>1, <3>2, <3>3, <3>4, <3>5
      DEF TypeOK, InboxTypes, TaskTypes, FrameTypes, EnvTypes
  <2>3. FrameOK'
    BY <1>2 DEF CheckPendingWork, Goto, Return, FrameOK, TypeOK, frame
  <2> QED
    BY <2>2, <2>3
<1>3. ASSUME NotIdle(f) PROVE Typed'
  <2>2. TypeOK'
    <3>1. InboxTypes'
      BY <1>3, TypeParts
      DEF NotIdle, Goto, Return, inbox, task, env, frame, InboxTypes
    <3>2. TaskTypes'
      BY <1>3, TypeParts
      DEF NotIdle, Goto, Return, inbox, task, env, frame, TaskTypes
    <3>3. FrameTypes'
      BY <1>3, TypeParts
      DEF NotIdle, Goto, Return, inbox, task, env, frame, FrameTypes
    <3>4. EnvTypes'
      BY <1>3, TypeParts
      DEF NotIdle, Goto, Return, inbox, task, env, frame, EnvTypes
    <3>5. pc' \in [Fibers -> Labels]
      BY <1>3, TypeParts
      DEF NotIdle, Goto, Return, inbox, task, env, frame, Labels
    <3> QED
      BY <3>1, <3>2, <3>3, <3>4, <3>5
      DEF TypeOK, InboxTypes, TaskTypes, FrameTypes, EnvTypes
  <2>3. FrameOK'
    BY <1>3 DEF NotIdle, Goto, Return, FrameOK, TypeOK, frame
  <2> QED
    BY <2>2, <2>3
<1>4. ASSUME NEW t \in Turns, ReserveForPendingWork(f, t) PROVE Typed'
  <2>1. <<t, "reserve">> \in TurnStates
    BY DEF TurnStates
  <2>2. TypeOK'
    <3>1. InboxTypes'
      BY <1>4, <2>1, SeqTypes, TypeParts
      DEF ReserveForPendingWork, Reserve, CreateTurn, Goto, inbox, env, InboxTypes
    <3>2. TaskTypes'
      BY <1>4, <2>1, SeqTypes, TypeParts
      DEF ReserveForPendingWork, Reserve, CreateTurn, Goto, inbox, env, TaskTypes
    <3>3. FrameTypes'
      BY <1>4, <2>1, SeqTypes, TypeParts
      DEF ReserveForPendingWork, Reserve, CreateTurn, Goto, inbox, env, FrameTypes
    <3>4. EnvTypes'
      BY <1>4, <2>1, SeqTypes, TypeParts
      DEF ReserveForPendingWork, Reserve, CreateTurn, Goto, inbox, env, EnvTypes
    <3>5. pc' \in [Fibers -> Labels]
      BY <1>4, <2>1, SeqTypes, TypeParts
      DEF ReserveForPendingWork, Reserve, CreateTurn, Goto, inbox, env, Labels
    <3> QED
      BY <3>1, <3>2, <3>3, <3>4, <3>5
      DEF TypeOK, InboxTypes, TaskTypes, FrameTypes, EnvTypes
  <2>3. FrameOK'
    BY <1>4, <2>1 DEF ReserveForPendingWork, Reserve, CreateTurn, Goto, FrameOK, TypeOK
  <2> QED
    BY <2>2, <2>3
<1>5. ASSUME CollectPendingWork(f) PROVE Typed'
  <2>1. /\ pending' \in [TurnStates -> Seq(Items)]
        /\ held' \in [Fibers -> Seq(Items)] /\ mailbox' \in Seq(Mails)
    BY <1>5, DrainTyped DEF CollectPendingWork
  <2>2. TypeOK'
    <3>1. InboxTypes'
      BY <1>5, <2>1, TypeParts
      DEF CollectPendingWork, Goto, task, env, InboxTypes
    <3>2. TaskTypes'
      BY <1>5, <2>1, TypeParts
      DEF CollectPendingWork, Goto, task, env, TaskTypes
    <3>3. FrameTypes'
      BY <1>5, <2>1, TypeParts
      DEF CollectPendingWork, Goto, task, env, FrameTypes
    <3>4. EnvTypes'
      BY <1>5, <2>1, TypeParts
      DEF CollectPendingWork, Goto, task, env, EnvTypes
    <3>5. pc' \in [Fibers -> Labels]
      BY <1>5, <2>1, TypeParts
      DEF CollectPendingWork, Goto, task, env, Labels
    <3> QED
      BY <3>1, <3>2, <3>3, <3>4, <3>5
      DEF TypeOK, InboxTypes, TaskTypes, FrameTypes, EnvTypes
  <2>3. FrameOK'
    BY <1>5 DEF CollectPendingWork, Goto, FrameOK, TypeOK
  <2> QED
    BY <2>2, <2>3
<1>6. ASSUME StashPendingWork(f) PROVE Typed'
  <2>1. ts[f] \in TurnStates
    BY <1>6 DEF StashPendingWork, FrameOK
  <2>2. TypeOK'
    <3>1. InboxTypes'
      BY <1>6, <2>1, SeqTypes, TypeParts
      DEF StashPendingWork, Goto, task, env, InboxTypes, FrameTypes
    <3>2. TaskTypes'
      BY <1>6, <2>1, SeqTypes, TypeParts
      DEF StashPendingWork, Goto, task, env, TaskTypes
    <3>3. FrameTypes'
      BY <1>6, <2>1, SeqTypes, TypeParts
      DEF StashPendingWork, Goto, task, env, FrameTypes
    <3>4. EnvTypes'
      BY <1>6, <2>1, SeqTypes, TypeParts
      DEF StashPendingWork, Goto, task, env, EnvTypes
    <3>5. pc' \in [Fibers -> Labels]
      BY <1>6, <2>1, SeqTypes, TypeParts
      DEF StashPendingWork, Goto, task, env, Labels
    <3> QED
      BY <3>1, <3>2, <3>3, <3>4, <3>5
      DEF TypeOK, InboxTypes, TaskTypes, FrameTypes, EnvTypes
  <2>3. FrameOK'
    BY <1>6 DEF StashPendingWork, Goto, FrameOK, TypeOK
  <2> QED
    BY <2>2, <2>3
<1>7. ASSUME PrepareTask(f) PROVE Typed'
  <2>1. /\ GetOrInsert(f, "prepare") \in [ts : TurnStates, task : Turns \cup {None}]
        /\ active' = GetOrInsert(f, "prepare")
    BY <1>7, ActiveParts, TypeParts DEF PrepareTask, FrameOK, GetOrInsert, TurnStates, InboxTypes
  <2>2. mailbox \in Seq(Items) /\ active'.ts \in TurnStates
    BY <2>1, TypeParts, SeqTypes DEF InboxTypes
  <2>3. TypeOK'
    <3>1. InboxTypes'
      BY <1>7, <2>1, <2>2, SeqTypes, TypeParts
      DEF PrepareTask, Goto, task, env, frame, InboxTypes
    <3>2. TaskTypes'
      BY <1>7, <2>1, <2>2, SeqTypes, TypeParts
      DEF PrepareTask, Goto, task, env, frame, TaskTypes
    <3>3. FrameTypes'
      BY <1>7, <2>1, <2>2, SeqTypes, TypeParts
      DEF PrepareTask, Goto, task, env, frame, FrameTypes
    <3>4. EnvTypes'
      BY <1>7, <2>1, <2>2, SeqTypes, TypeParts
      DEF PrepareTask, Goto, task, env, frame, EnvTypes
    <3>5. pc' \in [Fibers -> Labels]
      BY <1>7, <2>1, <2>2, SeqTypes, TypeParts
      DEF PrepareTask, Goto, task, env, frame, Labels
    <3> QED
      BY <3>1, <3>2, <3>3, <3>4, <3>5
      DEF TypeOK, InboxTypes, TaskTypes, FrameTypes, EnvTypes
  <2>4. FrameOK'
    BY <1>7 DEF PrepareTask, Goto, FrameOK, TypeOK, frame
  <2> QED
    BY <2>3, <2>4
<1>8. ASSUME InstallTask(f) PROVE Typed'
  <2>1. /\ GetOrInsert(f, "install") \in [ts : TurnStates, task : Turns \cup {None}]
        /\ starting[f] \in Turns
    BY <1>8, ActiveParts, TypeParts DEF InstallTask, FrameOK, GetOrInsert, TurnStates, InboxTypes
  <2>2. active' \in [ts : TurnStates, task : Turns \cup {None}]
    BY <1>8, <2>1 DEF InstallTask
  <2>3. TypeOK'
    <3>1. InboxTypes'
      BY <1>8, <2>1, <2>2, TypeParts
      DEF InstallTask, Return, inbox, task, env, InboxTypes
    <3>2. TaskTypes'
      BY <1>8, <2>1, <2>2, TypeParts
      DEF InstallTask, Return, inbox, task, env, TaskTypes
    <3>3. FrameTypes'
      BY <1>8, <2>1, <2>2, TypeParts
      DEF InstallTask, Return, inbox, task, env, FrameTypes
    <3>4. EnvTypes'
      BY <1>8, <2>1, <2>2, TypeParts
      DEF InstallTask, Return, inbox, task, env, EnvTypes
    <3>5. pc' \in [Fibers -> Labels]
      BY <1>8, <2>1, <2>2, TypeParts
      DEF InstallTask, Return, inbox, task, env, Labels
    <3> QED
      BY <3>1, <3>2, <3>3, <3>4, <3>5
      DEF TypeOK, InboxTypes, TaskTypes, FrameTypes, EnvTypes
  <2>4. FrameOK'
    BY <1>8, <2>1 DEF InstallTask, Return, FrameOK, TypeOK
  <2> QED
    BY <2>3, <2>4
<1> QED
  BY <1>1, <1>2, <1>3, <1>4, <1>5, <1>6, <1>7, <1>8 DEF StartingStep

\* What a stream does before it ends: it opens or closes the turn to mail and
\* may be sent again.
LEMMA StreamMoves ==
    ASSUME TypeOK, NEW t \in Turns, StreamStep(t)
    PROVE  /\ pc[t] \in Streaming
           /\ \E l \in Streaming : Goto(t, l)
           /\ \/ phase' = phase
              \/ /\ active.task = t
                 /\ \E d \in {"CurrentTurn", "NextTurn"} :
                        phase' = [phase EXCEPT ![active.ts] = d]
           /\ UNCHANGED <<active, pending, mailbox, recorded, kind, input,
                          cancelled, samples, starting, ts, held, why, victim,
                          left, submitted, steered, terminal>>
<1>0. pc \in [Fibers -> Labels] /\ t \in Fibers
  BY FiberKinds DEF TypeOK
<1>1. CASE StreamAnswer(t)
  <2>1. Goto(t, pc[t])
    BY <1>0, <1>1 DEF StreamAnswer, Goto
  <2> QED
    BY <1>1, <2>1 DEF StreamAnswer, task, frame, env
<1>2. CASE StreamToolCall(t)
  BY <1>2 DEF StreamToolCall, AcceptDelivery, Streaming, task, frame, env
<1>3. CASE RetryStream(t)
  BY <1>3 DEF RetryStream, Streaming, inbox, task, frame, env
<1> QED
  BY <1>1, <1>2, <1>3 DEF StreamStep

LEMMA TaskTyped ==
    ASSUME Typed, NEW t \in Turns, TaskStep(t)
    PROVE  Typed'
<1> USE DEF Typed
<1>0. t \in Fibers
  BY FiberKinds
\* A step of the task within its run, or to its end.
<1>1. ASSUME NEW l \in Working \cup {"check", "ended"}, Goto(t, l), UNCHANGED frame
      PROVE FrameOK'
  BY <1>0, <1>1 DEF Working, Goto, FrameOK, TypeOK, frame
<1>2. ASSUME RunOtherTask(t) PROVE Typed'
  <2>2. TypeOK'
    <3>1. InboxTypes'
      BY <1>0, <1>2, TypeParts
      DEF RunOtherTask, Goto, inbox, task, env, frame, InboxTypes
    <3>2. TaskTypes'
      BY <1>0, <1>2, TypeParts
      DEF RunOtherTask, Goto, inbox, task, env, frame, TaskTypes
    <3>3. FrameTypes'
      BY <1>0, <1>2, TypeParts
      DEF RunOtherTask, Goto, inbox, task, env, frame, FrameTypes
    <3>4. EnvTypes'
      BY <1>0, <1>2, TypeParts
      DEF RunOtherTask, Goto, inbox, task, env, frame, EnvTypes
    <3>5. pc' \in [Fibers -> Labels]
      BY <1>0, <1>2, TypeParts
      DEF RunOtherTask, Goto, inbox, task, env, frame, Labels
    <3> QED
      BY <3>1, <3>2, <3>3, <3>4, <3>5
      DEF TypeOK, InboxTypes, TaskTypes, FrameTypes, EnvTypes
  <2>3. FrameOK'
    BY <1>0, <1>2 DEF RunOtherTask, Goto, FrameOK, TypeOK, frame
  <2> QED
    BY <2>2, <2>3
<1>3. ASSUME FailBeforeRecording(t) PROVE Typed'
  <2>2. TypeOK'
    <3>1. InboxTypes'
      BY <1>0, <1>3, SeqTypes, TypeParts
      DEF FailBeforeRecording, Goto, CountSample, inbox, env, frame, InboxTypes
    <3>2. TaskTypes'
      BY <1>0, <1>3, SeqTypes, TypeParts, Counting
      DEF FailBeforeRecording, Goto, inbox, env, frame, TaskTypes
    <3>3. FrameTypes'
      BY <1>0, <1>3, SeqTypes, TypeParts
      DEF FailBeforeRecording, Goto, CountSample, inbox, env, frame, FrameTypes
    <3>4. EnvTypes'
      BY <1>0, <1>3, SeqTypes, TypeParts
      DEF FailBeforeRecording, Goto, CountSample, inbox, env, frame, EnvTypes
    <3>5. pc' \in [Fibers -> Labels]
      BY <1>0, <1>3, SeqTypes, TypeParts
      DEF FailBeforeRecording, Goto, CountSample, inbox, env, frame, Labels
    <3> QED
      BY <3>1, <3>2, <3>3, <3>4, <3>5
      DEF TypeOK, InboxTypes, TaskTypes, FrameTypes, EnvTypes
  <2>3. FrameOK'
    BY <1>0, <1>3, SeqTypes DEF FailBeforeRecording, Goto, FrameOK, TypeOK, frame
  <2> QED
    BY <2>2, <2>3
<1>4. ASSUME RecordStartInput(t) PROVE Typed'
  <2>2. TypeOK'
    <3>1. InboxTypes'
      BY <1>0, <1>4, SeqTypes, TypeParts
      DEF RecordStartInput, Goto, inbox, env, frame, InboxTypes, TaskTypes
    <3>2. TaskTypes'
      BY <1>0, <1>4, SeqTypes, TypeParts
      DEF RecordStartInput, Goto, inbox, env, frame, TaskTypes
    <3>3. FrameTypes'
      BY <1>0, <1>4, SeqTypes, TypeParts
      DEF RecordStartInput, Goto, inbox, env, frame, FrameTypes
    <3>4. EnvTypes'
      BY <1>0, <1>4, SeqTypes, TypeParts
      DEF RecordStartInput, Goto, inbox, env, frame, EnvTypes
    <3>5. pc' \in [Fibers -> Labels]
      BY <1>0, <1>4, SeqTypes, TypeParts
      DEF RecordStartInput, Goto, inbox, env, frame, Labels
    <3> QED
      BY <3>1, <3>2, <3>3, <3>4, <3>5
      DEF TypeOK, InboxTypes, TaskTypes, FrameTypes, EnvTypes
  <2>3. FrameOK'
    BY <1>0, <1>4, SeqTypes DEF RecordStartInput, Goto, FrameOK, TypeOK, frame
  <2> QED
    BY <2>2, <2>3
<1>5. ASSUME DrainPendingInput(t) PROVE Typed'
  <2>1. /\ pending' \in [TurnStates -> Seq(Items)]
        /\ held' \in [Fibers -> Seq(Items)] /\ mailbox' \in Seq(Mails)
    BY <1>0, <1>5, DrainTyped DEF DrainPendingInput
  <2>2. TypeOK'
    <3>1. InboxTypes'
      BY <1>0, <1>5, <2>1, TypeParts
      DEF DrainPendingInput, Goto, task, env, InboxTypes
    <3>2. TaskTypes'
      BY <1>0, <1>5, <2>1, TypeParts
      DEF DrainPendingInput, Goto, task, env, TaskTypes
    <3>3. FrameTypes'
      BY <1>0, <1>5, <2>1, TypeParts
      DEF DrainPendingInput, Goto, task, env, FrameTypes
    <3>4. EnvTypes'
      BY <1>0, <1>5, <2>1, TypeParts
      DEF DrainPendingInput, Goto, task, env, EnvTypes
    <3>5. pc' \in [Fibers -> Labels]
      BY <1>0, <1>5, <2>1, TypeParts
      DEF DrainPendingInput, Goto, task, env, Labels
    <3> QED
      BY <3>1, <3>2, <3>3, <3>4, <3>5
      DEF TypeOK, InboxTypes, TaskTypes, FrameTypes, EnvTypes
  <2>3. FrameOK'
    BY <1>0, <1>5, <2>1 DEF DrainPendingInput, Goto, FrameOK, TypeOK
  <2> QED
    BY <2>2, <2>3
<1>6. ASSUME RecordPendingInput(t) PROVE Typed'
  <2>2. TypeOK'
    <3>1. InboxTypes'
      BY <1>0, <1>6, SeqTypes, TypeParts
      DEF RecordPendingInput, Goto, inbox, task, env, InboxTypes, FrameTypes
    <3>2. TaskTypes'
      BY <1>0, <1>6, SeqTypes, TypeParts
      DEF RecordPendingInput, Goto, inbox, task, env, TaskTypes
    <3>3. FrameTypes'
      BY <1>0, <1>6, SeqTypes, TypeParts
      DEF RecordPendingInput, Goto, inbox, task, env, FrameTypes
    <3>4. EnvTypes'
      BY <1>0, <1>6, SeqTypes, TypeParts
      DEF RecordPendingInput, Goto, inbox, task, env, EnvTypes
    <3>5. pc' \in [Fibers -> Labels]
      BY <1>0, <1>6, SeqTypes, TypeParts
      DEF RecordPendingInput, Goto, inbox, task, env, Labels
    <3> QED
      BY <3>1, <3>2, <3>3, <3>4, <3>5
      DEF TypeOK, InboxTypes, TaskTypes, FrameTypes, EnvTypes
  <2>3. FrameOK'
    BY <1>0, <1>6, SeqTypes DEF RecordPendingInput, Goto, FrameOK, TypeOK
  <2> QED
    BY <2>2, <2>3
<1>7. ASSUME SampleFollowUp(t) PROVE Typed'
  <2>2. TypeOK'
    <3>1. InboxTypes'
      BY <1>0, <1>7, TypeParts
      DEF SampleFollowUp, Goto, CountSample, AcceptDelivery, env, frame, InboxTypes
    <3>2. TaskTypes'
      BY <1>0, <1>7, TypeParts, Counting
      DEF SampleFollowUp, Goto, AcceptDelivery, env, frame, TaskTypes
    <3>3. FrameTypes'
      BY <1>0, <1>7, TypeParts
      DEF SampleFollowUp, Goto, CountSample, AcceptDelivery, env, frame, FrameTypes
    <3>4. EnvTypes'
      BY <1>0, <1>7, TypeParts
      DEF SampleFollowUp, Goto, CountSample, AcceptDelivery, env, frame, EnvTypes
    <3>5. pc' \in [Fibers -> Labels]
      BY <1>0, <1>7, TypeParts
      DEF SampleFollowUp, Goto, CountSample, AcceptDelivery, env, frame, Labels
    <3> QED
      BY <3>1, <3>2, <3>3, <3>4, <3>5
      DEF TypeOK, InboxTypes, TaskTypes, FrameTypes, EnvTypes
  <2>3. FrameOK'
    BY <1>0, <1>7 DEF SampleFollowUp, Goto, FrameOK, TypeOK, frame
  <2> QED
    BY <2>2, <2>3
<1>8. ASSUME SampleAnswer(t) PROVE Typed'
  <2>2. TypeOK'
    <3>1. InboxTypes'
      BY <1>0, <1>8, TypeParts
      DEF SampleAnswer, Goto, inbox, task, env, frame, InboxTypes
    <3>2. TaskTypes'
      BY <1>0, <1>8, TypeParts
      DEF SampleAnswer, Goto, inbox, task, env, frame, TaskTypes
    <3>3. FrameTypes'
      BY <1>0, <1>8, TypeParts
      DEF SampleAnswer, Goto, inbox, task, env, frame, FrameTypes
    <3>4. EnvTypes'
      BY <1>0, <1>8, TypeParts
      DEF SampleAnswer, Goto, inbox, task, env, frame, EnvTypes
    <3>5. pc' \in [Fibers -> Labels]
      BY <1>0, <1>8, TypeParts
      DEF SampleAnswer, Goto, inbox, task, env, frame, Labels
    <3> QED
      BY <3>1, <3>2, <3>3, <3>4, <3>5
      DEF TypeOK, InboxTypes, TaskTypes, FrameTypes, EnvTypes
  <2>3. FrameOK'
    BY <1>0, <1>8 DEF SampleAnswer, Goto, FrameOK, TypeOK, frame
  <2> QED
    BY <2>2, <2>3
<1>9. ASSUME SampleFails(t) PROVE Typed'
  <2>2. TypeOK'
    <3>1. InboxTypes'
      BY <1>0, <1>9, TypeParts
      DEF SampleFails, Goto, inbox, task, env, frame, InboxTypes
    <3>2. TaskTypes'
      BY <1>0, <1>9, TypeParts
      DEF SampleFails, Goto, inbox, task, env, frame, TaskTypes
    <3>3. FrameTypes'
      BY <1>0, <1>9, TypeParts
      DEF SampleFails, Goto, inbox, task, env, frame, FrameTypes
    <3>4. EnvTypes'
      BY <1>0, <1>9, TypeParts
      DEF SampleFails, Goto, inbox, task, env, frame, EnvTypes
    <3>5. pc' \in [Fibers -> Labels]
      BY <1>0, <1>9, TypeParts
      DEF SampleFails, Goto, inbox, task, env, frame, Labels
    <3> QED
      BY <3>1, <3>2, <3>3, <3>4, <3>5
      DEF TypeOK, InboxTypes, TaskTypes, FrameTypes, EnvTypes
  <2>3. FrameOK'
    BY <1>0, <1>9 DEF SampleFails, Goto, FrameOK, TypeOK, frame
  <2> QED
    BY <2>2, <2>3
<1>10. ASSUME Decide(t) PROVE Typed'
  <2>2. TypeOK'
    <3>1. InboxTypes'
      BY <1>0, <1>10, TypeParts
      DEF Decide, Goto, CountSample, inbox, env, frame, InboxTypes
    <3>2. TaskTypes'
      BY <1>0, <1>10, TypeParts, Counting
      DEF Decide, Goto, inbox, env, frame, TaskTypes
    <3>3. FrameTypes'
      BY <1>0, <1>10, TypeParts
      DEF Decide, Goto, CountSample, inbox, env, frame, FrameTypes
    <3>4. EnvTypes'
      BY <1>0, <1>10, TypeParts
      DEF Decide, Goto, CountSample, inbox, env, frame, EnvTypes
    <3>5. pc' \in [Fibers -> Labels]
      BY <1>0, <1>10, TypeParts
      DEF Decide, Goto, CountSample, inbox, env, frame, Labels
    <3> QED
      BY <3>1, <3>2, <3>3, <3>4, <3>5
      DEF TypeOK, InboxTypes, TaskTypes, FrameTypes, EnvTypes
  <2>3. FrameOK'
    BY <1>0, <1>10 DEF Decide, Goto, FrameOK, TypeOK, frame
  <2> QED
    BY <2>2, <2>3
<1>11. ASSUME StopHookBlocks(t) PROVE Typed'
  <2>2. TypeOK'
    <3>1. InboxTypes'
      BY <1>0, <1>11, TypeParts
      DEF StopHookBlocks, Goto, CountSample, AcceptDelivery, env, frame, InboxTypes
    <3>2. TaskTypes'
      BY <1>0, <1>11, TypeParts, Counting
      DEF StopHookBlocks, Goto, AcceptDelivery, env, frame, TaskTypes
    <3>3. FrameTypes'
      BY <1>0, <1>11, TypeParts
      DEF StopHookBlocks, Goto, CountSample, AcceptDelivery, env, frame, FrameTypes
    <3>4. EnvTypes'
      BY <1>0, <1>11, TypeParts
      DEF StopHookBlocks, Goto, CountSample, AcceptDelivery, env, frame, EnvTypes
    <3>5. pc' \in [Fibers -> Labels]
      BY <1>0, <1>11, TypeParts
      DEF StopHookBlocks, Goto, CountSample, AcceptDelivery, env, frame, Labels
    <3> QED
      BY <3>1, <3>2, <3>3, <3>4, <3>5
      DEF TypeOK, InboxTypes, TaskTypes, FrameTypes, EnvTypes
  <2>3. FrameOK'
    BY <1>0, <1>11 DEF StopHookBlocks, Goto, FrameOK, TypeOK, frame
  <2> QED
    BY <2>2, <2>3
<1>12. ASSUME RunAgain(t) PROVE Typed'
  <2>2. TypeOK'
    <3>1. InboxTypes'
      BY <1>0, <1>12, TypeParts
      DEF RunAgain, Goto, inbox, task, env, frame, InboxTypes
    <3>2. TaskTypes'
      BY <1>0, <1>12, TypeParts
      DEF RunAgain, Goto, inbox, task, env, frame, TaskTypes
    <3>3. FrameTypes'
      BY <1>0, <1>12, TypeParts
      DEF RunAgain, Goto, inbox, task, env, frame, FrameTypes
    <3>4. EnvTypes'
      BY <1>0, <1>12, TypeParts
      DEF RunAgain, Goto, inbox, task, env, frame, EnvTypes
    <3>5. pc' \in [Fibers -> Labels]
      BY <1>0, <1>12, TypeParts
      DEF RunAgain, Goto, inbox, task, env, frame, Labels
    <3> QED
      BY <3>1, <3>2, <3>3, <3>4, <3>5
      DEF TypeOK, InboxTypes, TaskTypes, FrameTypes, EnvTypes
  <2>3. FrameOK'
    BY <1>0, <1>12 DEF RunAgain, Goto, FrameOK, TypeOK, frame
  <2> QED
    BY <2>2, <2>3
<1>13. ASSUME FlushTask(t) PROVE Typed'
  <2>2. TypeOK'
    <3>1. InboxTypes'
      BY <1>0, <1>13, TypeParts
      DEF FlushTask, Goto, inbox, task, env, frame, InboxTypes
    <3>2. TaskTypes'
      BY <1>0, <1>13, TypeParts
      DEF FlushTask, Goto, inbox, task, env, frame, TaskTypes
    <3>3. FrameTypes'
      BY <1>0, <1>13, TypeParts
      DEF FlushTask, Goto, inbox, task, env, frame, FrameTypes
    <3>4. EnvTypes'
      BY <1>0, <1>13, TypeParts
      DEF FlushTask, Goto, inbox, task, env, frame, EnvTypes
    <3>5. pc' \in [Fibers -> Labels]
      BY <1>0, <1>13, TypeParts
      DEF FlushTask, Goto, inbox, task, env, frame, Labels
    <3> QED
      BY <3>1, <3>2, <3>3, <3>4, <3>5
      DEF TypeOK, InboxTypes, TaskTypes, FrameTypes, EnvTypes
  <2>3. FrameOK'
    BY <1>0, <1>13 DEF FlushTask, Goto, FrameOK, TypeOK, frame
  <2> QED
    BY <2>2, <2>3
<1>14. ASSUME FinishTask(t) PROVE Typed'
  <2>2. TypeOK'
    <3>1. InboxTypes'
      BY <1>0, <1>14, ActiveParts, TypeParts
      DEF FinishTask, Goto, inbox, task, env, InboxTypes
    <3>2. TaskTypes'
      BY <1>0, <1>14, ActiveParts, TypeParts
      DEF FinishTask, Goto, inbox, task, env, TaskTypes
    <3>3. FrameTypes'
      BY <1>0, <1>14, ActiveParts, TypeParts
      DEF FinishTask, Goto, inbox, task, env, FrameTypes
    <3>4. EnvTypes'
      BY <1>0, <1>14, ActiveParts, TypeParts
      DEF FinishTask, Goto, inbox, task, env, EnvTypes
    <3>5. pc' \in [Fibers -> Labels]
      BY <1>0, <1>14, ActiveParts, TypeParts
      DEF FinishTask, Goto, inbox, task, env, Labels
    <3> QED
      BY <3>1, <3>2, <3>3, <3>4, <3>5
      DEF TypeOK, InboxTypes, TaskTypes, FrameTypes, EnvTypes
  <2>3. FrameOK'
    <3>1. \/ Goto(t, "ended") /\ UNCHANGED ts
          \/ /\ ts' = [ts EXCEPT ![t] = active.ts] /\ active.ts \in TurnStates
             /\ Goto(t, "report")
      BY <1>14, ActiveParts DEF FinishTask
    <3> QED
      BY <1>0, <1>14, <3>1 DEF FinishTask, Goto, FrameOK, TypeOK
  <2> QED
    BY <2>2, <2>3
<1>15. ASSUME ReportCompletion(t) PROVE Typed'
  <2>1. ts[t] \in TurnStates
    BY <1>0, <1>15 DEF ReportCompletion, FrameOK
  <2>2. TypeOK'
    <3>1. InboxTypes'
      BY <1>0, <1>15, <2>1, SeqTypes, TypeParts
      DEF ReportCompletion, Goto, task, env, frame, InboxTypes
    <3>2. TaskTypes'
      BY <1>0, <1>15, <2>1, SeqTypes, TypeParts
      DEF ReportCompletion, Goto, task, env, frame, TaskTypes
    <3>3. FrameTypes'
      BY <1>0, <1>15, <2>1, SeqTypes, TypeParts
      DEF ReportCompletion, Goto, task, env, frame, FrameTypes
    <3>4. EnvTypes'
      BY <1>0, <1>15, <2>1, SeqTypes, TypeParts
      DEF ReportCompletion, Goto, task, env, frame, EnvTypes
    <3>5. pc' \in [Fibers -> Labels]
      BY <1>0, <1>15, <2>1, SeqTypes, TypeParts
      DEF ReportCompletion, Goto, task, env, frame, Labels
    <3> QED
      BY <3>1, <3>2, <3>3, <3>4, <3>5
      DEF TypeOK, InboxTypes, TaskTypes, FrameTypes, EnvTypes
  <2>3. FrameOK'
    BY <1>0, <1>15, <2>1, SeqTypes DEF ReportCompletion, Goto, FrameOK, TypeOK, frame
  <2> QED
    BY <2>2, <2>3
<1>16. ASSUME ClearActiveTurn(t) PROVE Typed'
  <2>2. TypeOK'
    <3>1. InboxTypes'
      BY <1>0, <1>16, TypeParts
      DEF ClearActiveTurn, Goto, ClearReservation, inbox, task, env, frame, InboxTypes
    <3>2. TaskTypes'
      BY <1>0, <1>16, TypeParts
      DEF ClearActiveTurn, Goto, ClearReservation, inbox, task, env, frame, TaskTypes
    <3>3. FrameTypes'
      BY <1>0, <1>16, TypeParts
      DEF ClearActiveTurn, Goto, ClearReservation, inbox, task, env, frame, FrameTypes
    <3>4. EnvTypes'
      BY <1>0, <1>16, TypeParts
      DEF ClearActiveTurn, Goto, ClearReservation, inbox, task, env, frame, EnvTypes
    <3>5. pc' \in [Fibers -> Labels]
      BY <1>0, <1>16, TypeParts
      DEF ClearActiveTurn, Goto, ClearReservation, inbox, task, env, frame, Labels
    <3> QED
      BY <3>1, <3>2, <3>3, <3>4, <3>5
      DEF TypeOK, InboxTypes, TaskTypes, FrameTypes, EnvTypes
  <2>3. FrameOK'
    BY <1>0, <1>16 DEF ClearActiveTurn, Goto, FrameOK, TypeOK, frame
  <2> QED
    BY <2>2, <2>3
<1>17. ASSUME SendRequest(t) PROVE Typed'
  <2>2. TypeOK'
    <3>1. InboxTypes'
      BY <1>0, <1>17, TypeParts
      DEF SendRequest, Goto, inbox, task, env, frame, InboxTypes
    <3>2. TaskTypes'
      BY <1>0, <1>17, TypeParts
      DEF SendRequest, Goto, inbox, task, env, frame, TaskTypes
    <3>3. FrameTypes'
      BY <1>0, <1>17, TypeParts
      DEF SendRequest, Goto, inbox, task, env, frame, FrameTypes
    <3>4. EnvTypes'
      BY <1>0, <1>17, TypeParts
      DEF SendRequest, Goto, inbox, task, env, frame, EnvTypes
    <3>5. pc' \in [Fibers -> Labels]
      BY <1>0, <1>17, TypeParts
      DEF SendRequest, Goto, inbox, task, env, frame, Labels
    <3> QED
      BY <3>1, <3>2, <3>3, <3>4, <3>5
      DEF TypeOK, InboxTypes, TaskTypes, FrameTypes, EnvTypes
  <2>3. FrameOK'
    BY <1>0, <1>17 DEF SendRequest, Goto, FrameOK, TypeOK, frame
  <2> QED
    BY <2>2, <2>3
<1>18. ASSUME StreamStep(t) PROVE Typed'
  <2>1. PICK l \in Streaming : Goto(t, l)
    BY <1>18, StreamMoves
  <2>2. TypeOK'
    <3>1. InboxTypes'
      BY <1>18, StreamMoves, TypeParts, ActiveParts DEF InboxTypes
    <3>2. TaskTypes'
      BY <1>18, StreamMoves, TypeParts DEF TaskTypes
    <3>3. FrameTypes'
      BY <1>18, StreamMoves, TypeParts DEF FrameTypes
    <3>4. EnvTypes'
      BY <1>18, StreamMoves, TypeParts DEF EnvTypes
    <3>5. pc' \in [Fibers -> Labels]
      BY <1>0, <2>1, TypeParts DEF Goto, Streaming, Labels
    <3> QED
      BY <3>1, <3>2, <3>3, <3>4, <3>5
      DEF TypeOK, InboxTypes, TaskTypes, FrameTypes, EnvTypes
  <2>3. UNCHANGED frame
    BY <1>18, StreamMoves DEF frame
  <2>4. FrameOK'
    BY <1>1, <2>1, <2>3 DEF Streaming, Working
  <2> QED
    BY <2>2, <2>4
<1> QED
  BY <1>2, <1>3, <1>4, <1>5, <1>6, <1>7, <1>8, <1>9, <1>10, <1>11, <1>12, <1>13, <1>14,
     <1>15, <1>16, <1>17, <1>18 DEF TaskStep, Advance

\* Every step keeps the types.
LEMMA StepTyped ==
    ASSUME Typed, [Next]_vars
    PROVE  Typed'
<1>1. ASSUME UNCHANGED vars PROVE Typed'
  BY <1>1 DEF Typed, TypeOK, FrameOK, vars, inbox, task, frame, env
<1> QED
  BY <1>1, EnvironmentTyped, LoopTyped, StartingTyped, TaskTyped DEF Next

LEMMA AlwaysTyped == Spec => []Typed
  BY InitTyped, StepTyped, PTL DEF Spec

\* Every variable keeps its type, and a fiber has the turn and the turn state
\* it works on whenever a step of start_task, handle_task_abort or
\* on_task_finished uses them, whatever the clients, the mails and the breaker
\* do.
THEOREM TypeCorrect == Spec => []TypeOK
<1>1. Typed => TypeOK
  BY DEF Typed
<1> QED
  BY <1>1, AlwaysTyped, PTL

-----------------------------------------------------------------------------
(* An item is in one place at a time.                                      *)

Lists == [Boxes -> Seq(Items)]

\* No item is in two places, and every item in a list was submitted.
Once(B, S) ==
    /\ \A a, b \in Boxes : \A m \in DOMAIN B[a], n \in DOMAIN B[b] :
           B[a][m] = B[b][n] => a = b /\ m = n
    /\ \A a \in Boxes : \A m \in DOMAIN B[a] : B[a][m] \in S

\* Lists are kept or emptied.
Drops(B, C) == \A b \in Boxes : C[b] = B[b] \/ C[b] = <<>>
\* The list x is moved to the end of y.
Moves(B, C, x, y) ==
    /\ x # y /\ C[x] = <<>> /\ C[y] = B[y] \o B[x]
    /\ \A b \in Boxes \ {x, y} : C[b] = B[b]
\* The list x replaces z.
Takes(B, C, x, z) ==
    /\ x # z /\ C[x] = <<>> /\ C[z] = B[x]
    /\ \A b \in Boxes \ {x, z} : C[b] = B[b]
\* The lists x and y, one after the other, replace z.
TakesBoth(B, C, x, y, z) ==
    /\ x # y /\ x # z /\ y # z
    /\ C[x] = <<>> /\ C[y] = <<>> /\ C[z] = B[x] \o B[y]
    /\ \A b \in Boxes \ {x, y, z} : C[b] = B[b]
\* The item i is put at the end of y, or replaces it; other lists are kept or
\* emptied.
Places(B, C, y, i) ==
    /\ C[y] = Append(B[y], i) \/ C[y] = <<i>>
    /\ \A b \in Boxes \ {y} : C[b] = B[b] \/ C[b] = <<>>

\* What is in two lists put together, and in a list with one more item.
LEMMA Concatenated ==
    ASSUME NEW T, NEW s \in Seq(T), NEW r \in Seq(T), NEW q, q = s \o r,
           NEW m \in DOMAIN q
    PROVE  /\ m \in Nat
           /\ \/ m \in DOMAIN s /\ q[m] = s[m]
              \/ m - Len(s) \in DOMAIN r /\ q[m] = r[m - Len(s)]
<1>1. m \in 1..(Len(s) + Len(r)) /\ DOMAIN s = 1..Len(s) /\ DOMAIN r = 1..Len(r)
      /\ Len(s) \in Nat /\ Len(r) \in Nat
  OBVIOUS
<1>2. CASE m <= Len(s)
  BY <1>1, <1>2
<1>3. CASE m > Len(s)
  BY <1>1, <1>3
<1> QED
  BY <1>1, <1>2, <1>3

LEMMA Appended ==
    ASSUME NEW T, NEW s \in Seq(T), NEW i, NEW q, q = Append(s, i),
           NEW m \in DOMAIN q
    PROVE  \/ m \in DOMAIN s /\ q[m] = s[m]
           \/ m = Len(q) /\ q[m] = i
  OBVIOUS

LEMMA Dropped ==
    ASSUME NEW B \in Lists, NEW C \in Lists, NEW S, Once(B, S),
           Drops(B, C)
    PROVE  Once(C, S)
  BY DEF Once, Lists, Drops

LEMMA Moved ==
    ASSUME NEW B \in Lists, NEW C \in Lists, NEW S, Once(B, S),
           NEW x \in Boxes, NEW y \in Boxes, Moves(B, C, x, y)
    PROVE  Once(C, S)
<1> USE DEF Moves
<1>1. ASSUME NEW a \in Boxes, NEW m \in DOMAIN C[a]
      PROVE  \/ a # x /\ m \in DOMAIN B[a] /\ C[a][m] = B[a][m]
             \/ /\ a = y /\ m \in Nat /\ m - Len(B[y]) \in DOMAIN B[x]
                /\ C[a][m] = B[x][m - Len(B[y])]
  <2>1. CASE a = x
    BY <1>1, <2>1
  <2>2. CASE a = y
    <3>1. PICK s, r, q : s = B[y] /\ r = B[x] /\ q = C[y]
      OBVIOUS
    <3>2. s \in Seq(Items) /\ r \in Seq(Items) /\ q = s \o r /\ m \in DOMAIN q
      BY <1>1, <2>2, <3>1 DEF Lists
    <3>3. /\ m \in Nat
          /\ \/ m \in DOMAIN s /\ q[m] = s[m]
             \/ m - Len(s) \in DOMAIN r /\ q[m] = r[m - Len(s)]
      BY <3>2, Concatenated
    <3> QED
      BY <2>2, <3>1, <3>3
  <2>3. CASE a \notin {x, y}
    BY <1>1, <2>3
  <2> QED
    BY <2>1, <2>2, <2>3
<1>2. \A m, n \in Nat : m - Len(B[y]) = n - Len(B[y]) => m = n
  BY DEF Lists
<1>3. ASSUME NEW a \in Boxes, NEW b \in Boxes, NEW m \in DOMAIN C[a],
             NEW n \in DOMAIN C[b], C[a][m] = C[b][n]
      PROVE  a = b /\ m = n
  <2>1. CASE a # x /\ m \in DOMAIN B[a] /\ C[a][m] = B[a][m]
    <3>1. CASE b # x /\ n \in DOMAIN B[b] /\ C[b][n] = B[b][n]
      <4>1. B[a][m] = B[b][n]
        BY <1>3, <2>1, <3>1
      <4> QED
        BY <2>1, <3>1, <4>1 DEF Once
    <3>2. CASE /\ b = y /\ n \in Nat /\ n - Len(B[y]) \in DOMAIN B[x]
               /\ C[b][n] = B[x][n - Len(B[y])]
      <4>1. PICK k \in DOMAIN B[x] : B[a][m] = B[x][k]
        BY <1>3, <2>1, <3>2
      <4> QED
        BY <2>1, <4>1 DEF Once
    <3> QED
      BY <1>1, <3>1, <3>2
  <2>2. CASE /\ a = y /\ m \in Nat /\ m - Len(B[y]) \in DOMAIN B[x]
             /\ C[a][m] = B[x][m - Len(B[y])]
    <3>1. CASE b # x /\ n \in DOMAIN B[b] /\ C[b][n] = B[b][n]
      BY <1>3, <2>2, <3>1 DEF Once
    <3>2. CASE /\ b = y /\ n \in Nat /\ n - Len(B[y]) \in DOMAIN B[x]
               /\ C[b][n] = B[x][n - Len(B[y])]
      <4>1. m - Len(B[y]) = n - Len(B[y])
        BY <1>3, <2>2, <3>2 DEF Once
      <4> QED
        BY <1>2, <2>2, <3>2, <4>1
    <3> QED
      BY <1>1, <3>1, <3>2
  <2> QED
    BY <1>1, <2>1, <2>2
<1>4. ASSUME NEW a \in Boxes, NEW m \in DOMAIN C[a] PROVE C[a][m] \in S
  BY <1>1, <1>4 DEF Once
<1> QED
  BY <1>3, <1>4 DEF Once

LEMMA Taken ==
    ASSUME NEW B \in Lists, NEW C \in Lists, NEW S, Once(B, S),
           NEW x \in Boxes, NEW z \in Boxes, Takes(B, C, x, z)
    PROVE  Once(C, S)
<1>1. PICK D : D = [B EXCEPT ![z] = <<>>]
  OBVIOUS
<1>2. D \in Lists /\ Once(D, S)
  <2>1. D \in Lists
    BY <1>1, SeqTypes DEF Lists
  <2>2. Drops(B, D)
    BY <1>1 DEF Lists, Drops
  <2> QED
    BY <2>1, <2>2, Dropped
<1>3. Moves(D, C, x, z)
  BY <1>1 DEF Lists, Moves, Takes
<1> QED
  BY <1>2, <1>3, Moved

LEMMA TakenBoth ==
    ASSUME NEW B \in Lists, NEW C \in Lists, NEW S, Once(B, S),
           NEW x \in Boxes, NEW y \in Boxes, NEW z \in Boxes,
           TakesBoth(B, C, x, y, z)
    PROVE  Once(C, S)
<1>1. PICK D : D = [[B EXCEPT ![z] = B[x]] EXCEPT ![x] = <<>>]
  OBVIOUS
<1>2. D \in Lists /\ Once(D, S)
  <2>1. D \in Lists
    BY <1>1, SeqTypes DEF Lists
  <2>2. Takes(B, D, x, z)
    BY <1>1 DEF Lists, Takes, TakesBoth
  <2> QED
    BY <2>1, <2>2, Taken
<1>3. Moves(D, C, y, z)
  BY <1>1 DEF Lists, Moves, TakesBoth
<1> QED
  BY <1>2, <1>3, Moved

LEMMA Placed ==
    ASSUME NEW B \in Lists, NEW C \in Lists, NEW S, Once(B, S),
           NEW i, i \notin S, NEW y \in Boxes, Places(B, C, y, i)
    PROVE  Once(C, S \cup {i})
<1> USE DEF Places
<1>1. ASSUME NEW a \in Boxes, NEW m \in DOMAIN C[a]
      PROVE  \/ m \in DOMAIN B[a] /\ C[a][m] = B[a][m] /\ C[a][m] \in S
             \/ a = y /\ m = Len(C[y]) /\ C[a][m] = i
  <2>1. CASE a = y /\ C[y] = Append(B[y], i)
    <3>1. PICK s, q : s = B[y] /\ q = C[y]
      OBVIOUS
    <3>2. s \in Seq(Items) /\ q = Append(s, i) /\ m \in DOMAIN q
      BY <1>1, <2>1, <3>1 DEF Lists
    <3>3. \/ m \in DOMAIN s /\ q[m] = s[m]
          \/ m = Len(q) /\ q[m] = i
      BY <3>2, Appended
    <3> QED
      BY <2>1, <3>1, <3>3 DEF Once
  <2>2. CASE a = y /\ C[y] = <<i>>
    BY <1>1, <2>2
  <2>3. CASE a # y
    BY <1>1, <2>3 DEF Once, Lists
  <2> QED
    BY <2>1, <2>2, <2>3
<1>2. ASSUME NEW a \in Boxes, NEW b \in Boxes, NEW m \in DOMAIN C[a],
             NEW n \in DOMAIN C[b], C[a][m] = C[b][n]
      PROVE  a = b /\ m = n
  BY <1>1, <1>2 DEF Once
<1> QED
  BY <1>1, <1>2 DEF Once

\* The lists of a state.
Contents(mb, rec, pen, hel, inp) ==
    [b \in Boxes |-> CASE b[1] = "mailbox"  -> mb
                       [] b[1] = "recorded" -> rec
                       [] b[1] = "pending"  -> pen[b[2]]
                       [] b[1] = "held"     -> hel[b[2]]
                       [] b[1] = "input"    -> inp[b[2]]]
MailboxBox == <<"mailbox", None>>
RecordedBox == <<"recorded", None>>
PendingBox(s) == <<"pending", s>>
HeldBox(f) == <<"held", f>>
InputBox(t) == <<"input", t>>

\* The same, list by list.
Holds(B, mb, rec, pen, hel, inp) ==
    /\ B \in Lists
    /\ B[MailboxBox] = mb /\ B[RecordedBox] = rec
    /\ \A s \in TurnStates : B[PendingBox(s)] = pen[s]
    /\ \A f \in Fibers : B[HeldBox(f)] = hel[f]
    /\ \A t \in Turns : B[InputBox(t)] = inp[t]

LEMMA BoxKinds ==
    /\ MailboxBox \in Boxes /\ RecordedBox \in Boxes
    /\ \A s \in TurnStates : PendingBox(s) \in Boxes
    /\ \A f \in Fibers : HeldBox(f) \in Boxes
    /\ \A t \in Turns : InputBox(t) \in Boxes
    /\ \A b \in Boxes :
         \/ b = MailboxBox \/ b = RecordedBox
         \/ \E s \in TurnStates : b = PendingBox(s)
         \/ \E f \in Fibers : b = HeldBox(f)
         \/ \E t \in Turns : b = InputBox(t)
  BY DEF Boxes, MailboxBox, RecordedBox, PendingBox, HeldBox, InputBox

LEMMA BoxesApart ==
    /\ MailboxBox # RecordedBox
    /\ \A s : PendingBox(s) # MailboxBox /\ PendingBox(s) # RecordedBox
    /\ \A f : HeldBox(f) # MailboxBox /\ HeldBox(f) # RecordedBox
    /\ \A t : InputBox(t) # MailboxBox /\ InputBox(t) # RecordedBox
    /\ \A s, f : PendingBox(s) # HeldBox(f) /\ PendingBox(s) # InputBox(f)
    /\ \A f, t : HeldBox(f) # InputBox(t)
    /\ \A s, r : PendingBox(s) = PendingBox(r) => s = r
    /\ \A s, r : HeldBox(s) = HeldBox(r) => s = r
    /\ \A s, r : InputBox(s) = InputBox(r) => s = r
  BY DEF MailboxBox, RecordedBox, PendingBox, HeldBox, InputBox

LEMMA ContentsHold ==
    ASSUME NEW mb \in Seq(Items), NEW rec \in Seq(Items),
           NEW pen \in [TurnStates -> Seq(Items)],
           NEW hel \in [Fibers -> Seq(Items)], NEW inp \in [Turns -> Seq(Items)],
           NEW B, B = Contents(mb, rec, pen, hel, inp)
    PROVE  Holds(B, mb, rec, pen, hel, inp)
<1>1. B[MailboxBox] = mb /\ B[RecordedBox] = rec
  BY BoxKinds DEF Contents, MailboxBox, RecordedBox
<1>2. ASSUME NEW s \in TurnStates PROVE B[PendingBox(s)] = pen[s]
  <2>1. PendingBox(s)[1] = "pending" /\ PendingBox(s)[2] = s
    BY DEF PendingBox
  <2> QED
    BY <2>1, BoxKinds DEF Contents
<1>3. ASSUME NEW f \in Fibers PROVE B[HeldBox(f)] = hel[f]
  <2>1. HeldBox(f)[1] = "held" /\ HeldBox(f)[2] = f
    BY DEF HeldBox
  <2> QED
    BY <2>1, BoxKinds DEF Contents
<1>4. ASSUME NEW t \in Turns PROVE B[InputBox(t)] = inp[t]
  <2>1. InputBox(t)[1] = "input" /\ InputBox(t)[2] = t
    BY DEF InputBox
  <2> QED
    BY <2>1, BoxKinds DEF Contents
<1>5. B \in Lists
  <2>1. ASSUME NEW b \in Boxes PROVE B[b] \in Seq(Items)
    <3>1. CASE b = MailboxBox \/ b = RecordedBox
      BY <1>1, <3>1
    <3>2. CASE \E s \in TurnStates : b = PendingBox(s)
      BY <1>2, <3>2
    <3>3. CASE \E f \in Fibers : b = HeldBox(f)
      BY <1>3, <3>3
    <3>4. CASE \E t \in Turns : b = InputBox(t)
      BY <1>4, <3>4
    <3> QED
      BY <3>1, <3>2, <3>3, <3>4, BoxKinds
  <2> QED
    BY <2>1, Zenon DEF Lists, Contents
<1> QED
  BY <1>1, <1>2, <1>3, <1>4, <1>5 DEF Holds

\* No item is in two places, and every item that is somewhere was submitted.
ItemsOnce == Once(Contents(mailbox, recorded, pending, held, input), submitted)

\* The lists before and after a step.
Before(B) == Holds(B, mailbox, recorded, pending, held, input)
After(C) == Holds(C, mailbox', recorded', pending', held', input')

\* A list whose variable did not change.
LEMMA SameBox ==
    ASSUME NEW B, NEW C, Before(B), After(C), NEW b \in Boxes,
           b = MailboxBox => mailbox' = mailbox,
           b = RecordedBox => recorded' = recorded,
           \A s \in TurnStates : b = PendingBox(s) => pending'[s] = pending[s],
           \A f \in Fibers : b = HeldBox(f) => held'[f] = held[f],
           \A t \in Turns : b = InputBox(t) => input'[t] = input[t]
    PROVE  C[b] = B[b]
<1> USE DEF Before, After, Holds
<1>1. CASE b = MailboxBox \/ b = RecordedBox
  BY <1>1
<1>2. CASE \E s \in TurnStates : b = PendingBox(s)
  BY <1>2
<1>3. CASE \E f \in Fibers : b = HeldBox(f)
  BY <1>3
<1>4. CASE \E t \in Turns : b = InputBox(t)
  BY <1>4
<1> QED
  BY <1>1, <1>2, <1>3, <1>4, BoxKinds

\* Putting a new item into the pending input of a turn, and nothing else.
LEMMA PutPending ==
    ASSUME Typed, NEW B, NEW C, Before(B), After(C), Once(B, submitted),
           NEW i, Submit(i), NEW s \in TurnStates,
           pending' = [pending EXCEPT ![s] = Append(@, i)],
           UNCHANGED <<mailbox, recorded, held, input>>
    PROVE  Once(C, submitted')
<1>1. PICK y : y = PendingBox(s)
  OBVIOUS
<1>2. C[y] = Append(B[y], i)
  BY <1>1, TypeParts DEF Before, After, Holds, Typed, InboxTypes
<1>3. ASSUME NEW b \in Boxes \ {y} PROVE C[b] = B[b]
  <2>1. \A r \in TurnStates : b = PendingBox(r) => pending'[r] = pending[r]
    BY <1>1, <1>3, TypeParts DEF Typed, InboxTypes
  <2> QED
    BY <2>1, SameBox
<1> QED
  BY <1>1, <1>2, <1>3, BoxKinds, Placed DEF Places, Submit, Before, After, Holds

\* Keeping or emptying lists.
LEMMA DropOnce ==
    ASSUME NEW B, NEW C, Before(B), After(C), Once(B, submitted),
           UNCHANGED <<mailbox, recorded, submitted>>,
           \A s \in TurnStates : pending'[s] = pending[s] \/ pending'[s] = <<>>,
           \A f \in Fibers : held'[f] = held[f] \/ held'[f] = <<>>,
           \A t \in Turns : input'[t] = input[t] \/ input'[t] = <<>>
    PROVE  Once(C, submitted')
<1>1. ASSUME NEW b \in Boxes PROVE C[b] = B[b] \/ C[b] = <<>>
  <2> USE DEF Before, After, Holds
  <2>1. CASE b = MailboxBox \/ b = RecordedBox
    BY <2>1
  <2>2. CASE \E s \in TurnStates : b = PendingBox(s)
    BY <2>2
  <2>3. CASE \E f \in Fibers : b = HeldBox(f)
    BY <2>3
  <2>4. CASE \E t \in Turns : b = InputBox(t)
    BY <2>4
  <2> QED
    BY <2>1, <2>2, <2>3, <2>4, BoxKinds
<1> QED
  BY <1>1, Dropped DEF Drops, Before, After, Holds

\* What a fiber has taken goes into the pending input of a turn.
LEMMA HeldToPending ==
    ASSUME Typed, NEW B, NEW C, Before(B), After(C), Once(B, submitted), NEW f \in Fibers, NEW s \in TurnStates,
           pending' = [pending EXCEPT ![s] = @ \o held[f]],
           held' = [held EXCEPT ![f] = <<>>],
           UNCHANGED <<mailbox, recorded, input, submitted>>
    PROVE  Once(C, submitted')
<1>1. PICK x, y : x = HeldBox(f) /\ y = PendingBox(s)
  OBVIOUS
<1>2. x \in Boxes /\ y \in Boxes /\ x # y
  BY <1>1, BoxKinds, BoxesApart
<1>3. C[x] = <<>>
  BY <1>1, TypeParts DEF Before, After, Holds, Typed, FrameTypes, InboxTypes
<1>4. C[y] = B[y] \o B[x]
  <2>1. pending'[s] = pending[s] \o held[f]
    BY TypeParts DEF Typed, InboxTypes
  <2> QED
    BY <1>1, <2>1 DEF Before, After, Holds
<1>5. ASSUME NEW b \in Boxes \ {x, y} PROVE C[b] = B[b]
  <2>1. \A r \in Fibers : b = HeldBox(r) => held'[r] = held[r]
    BY <1>1, <1>5, TypeParts DEF Typed, FrameTypes
  <2>2. \A r \in TurnStates : b = PendingBox(r) => pending'[r] = pending[r]
    BY <1>1, <1>5, TypeParts DEF Typed, InboxTypes
  <2> QED
    BY <1>1, <1>5, <2>1, <2>2, SameBox
<1>6. Moves(B, C, x, y)
  BY <1>2, <1>3, <1>4, <1>5 DEF Moves
<1>7. B \in Lists /\ C \in Lists /\ submitted' = submitted
  BY DEF Before, After, Holds
<1> QED
  BY <1>2, <1>6, <1>7, Moved

\* The mailbox goes into the pending input of a turn.
LEMMA MailboxToPending ==
    ASSUME Typed, NEW B, NEW C, Before(B), After(C), Once(B, submitted), NEW s \in TurnStates,
           pending' = [pending EXCEPT ![s] = @ \o mailbox],
           mailbox' = <<>>,
           UNCHANGED <<recorded, held, input, submitted>>
    PROVE  Once(C, submitted')
<1>1. PICK x, y : x = MailboxBox /\ y = PendingBox(s)
  OBVIOUS
<1>2. x \in Boxes /\ y \in Boxes /\ x # y
  BY <1>1, BoxKinds, BoxesApart
<1>3. C[x] = <<>>
  BY <1>1, TypeParts DEF Before, After, Holds, Typed, InboxTypes
<1>4. C[y] = B[y] \o B[x]
  BY <1>1, TypeParts DEF Before, After, Holds, Typed, InboxTypes
<1>5. ASSUME NEW b \in Boxes \ {x, y} PROVE C[b] = B[b]
  <2>1. \A r \in TurnStates : b = PendingBox(r) => pending'[r] = pending[r]
    BY <1>1, <1>5, TypeParts DEF Typed, InboxTypes
  <2> QED
    BY <1>1, <1>5, <2>1, SameBox
<1>6. Moves(B, C, x, y)
  BY <1>2, <1>3, <1>4, <1>5 DEF Moves
<1>7. B \in Lists /\ C \in Lists /\ submitted' = submitted
  BY DEF Before, After, Holds
<1> QED
  BY <1>2, <1>6, <1>7, Moved

\* What a fiber has taken is recorded.
LEMMA HeldToRecorded ==
    ASSUME Typed, NEW B, NEW C, Before(B), After(C), Once(B, submitted), NEW f \in Fibers,
           recorded' = recorded \o held[f],
           held' = [held EXCEPT ![f] = <<>>],
           UNCHANGED <<mailbox, pending, input, submitted>>
    PROVE  Once(C, submitted')
<1>1. PICK x, y : x = HeldBox(f) /\ y = RecordedBox
  OBVIOUS
<1>2. x \in Boxes /\ y \in Boxes /\ x # y
  BY <1>1, BoxKinds, BoxesApart
<1>3. C[x] = <<>>
  BY <1>1, TypeParts DEF Before, After, Holds, Typed, FrameTypes
<1>4. C[y] = B[y] \o B[x]
  BY <1>1, TypeParts DEF Before, After, Holds, Typed, FrameTypes
<1>5. ASSUME NEW b \in Boxes \ {x, y} PROVE C[b] = B[b]
  <2>1. \A r \in Fibers : b = HeldBox(r) => held'[r] = held[r]
    BY <1>1, <1>5, TypeParts DEF Typed, FrameTypes
  <2> QED
    BY <1>1, <1>5, <2>1, SameBox
<1>6. Moves(B, C, x, y)
  BY <1>2, <1>3, <1>4, <1>5 DEF Moves
<1>7. B \in Lists /\ C \in Lists /\ submitted' = submitted
  BY DEF Before, After, Holds
<1> QED
  BY <1>2, <1>6, <1>7, Moved

\* The input a turn was started with is recorded.
LEMMA InputToRecorded ==
    ASSUME Typed, NEW B, NEW C, Before(B), After(C), Once(B, submitted), NEW t \in Turns,
           recorded' = recorded \o input[t],
           input' = [input EXCEPT ![t] = <<>>],
           UNCHANGED <<mailbox, pending, held, submitted>>
    PROVE  Once(C, submitted')
<1>1. PICK x, y : x = InputBox(t) /\ y = RecordedBox
  OBVIOUS
<1>2. x \in Boxes /\ y \in Boxes /\ x # y
  BY <1>1, BoxKinds, BoxesApart
<1>3. C[x] = <<>>
  BY <1>1, TypeParts DEF Before, After, Holds, Typed, TaskTypes
<1>4. C[y] = B[y] \o B[x]
  BY <1>1, TypeParts DEF Before, After, Holds, Typed, TaskTypes
<1>5. ASSUME NEW b \in Boxes \ {x, y} PROVE C[b] = B[b]
  <2>1. \A r \in Turns : b = InputBox(r) => input'[r] = input[r]
    BY <1>1, <1>5, TypeParts DEF Typed, TaskTypes
  <2> QED
    BY <1>1, <1>5, <2>1, SameBox
<1>6. Moves(B, C, x, y)
  BY <1>2, <1>3, <1>4, <1>5 DEF Moves
<1>7. B \in Lists /\ C \in Lists /\ submitted' = submitted
  BY DEF Before, After, Holds
<1> QED
  BY <1>2, <1>6, <1>7, Moved

\* The pending input of a turn is recorded.
LEMMA PendingToRecorded ==
    ASSUME Typed, NEW B, NEW C, Before(B), After(C), Once(B, submitted), NEW s \in TurnStates,
           recorded' = recorded \o pending[s],
           pending' = [pending EXCEPT ![s] = <<>>],
           UNCHANGED <<mailbox, held, input, submitted>>
    PROVE  Once(C, submitted')
<1>1. PICK x, y : x = PendingBox(s) /\ y = RecordedBox
  OBVIOUS
<1>2. x \in Boxes /\ y \in Boxes /\ x # y
  BY <1>1, BoxKinds, BoxesApart
<1>3. C[x] = <<>>
  BY <1>1, TypeParts DEF Before, After, Holds, Typed, InboxTypes
<1>4. C[y] = B[y] \o B[x]
  BY <1>1, TypeParts DEF Before, After, Holds, Typed, InboxTypes
<1>5. ASSUME NEW b \in Boxes \ {x, y} PROVE C[b] = B[b]
  <2>1. \A r \in TurnStates : b = PendingBox(r) => pending'[r] = pending[r]
    BY <1>1, <1>5, TypeParts DEF Typed, InboxTypes
  <2> QED
    BY <1>1, <1>5, <2>1, SameBox
<1>6. Moves(B, C, x, y)
  BY <1>2, <1>3, <1>4, <1>5 DEF Moves
<1>7. B \in Lists /\ C \in Lists /\ submitted' = submitted
  BY DEF Before, After, Holds
<1> QED
  BY <1>2, <1>6, <1>7, Moved


\* get_pending_input takes the pending input of the active turn and the
\* mailbox, under the locks of both.
LEMMA DrainOnce ==
    ASSUME Typed, NEW B, NEW C, Before(B), After(C), Once(B, submitted),
           NEW f \in Fibers, GetPendingInput(f),
           UNCHANGED <<recorded, input, submitted>>
    PROVE  Once(C, submitted')
<1>1. B \in Lists /\ C \in Lists /\ submitted' = submitted
  BY DEF Before, After, Holds
<1>2. PICK x, z : x = MailboxBox /\ z = HeldBox(f)
  OBVIOUS
<1>3. x \in Boxes /\ z \in Boxes /\ x # z
  BY <1>2, BoxKinds, BoxesApart
<1>4. CASE ~Accepting
  <2>1. UNCHANGED <<held, pending, mailbox>>
    BY <1>4 DEF GetPendingInput
  <2> QED
    BY <2>1, DropOnce
<1>5. CASE Accepting /\ active = Idle
  <2>1. /\ held' = [held EXCEPT ![f] = mailbox] /\ pending' = pending
        /\ mailbox' = <<>>
    BY <1>5 DEF GetPendingInput
  <2>2. C[x] = <<>> /\ C[z] = B[x]
    BY <1>2, <2>1, TypeParts DEF Before, After, Holds, Typed, FrameTypes
  <2>3. ASSUME NEW b \in Boxes \ {x, z} PROVE C[b] = B[b]
    <3>1. \A r \in Fibers : b = HeldBox(r) => held'[r] = held[r]
      BY <1>2, <2>1, <2>3, TypeParts DEF Typed, FrameTypes
    <3> QED
      BY <1>2, <2>1, <2>3, <3>1, SameBox
  <2>4. Takes(B, C, x, z)
    BY <1>3, <2>2, <2>3 DEF Takes
  <2> QED
    BY <1>1, <1>3, <2>4, Taken
<1>6. CASE Accepting /\ active # Idle
  <2>1. PICK s \in TurnStates : s = active.ts
    BY <1>6, ActiveParts DEF Typed
  <2>2. /\ held' = [held EXCEPT ![f] = pending[s] \o mailbox]
        /\ pending' = [pending EXCEPT ![s] = <<>>] /\ mailbox' = <<>>
    BY <1>6, <2>1 DEF GetPendingInput
  <2>3. PICK p : p = PendingBox(s)
    OBVIOUS
  <2>4. p \in Boxes /\ p # x /\ p # z
    BY <1>2, <2>3, BoxKinds, BoxesApart
  <2>5. C[x] = <<>> /\ C[p] = <<>>
    BY <1>2, <2>2, <2>3, TypeParts DEF After, Holds, Typed, InboxTypes
  <2>6. C[z] = B[p] \o B[x]
    <3>1. held'[f] = pending[s] \o mailbox
      BY <2>2, TypeParts DEF Typed, FrameTypes
    <3> QED
      BY <1>2, <2>3, <3>1 DEF Before, After, Holds
  <2>7. ASSUME NEW b \in Boxes \ {p, x, z} PROVE C[b] = B[b]
    <3>1. \A r \in Fibers : b = HeldBox(r) => held'[r] = held[r]
      BY <1>2, <2>2, <2>7, TypeParts DEF Typed, FrameTypes
    <3>2. \A r \in TurnStates : b = PendingBox(r) => pending'[r] = pending[r]
      BY <2>2, <2>3, <2>7, TypeParts DEF Typed, InboxTypes
    <3> QED
      BY <1>2, <2>7, <3>1, <3>2, SameBox
  <2>8. TakesBoth(B, C, p, x, z)
    BY <1>3, <2>4, <2>5, <2>6, <2>7 DEF TakesBoth
  <2> QED
    BY <1>1, <1>3, <2>4, <2>8, TakenBoth
<1> QED
  BY <1>4, <1>5, <1>6

\* A new item becomes the input of a turn, or is taken by the loop.
LEMMA PutInput ==
    ASSUME Typed, NEW B, NEW C, Before(B), After(C), Once(B, submitted),
           NEW i, Submit(i), NEW t \in Turns,
           input' = [input EXCEPT ![t] = <<i>>],
           \A f \in Fibers : held'[f] = held[f] \/ held'[f] = <<>>,
           UNCHANGED <<mailbox, recorded, pending>>
    PROVE  Once(C, submitted')
<1>1. PICK y : y = InputBox(t)
  OBVIOUS
<1>2. C[y] = <<i>>
  BY <1>1, TypeParts DEF After, Holds, Typed, TaskTypes
<1>3. ASSUME NEW b \in Boxes \ {y} PROVE C[b] = B[b] \/ C[b] = <<>>
  <2>1. \A r \in Turns : b = InputBox(r) => input'[r] = input[r]
    BY <1>1, <1>3, TypeParts DEF Typed, TaskTypes
  <2>2. CASE \E f \in Fibers : b = HeldBox(f)
    BY <2>2 DEF Before, After, Holds
  <2>3. CASE ~\E f \in Fibers : b = HeldBox(f)
    BY <2>1, <2>3, SameBox
  <2> QED
    BY <2>2, <2>3
<1>4. Places(B, C, y, i) /\ y \in Boxes
  BY <1>1, <1>2, <1>3, BoxKinds DEF Places
<1> QED
  BY <1>4, Placed DEF Submit, Before, After, Holds

LEMMA PutHeld ==
    ASSUME Typed, NEW B, NEW C, Before(B), After(C), Once(B, submitted),
           NEW i, Submit(i), NEW t \in Turns, NEW f \in Fibers,
           input' = [input EXCEPT ![t] = <<>>],
           held' = [held EXCEPT ![f] = <<i>>],
           UNCHANGED <<mailbox, recorded, pending>>
    PROVE  Once(C, submitted')
<1>1. PICK y : y = HeldBox(f)
  OBVIOUS
<1>2. C[y] = <<i>>
  BY <1>1, TypeParts DEF After, Holds, Typed, FrameTypes
<1>3. ASSUME NEW b \in Boxes \ {y} PROVE C[b] = B[b] \/ C[b] = <<>>
  <2>1. \A r \in Fibers : b = HeldBox(r) => held'[r] = held[r]
    BY <1>1, <1>3, TypeParts DEF Typed, FrameTypes
  <2>2. CASE \E r \in Turns : b = InputBox(r)
    BY <2>2, TypeParts DEF Before, After, Holds, Typed, TaskTypes
  <2>3. CASE ~\E r \in Turns : b = InputBox(r)
    BY <2>1, <2>3, SameBox
  <2> QED
    BY <2>2, <2>3
<1>4. Places(B, C, y, i) /\ y \in Boxes
  BY <1>1, <1>2, <1>3, BoxKinds DEF Places
<1> QED
  BY <1>4, Placed DEF Submit, Before, After, Holds

\* A new item is put into the mailbox or straight into the history.
LEMMA PutMailboxOrRecorded ==
    ASSUME NEW B, NEW C, Before(B), After(C), Once(B, submitted),
           NEW i, Submit(i), UNCHANGED <<pending, held, input>>,
           \/ mailbox' = Append(mailbox, i) /\ UNCHANGED recorded
           \/ recorded' = Append(recorded, i) /\ UNCHANGED mailbox
    PROVE  Once(C, submitted')
<1>1. CASE mailbox' = Append(mailbox, i) /\ UNCHANGED recorded
  <2>1. PICK y : y = MailboxBox
    OBVIOUS
  <2>2. C[y] = Append(B[y], i)
    BY <1>1, <2>1 DEF Before, After, Holds
  <2>3. \A b \in Boxes \ {y} : C[b] = B[b]
    BY <1>1, <2>1, SameBox
  <2>4. Places(B, C, y, i) /\ y \in Boxes
    BY <2>1, <2>2, <2>3, BoxKinds DEF Places
  <2> QED
    BY <2>4, Placed DEF Submit, Before, After, Holds
<1>2. CASE recorded' = Append(recorded, i) /\ UNCHANGED mailbox
  <2>1. PICK y : y = RecordedBox
    OBVIOUS
  <2>2. C[y] = Append(B[y], i)
    BY <1>2, <2>1 DEF Before, After, Holds
  <2>3. \A b \in Boxes \ {y} : C[b] = B[b]
    BY <1>2, <2>1, SameBox
  <2>4. Places(B, C, y, i) /\ y \in Boxes
    BY <2>1, <2>2, <2>3, BoxKinds DEF Places
  <2> QED
    BY <2>4, Placed DEF Submit, Before, After, Holds
<1> QED
  BY <1>1, <1>2

LEMMA EnvironmentKeepsOnce ==
    ASSUME Typed, NEW B, NEW C, Before(B), After(C), Once(B, submitted),
           Environment
    PROVE  Once(C, submitted')
<1>1. ASSUME NEW i \in Inputs, Steer(i) PROVE Once(C, submitted')
  <2>1. PICK s \in TurnStates : s = active.ts
    BY <1>1, ActiveParts DEF Steer, Typed
  <2>2. /\ pending' = [pending EXCEPT ![s] = Append(@, i)]
        /\ UNCHANGED <<mailbox, recorded, held, input>> /\ Submit(i)
    BY <1>1, <2>1 DEF Steer, AppendToActive, task, frame
  <2> QED
    BY <2>2, PutPending
<1>2. ASSUME NEW i \in Inputs, NEW t \in Turns, StartTurn(i, t)
      PROVE  Once(C, submitted')
  <2>1. /\ input' = [input EXCEPT ![t] = <<i>>] /\ Submit(i)
        /\ UNCHANGED <<mailbox, recorded, pending, held>>
    BY <1>2 DEF StartTurn, Spawn, CreateTurn, inbox
  <2> QED
    BY <2>1, PutInput
<1>3. ASSUME NEW t \in Turns, RunUserShell(t) \/ Compact(t)
      PROVE  Once(C, submitted')
  <2>1. /\ input' = [input EXCEPT ![t] = <<>>]
        /\ UNCHANGED <<mailbox, recorded, pending, held, submitted>>
    BY <1>3 DEF RunUserShell, Compact, Spawn, CreateTurn, inbox
  <2>2. \A r \in Turns : input'[r] = input[r] \/ input'[r] = <<>>
    BY <2>1, TypeParts DEF Typed, TaskTypes
  <2> QED
    BY <2>1, <2>2, DropOnce
<1>4. ASSUME NEW i \in Inputs \cup Injections, NEW t \in Turns, StartIfIdle(i, t)
      PROVE  Once(C, submitted')
  <2>1. /\ input' = [input EXCEPT ![t] = IF i \in Inputs THEN <<i>> ELSE <<>>]
        /\ held' = [held EXCEPT ![Loop] = IF i \in Inputs THEN <<>> ELSE <<i>>]
        /\ UNCHANGED <<mailbox, recorded, pending>> /\ Submit(i)
    BY <1>4 DEF StartIfIdle, CreateTurn, inbox
  <2>2. CASE i \in Inputs
    <3>1. \A f \in Fibers : held'[f] = held[f] \/ held'[f] = <<>>
      BY <2>1, <2>2, TypeParts DEF Typed, FrameTypes
    <3> QED
      BY <2>1, <2>2, <3>1, PutInput
  <2>3. CASE i \notin Inputs
    BY <2>1, <2>3, FiberKinds, PutHeld
  <2> QED
    BY <2>2, <2>3
<1>5. ASSUME (\E t \in Turns : BreakTurn(t)) \/ Interrupt
      PROVE  Once(C, submitted')
  <2>1. UNCHANGED <<mailbox, recorded, pending, held, input, submitted>>
    BY <1>5 DEF BreakTurn, Interrupt, TakeAndCancel, inbox, task
  <2> QED
    BY <2>1, DropOnce
<1>6. ASSUME NEW m \in Mails, Mail(m) PROVE Once(C, submitted')
  <2>1. /\ mailbox' = Append(mailbox, m) /\ Submit(m)
        /\ UNCHANGED <<recorded, pending, held, input>>
    BY <1>6 DEF Mail, task, frame
  <2> QED
    BY <2>1, PutMailboxOrRecorded
<1>7. ASSUME NEW i \in Injections, Inject(i) PROVE Once(C, submitted')
  <2>0. Submit(i) /\ UNCHANGED <<held, input>>
    BY <1>7 DEF Inject, task, frame
  <2>1. CASE active = Idle
    <3>1. recorded' = Append(recorded, i) /\ UNCHANGED <<pending, mailbox>>
      BY <1>7, <2>1 DEF Inject, inbox
    <3> QED
      BY <2>0, <3>1, PutMailboxOrRecorded
  <2>2. CASE active # Idle
    <3>1. PICK s \in TurnStates : s = active.ts
      BY <2>2, ActiveParts DEF Typed
    <3>2. AppendToActive(i) /\ UNCHANGED recorded
      BY <1>7, <2>2 DEF Inject
    <3>3. /\ pending' = [pending EXCEPT ![s] = Append(@, i)]
          /\ UNCHANGED <<mailbox, recorded>>
      BY <3>1, <3>2 DEF AppendToActive
    <3> QED
      BY <2>0, <3>3, PutPending
  <2> QED
    BY <2>1, <2>2
<1> QED
  BY <1>1, <1>2, <1>3, <1>4, <1>5, <1>6, <1>7 DEF Environment

LEMMA LoopKeepsOnce ==
    ASSUME Typed, NEW B, NEW C, Before(B), After(C), Once(B, submitted),
           LoopStep
    PROVE  Once(C, submitted')
<1>1. ASSUME TakeActiveTurn PROVE Once(C, submitted')
  <2>1. UNCHANGED <<mailbox, recorded, pending, held, input, submitted>>
    BY <1>1 DEF TakeActiveTurn, TakeAndCancel, inbox, task, env
  <2> QED
    BY <2>1, DropOnce
<1>2. ASSUME StartIfIdleGivesUp PROVE Once(C, submitted')
  <2>1. /\ held' = [held EXCEPT ![Loop] = <<>>]
        /\ UNCHANGED <<mailbox, recorded, pending, input, submitted>>
    BY <1>2 DEF StartIfIdleGivesUp, inbox, task, env
  <2>2. \A f \in Fibers : held'[f] = held[f] \/ held'[f] = <<>>
    BY <2>1, TypeParts DEF Typed, FrameTypes
  <2> QED
    BY <2>1, <2>2, DropOnce
<1>3. ASSUME StartIfIdleCommits PROVE Once(C, submitted')
  <2>1. PICK s \in TurnStates : s = ts[Loop]
    BY <1>3, FiberKinds DEF StartIfIdleCommits, FrameOK, Typed
  <2>2. /\ pending' = [pending EXCEPT ![s] = @ \o held[Loop]]
        /\ held' = [held EXCEPT ![Loop] = <<>>]
        /\ UNCHANGED <<mailbox, recorded, input, submitted>>
    BY <1>3, <2>1 DEF StartIfIdleCommits, task, env
  <2> QED
    BY <2>2, FiberKinds, HeldToPending
<1> QED
  BY <1>1, <1>2, <1>3 DEF LoopStep

LEMMA StartingKeepsOnce ==
    ASSUME Typed, NEW B, NEW C, Before(B), After(C), Once(B, submitted),
           NEW f \in Fibers, StartingStep(f)
    PROVE  Once(C, submitted')
<1>1. ASSUME KillTask(f) PROVE Once(C, submitted')
  <2>1. /\ pending' = [pending EXCEPT ![ts[f]] = <<>>]
        /\ UNCHANGED <<mailbox, recorded, held, input, submitted>>
    BY <1>1 DEF KillTask, task, frame, env
  <2>2. \A s \in TurnStates : pending'[s] = pending[s] \/ pending'[s] = <<>>
    BY <2>1, TypeParts DEF Typed, InboxTypes
  <2> QED
    BY <2>1, <2>2, DropOnce
<1>2. ASSUME CheckPendingWork(f) \/ NotIdle(f) \/ InstallTask(f)
      PROVE  Once(C, submitted')
  <2>1. UNCHANGED <<mailbox, recorded, pending, held, input, submitted>>
    BY <1>2 DEF CheckPendingWork, NotIdle, InstallTask, inbox, task, frame, env
  <2> QED
    BY <2>1, DropOnce
<1>3. ASSUME NEW t \in Turns, ReserveForPendingWork(f, t)
      PROVE  Once(C, submitted')
  <2>1. /\ input' = [input EXCEPT ![t] = <<>>]
        /\ UNCHANGED <<mailbox, recorded, pending, held, submitted>>
    BY <1>3 DEF ReserveForPendingWork, CreateTurn, inbox, env
  <2>2. \A r \in Turns : input'[r] = input[r] \/ input'[r] = <<>>
    BY <2>1, TypeParts DEF Typed, TaskTypes
  <2> QED
    BY <2>1, <2>2, DropOnce
<1>4. ASSUME CollectPendingWork(f) PROVE Once(C, submitted')
  <2>1. GetPendingInput(f) /\ UNCHANGED <<recorded, input, submitted>>
    BY <1>4 DEF CollectPendingWork, task, env
  <2> QED
    BY <2>1, DrainOnce
<1>5. ASSUME StashPendingWork(f) PROVE Once(C, submitted')
  <2>1. PICK s \in TurnStates : s = ts[f]
    BY <1>5 DEF StashPendingWork, FrameOK, Typed
  <2>2. /\ pending' = [pending EXCEPT ![s] = @ \o held[f]]
        /\ held' = [held EXCEPT ![f] = <<>>]
        /\ UNCHANGED <<mailbox, recorded, input, submitted>>
    BY <1>5, <2>1 DEF StashPendingWork, task, env
  <2> QED
    BY <2>2, HeldToPending
<1>6. ASSUME PrepareTask(f) PROVE Once(C, submitted')
  <2>1. starting[f] \in Turns
    BY <1>6 DEF PrepareTask, FrameOK, Typed
  <2>2. PICK s \in TurnStates : s = GetOrInsert(f, "prepare").ts
    BY <2>1, ActiveParts DEF GetOrInsert, TurnStates, Typed
  <2>3. /\ pending' = [pending EXCEPT ![s] = @ \o mailbox]
        /\ mailbox' = <<>>
        /\ UNCHANGED <<recorded, held, input, submitted>>
    BY <1>6, <2>2 DEF PrepareTask, task, frame, env
  <2> QED
    BY <2>3, MailboxToPending
<1> QED
  BY <1>1, <1>2, <1>3, <1>4, <1>5, <1>6 DEF StartingStep

LEMMA TaskKeepsOnce ==
    ASSUME Typed, NEW B, NEW C, Before(B), After(C), Once(B, submitted),
           NEW t \in Turns, TaskStep(t)
    PROVE  Once(C, submitted')
<1>0. t \in Fibers
  BY FiberKinds
<1>1. ASSUME FailBeforeRecording(t) PROVE Once(C, submitted')
  <2>1. /\ input' = [input EXCEPT ![t] = <<>>]
        /\ UNCHANGED <<mailbox, recorded, pending, held, submitted>>
    BY <1>1 DEF FailBeforeRecording, inbox, frame, env
  <2>2. \A r \in Turns : input'[r] = input[r] \/ input'[r] = <<>>
    BY <2>1, TypeParts DEF Typed, TaskTypes
  <2> QED
    BY <2>1, <2>2, DropOnce
<1>2. ASSUME RecordStartInput(t) PROVE Once(C, submitted')
  <2>1. /\ recorded' = recorded \o input[t]
        /\ input' = [input EXCEPT ![t] = <<>>]
        /\ UNCHANGED <<mailbox, pending, held, submitted>>
    BY <1>2 DEF RecordStartInput, inbox, frame, env
  <2> QED
    BY <2>1, InputToRecorded
<1>3. ASSUME DrainPendingInput(t) PROVE Once(C, submitted')
  <2>1. GetPendingInput(t) /\ UNCHANGED <<recorded, input, submitted>>
    BY <1>3 DEF DrainPendingInput, task, env
  <2> QED
    BY <1>0, <2>1, DrainOnce
<1>4. ASSUME RecordPendingInput(t) PROVE Once(C, submitted')
  <2>1. /\ recorded' = recorded \o held[t]
        /\ held' = [held EXCEPT ![t] = <<>>]
        /\ UNCHANGED <<mailbox, pending, input, submitted>>
    BY <1>4 DEF RecordPendingInput, inbox, task, env
  <2> QED
    BY <1>0, <2>1, HeldToRecorded
<1>5. ASSUME ReportCompletion(t) PROVE Once(C, submitted')
  <2>1. PICK s \in TurnStates : s = ts[t]
    BY <1>0, <1>5 DEF ReportCompletion, FrameOK, Typed
  <2>2. /\ recorded' = recorded \o pending[s]
        /\ pending' = [pending EXCEPT ![s] = <<>>]
        /\ UNCHANGED <<mailbox, held, input, submitted>>
    BY <1>5, <2>1 DEF ReportCompletion, task, frame, env
  <2> QED
    BY <2>2, PendingToRecorded
<1>6. ASSUME \/ RunOtherTask(t) \/ SampleFails(t) \/ RunAgain(t) \/ FlushTask(t)
             \/ SampleFollowUp(t) \/ StopHookBlocks(t) \/ Decide(t)
             \/ FinishTask(t) \/ ClearActiveTurn(t)
             \/ SampleAnswer(t) \/ SendRequest(t)
      PROVE  Once(C, submitted')
  <2>1. UNCHANGED <<mailbox, recorded, pending, held, input, submitted>>
    BY <1>6 DEF SendRequest, RunOtherTask, SampleFails, RunAgain, FlushTask, SampleFollowUp,
                StopHookBlocks, Decide, FinishTask, ClearActiveTurn, SampleAnswer,
                inbox, task, frame, env
  <2> QED
    BY <2>1, DropOnce
<1>7. ASSUME StreamStep(t) PROVE Once(C, submitted')
  <2>1. UNCHANGED <<mailbox, recorded, pending, held, input, submitted>>
    BY <1>7, StreamMoves DEF Typed
  <2> QED
    BY <2>1, DropOnce
<1> QED
  BY <1>1, <1>2, <1>3, <1>4, <1>5, <1>6, <1>7 DEF TaskStep, Advance

\* The items of the lists are those of the boxes.
LEMMA ListsAreBoxes ==
    ASSUME Typed
    PROVE  Before(Contents(mailbox, recorded, pending, held, input))
<1>1. PICK B : B = Contents(mailbox, recorded, pending, held, input)
  OBVIOUS
<1>2. mailbox \in Seq(Items)
  BY TypeParts, SeqTypes DEF Typed, InboxTypes
<1> QED
  BY <1>1, <1>2, TypeParts, ContentsHold
  DEF Before, Typed, InboxTypes, TaskTypes, FrameTypes

LEMMA OnceIsItemOnce ==
    ASSUME Typed, ItemsOnce
    PROVE  ItemOnce
<1>1. \A b \in Boxes : Contents(mailbox, recorded, pending, held, input)[b] = Box(b)
  BY DEF Contents, Box
<1> QED
  BY <1>1 DEF ItemsOnce, Once, ItemOnce

LEMMA InitOnce == Init => ItemsOnce
<1> SUFFICES ASSUME Init PROVE ItemsOnce
  OBVIOUS
<1>0. Typed
  BY InitTyped
<1>1. PICK B : B = Contents(mailbox, recorded, pending, held, input)
  OBVIOUS
<1>2. Before(B)
  BY <1>0, <1>1, ListsAreBoxes
<1>3. ASSUME NEW b \in Boxes PROVE B[b] = <<>>
  <2> USE <1>2 DEF Before, Holds, Init
  <2>1. CASE b = MailboxBox \/ b = RecordedBox
    BY <2>1
  <2>2. CASE \E s \in TurnStates : b = PendingBox(s)
    BY <2>2
  <2>3. CASE \E f \in Fibers : b = HeldBox(f)
    BY <2>3
  <2>4. CASE \E t \in Turns : b = InputBox(t)
    BY <2>4
  <2> QED
    BY <2>1, <2>2, <2>3, <2>4, BoxKinds
<1> QED
  BY <1>1, <1>3 DEF ItemsOnce, Once

LEMMA StepOnce ==
    ASSUME Typed, ItemsOnce, [Next]_vars
    PROVE  ItemsOnce'
<1>1. PICK B : B = Contents(mailbox, recorded, pending, held, input)
  OBVIOUS
<1>2. PICK C : C = Contents(mailbox', recorded', pending', held', input')
  OBVIOUS
<1>3. Before(B) /\ Once(B, submitted)
  BY <1>1, ListsAreBoxes DEF ItemsOnce
<1>4. After(C)
  <2>1. Typed'
    BY StepTyped
  <2>2. /\ mailbox' \in Seq(Mails) /\ recorded' \in Seq(Items)
        /\ pending' \in [TurnStates -> Seq(Items)]
        /\ held' \in [Fibers -> Seq(Items)] /\ input' \in [Turns -> Seq(Items)]
    BY <2>1 DEF Typed, TypeOK
  <2> QED
    BY <1>2, <2>2, SeqTypes, ContentsHold DEF After
<1>5. Once(C, submitted')
  <2>1. CASE UNCHANGED vars
    <3>1. UNCHANGED <<mailbox, recorded, pending, held, input, submitted>>
      BY <2>1 DEF vars, inbox, task, frame, env
    <3> QED
      BY <1>3, <1>4, <3>1, DropOnce
  <2>2. CASE Next
    BY <1>3, <1>4, <2>2, EnvironmentKeepsOnce, LoopKeepsOnce, StartingKeepsOnce,
       TaskKeepsOnce DEF Next
  <2> QED
    BY <2>1, <2>2
<1> QED
  BY <1>2, <1>5 DEF ItemsOnce

\* An input, mail or injected item is in one place at a time and reaches the
\* history at most once, for any number of turns, fibers and items and whatever
\* order they drain the mailbox and the pending input in (get_pending_input,
\* start_task, on_task_finished, handle_task_abort).
THEOREM NeverTwice == Spec => []ItemOnce
<1>1. Init => Typed /\ ItemsOnce
  BY InitTyped, InitOnce
<1>2. (Typed /\ ItemsOnce) /\ [Next]_vars => (Typed /\ ItemsOnce)'
  BY StepTyped, StepOnce
<1>3. Typed /\ ItemsOnce => ItemOnce
  BY OnceIsItemOnce
<1> QED
  BY <1>1, <1>2, <1>3, PTL DEF Spec


-----------------------------------------------------------------------------
(* The task of a turn and the active turn.                                 *)

\* The active turn's task works for that turn; a task at work is the active
\* turn's, or it was cancelled and no turn is active; a task reports its own turn.
Matched ==
    /\ Typed
    /\ \A t \in Turns :
         /\ active.task = t => pc[t] \in Working /\ ~cancelled[t] /\ active.ts[1] = t
         /\ pc[t] \in Working => active.task = t \/ (cancelled[t] /\ active = Idle)
         /\ pc[t] \in {"report", "clear"} => ts[t][1] = t

LEMMA ActiveState ==
    ASSUME Matched, NEW t \in Turns, active.task = t
    PROVE  /\ active # Idle /\ active.ts \in TurnStates /\ active.ts[1] = t
           /\ pc[t] \in Working /\ ~cancelled[t]
  BY ActiveParts, FiberKinds DEF Matched, Typed

\* A task that finishes finds itself in the active turn, or nothing.
LEMMA FinishFindsItself ==
    ASSUME Matched, NEW t \in Turns, pc[t] = "finish", active.task # None
    PROVE  active.task = t /\ ~cancelled[t] /\ active # Idle /\ active.ts[1] = t
<1>1. active # Idle /\ pc[t] \in Working
  BY ActiveParts DEF Matched, Typed, Working
<1> QED
  BY <1>1, ActiveParts DEF Matched, Typed

\* The steps of a task that only move it on.
LEMMA WorkSteps ==
    ASSUME Matched, NEW t \in Turns,
           \/ RunOtherTask(t) \/ FailBeforeRecording(t) \/ RecordStartInput(t)
           \/ DrainPendingInput(t) \/ RecordPendingInput(t)
           \/ SendRequest(t) \/ SampleFollowUp(t) \/ SampleAnswer(t)
           \/ SampleFails(t) \/ Decide(t) \/ StopHookBlocks(t) \/ RunAgain(t)
           \/ FlushTask(t) \/ StreamStep(t)
    PROVE  /\ pc[t] \in Working
           /\ \E l : /\ l \in Working \/ (l = "ended" /\ active.task # t)
                     /\ Goto(t, l)
           /\ UNCHANGED <<active, cancelled, terminal, kind, starting, victim,
                          why, ts, left>>
<1>1. CASE \/ RunOtherTask(t) \/ RunAgain(t) \/ SampleFails(t)
  BY <1>1
  DEF RunOtherTask, RunAgain, SampleFails, Streaming, Working, task, frame, env
<1>2. CASE FailBeforeRecording(t) \/ RecordStartInput(t)
  BY <1>2 DEF FailBeforeRecording, RecordStartInput, Working, frame, env
<1>3. CASE DrainPendingInput(t) \/ RecordPendingInput(t)
  BY <1>3 DEF DrainPendingInput, RecordPendingInput, Working, task, env
<1>4. CASE SampleFollowUp(t)
  BY <1>4 DEF SampleFollowUp, Streaming, Working, frame, env
<1>5. CASE SampleAnswer(t) \/ SendRequest(t)
  BY <1>5 DEF SampleAnswer, SendRequest, Working, task, frame, env
<1>6. CASE Decide(t) \/ StopHookBlocks(t)
  BY <1>6 DEF Decide, StopHookBlocks, Working, frame, env
<1>7. CASE FlushTask(t)
  <2>1. cancelled[t] => active.task # t
    BY DEF Matched
  <2> QED
    BY <1>7, <2>1 DEF FlushTask, Working, task, frame, env
<1>8. CASE StreamStep(t)
  BY <1>8, StreamMoves DEF Matched, Typed, Streaming, Working
<1> QED
  BY <1>1, <1>2, <1>3, <1>4, <1>5, <1>6, <1>7, <1>8

-----------------------------------------------------------------------------
(* A quiet session: no mail wakes the thread and the circuit breaker does  *)
(* not trip, so that the submission loop alone starts and aborts turns.    *)
(* The runs turn_overwrite and turn_break show what goes wrong otherwise.  *)

Quiet ==
    /\ TriggerMails = {} /\ Sleeping = FALSE
    /\ \A b \in Budgets : b["break"] = 0

\* The loop has a turn in its hands that has no task yet.
Launching == pc[Loop] \in {"recheck", "prepare", "install"}
Replacing == pc[Loop] \in {"abort", "kill"} /\ why[Loop] = "Replaced"

\* What the loop relies on between two steps of an operation.
LoopOK ==
    /\ left["break"] = 0 /\ pc[Breaker] = "idle"
    /\ pc[Loop] \in {"idle", "abort", "kill", "check", "recheck", "prepare",
                     "install"}
    /\ Launching \/ Replacing =>
         pc[starting[Loop]] = "none" /\ kind[starting[Loop]] # "none"
    /\ Launching => active.task = None
    /\ Launching /\ active # Idle => active.ts[1] = starting[Loop]
    /\ pc[Loop] \in {"recheck", "install"} => active # Idle
    /\ pc[Loop] = "kill" =>
         /\ active = Idle /\ victim[Loop] \in Turns /\ ts[Loop][1] = victim[Loop]
         /\ cancelled[victim[Loop]] /\ terminal[victim[Loop]] = 0
         /\ pc[victim[Loop]] \in Working \cup {"ended"}

\* A turn from its creation to its end.
TurnOK(t) ==
    /\ pc[t] \in Working \cup {"none", "report", "clear", "check", "ended"}
    /\ kind[t] = "none" => pc[t] = "none"
    /\ pc[t] \in {"none", "report"} => ~cancelled[t]
    /\ pc[t] \in Working \cup {"none", "report"} => terminal[t] = 0
    /\ terminal[t] <= 1
    /\ pc[t] \in Working /\ ~cancelled[t] => active.task = t
    /\ pc[t] \in Working /\ cancelled[t] => pc[Loop] = "kill" /\ victim[Loop] = t
    /\ active.task = t => pc[t] \in Working /\ ~cancelled[t] /\ active.ts[1] = t
    /\ pc[t] \in {"report", "clear"} => ts[t][1] = t

Orderly == Typed /\ LoopOK /\ \A t \in Turns : TurnOK(t)

LEMMA OrderlyMatched ==
    ASSUME Orderly
    PROVE  Matched
<1>1. ASSUME NEW t \in Turns, pc[t] \in Working, cancelled[t] PROVE active = Idle
  BY <1>1 DEF Orderly, LoopOK, TurnOK
<1> QED
  BY <1>1 DEF Orderly, Matched, TurnOK

\* What the invariant is about.
core == <<active, pc, cancelled, terminal, kind, starting, victim, why, ts>>

LEMMA InitOrderly ==
    ASSUME Quiet, Init
    PROVE  Orderly
<1>1. LoopOK
  BY FiberKinds DEF Init, Quiet, LoopOK, Launching, Replacing, Fibers
<1>2. ASSUME NEW t \in Turns PROVE TurnOK(t)
  <2>1. pc[t] = "none" /\ ~cancelled[t] /\ terminal[t] = 0
    BY FiberKinds DEF Init
  <2>2. active.task # t
    BY FiberKinds DEF Init, Idle
  <2> QED
    BY <2>1, <2>2 DEF TurnOK, Working
<1> QED
  BY <1>1, <1>2, InitTyped DEF Orderly

\* Steps that leave all of it alone.
LEMMA CoreKeeps ==
    ASSUME Orderly, UNCHANGED core, left'["break"] = 0
    PROVE  LoopOK' /\ \A t \in Turns : TurnOK(t)'
<1>1. LoopOK'
  BY DEF Orderly, LoopOK, Launching, Replacing, core
<1>2. ASSUME NEW t \in Turns PROVE TurnOK(t)'
  BY DEF Orderly, TurnOK, core
<1> QED
  BY <1>1, <1>2

\* The operations of a quiet session never spend the breaker's budget.
LEMMA NoBreak ==
    ASSUME Orderly, NEW op \in Operations \ {"break"}, Spend(op)
    PROVE  left'["break"] = 0
  BY TypeParts DEF Orderly, Typed, LoopOK, EnvTypes, Spend, Operations

\* The task of a turn goes on, or stops because it was cancelled.
LEMMA WorkKeeps ==
    ASSUME Orderly, NEW t \in Turns, pc[t] \in Working,
           NEW l, l \in Working \/ (l = "ended" /\ active.task # t), Goto(t, l),
           UNCHANGED <<active, cancelled, terminal, kind, starting, victim, why, ts, left>>
    PROVE  LoopOK' /\ \A u \in Turns : TurnOK(u)'
<1>0. pc' = [pc EXCEPT ![t] = l] /\ pc \in [Fibers -> Labels]
  BY DEF Goto, Orderly, Typed, TypeOK
<1>1. LoopOK'
  <2>1. pc'[Loop] = pc[Loop] /\ pc'[Breaker] = pc[Breaker]
    BY <1>0, FiberKinds
  <2>2. \A u \in Turns : pc[u] = "none" => pc'[u] = "none"
    BY <1>0, FiberKinds DEF Working
  <2>3. \A u \in Turns : pc[u] \in Working \cup {"ended"} => pc'[u] \in Working \cup {"ended"}
    BY <1>0, FiberKinds
  <2>4. starting[Loop] \in Turns \cup {None}
    BY FiberKinds DEF Orderly, Typed, TypeOK
  <2>5. Launching \/ Replacing => starting[Loop] \in Turns
    BY FiberKinds DEF Orderly, Typed, FrameOK, Launching, Replacing
  <2> QED
    BY <2>1, <2>2, <2>3, <2>5 DEF Orderly, LoopOK, Launching, Replacing
<1>2. ASSUME NEW u \in Turns PROVE TurnOK(u)'
  <2>1. CASE u = t
    BY <1>0, <2>1, FiberKinds DEF Orderly, TurnOK, Working
  <2>2. CASE u # t
    BY <1>0, <2>2, FiberKinds DEF Orderly, TurnOK
  <2> QED
    BY <2>1, <2>2
<1> QED
  BY <1>1, <1>2

LEMMA OnlyLoopStarts ==
    ASSUME Orderly, NEW f \in Fibers
    PROVE  /\ pc[f] \in {"kill", "prepare", "install"} => f = Loop
           /\ pc[f] \notin {"reserve", "collect", "stash"}
  BY DEF Orderly, LoopOK, TurnOK, Working, Fibers

\* The variables the invariant is about have their types.
LEMMA CoreTypes ==
    ASSUME Orderly
    PROVE  /\ pc \in [Fibers -> Labels]
           /\ kind \in [Turns -> {"none", "regular", "shell", "compact"}]
           /\ cancelled \in [Turns -> BOOLEAN] /\ terminal \in [Turns -> Nat]
           /\ starting \in [Fibers -> Turns \cup {None}]
           /\ victim \in [Fibers -> Turns \cup {None}]
           /\ why \in [Fibers -> {"Replaced", "Interrupted"}]
           /\ ts \in [Fibers -> TurnStates \cup {None}]
           /\ Launching \/ Replacing => starting[Loop] \in Turns
  BY FiberKinds DEF Orderly, Typed, TypeOK, FrameOK, Launching, Replacing

LEMMA SpawnKeeps ==
    ASSUME Orderly, NEW t \in Turns, NEW k \in {"regular", "shell", "compact"},
           NEW items, pc[Loop] = "idle", left'["break"] = 0, Spawn(t, k, items)
    PROVE  LoopOK' /\ \A u \in Turns : TurnOK(u)'
<1>1. /\ kind' = [kind EXCEPT ![t] = k] /\ kind[t] = "none"
      /\ starting' = [starting EXCEPT ![Loop] = t]
      /\ pc' = [pc EXCEPT ![Loop] = "abort"]
      /\ UNCHANGED <<active, cancelled, terminal, ts, victim>>
  BY DEF Spawn, CreateTurn, Fresh, Goto
<1>2. pc'[Loop] = "abort" /\ \A f \in Fibers \ {Loop} : pc'[f] = pc[f]
  BY <1>1, CoreTypes, FiberKinds
<1>3. starting'[Loop] = t /\ pc[t] = "none"
  BY <1>1, CoreTypes, FiberKinds DEF Orderly, TurnOK
<1>4. LoopOK'
  <2>1. /\ pc'[Breaker] = "idle" /\ pc'[starting'[Loop]] = "none"
        /\ kind'[starting'[Loop]] # "none"
    BY <1>1, <1>2, <1>3, CoreTypes, FiberKinds, FibersAssumption DEF Orderly, LoopOK
  <2> QED
    BY <1>2, <2>1 DEF LoopOK, Launching
<1>5. ASSUME NEW u \in Turns PROVE TurnOK(u)'
  <2>1. kind'[u] = "none" => kind[u] = "none"
    BY <1>1, CoreTypes
  <2>2. pc'[u] = pc[u] /\ TurnOK(u)
    BY <1>2, FiberKinds DEF Orderly
  <2> QED
    BY <1>1, <1>2, <2>1, <2>2 DEF TurnOK
<1> QED
  BY <1>4, <1>5

LEMMA StartIfIdleKeeps ==
    ASSUME Orderly, NEW i, NEW t \in Turns, StartIfIdle(i, t)
    PROVE  LoopOK' /\ \A u \in Turns : TurnOK(u)'
<1>1. /\ kind' = [kind EXCEPT ![t] = "regular"] /\ kind[t] = "none"
      /\ starting' = [starting EXCEPT ![Loop] = t]
      /\ active = Idle /\ active' = [ts |-> <<t, "reserve">>, task |-> None]
      /\ ts' = [ts EXCEPT ![Loop] = <<t, "reserve">>]
      /\ pc' = [pc EXCEPT ![Loop] = "recheck"] /\ pc[Loop] = "idle"
      /\ UNCHANGED <<cancelled, terminal, victim, why>>
  BY DEF StartIfIdle, Handle, Reserve, CreateTurn, Fresh, Goto
<1>2. pc'[Loop] = "recheck" /\ \A f \in Fibers \ {Loop} : pc'[f] = pc[f] /\ ts'[f] = ts[f]
  BY <1>1, CoreTypes, FiberKinds
<1>3. starting'[Loop] = t /\ pc[t] = "none"
  BY <1>1, CoreTypes, FiberKinds DEF Orderly, TurnOK
<1>4. left'["break"] = 0
  BY NoBreak DEF StartIfIdle, Handle, Operations
<1>5. active'.task = None /\ active'.ts[1] = t /\ active' # Idle /\ active.task = None
  BY <1>1, FibersAssumption DEF Idle, TurnStates
<1>6. LoopOK'
  <2>1. /\ pc'[Breaker] = "idle" /\ pc'[starting'[Loop]] = "none"
        /\ kind'[starting'[Loop]] # "none"
    BY <1>1, <1>2, <1>3, CoreTypes, FiberKinds, FibersAssumption DEF Orderly, LoopOK
  <2> QED
    BY <1>2, <1>3, <1>4, <1>5, <2>1 DEF LoopOK
<1>7. ASSUME NEW u \in Turns PROVE TurnOK(u)'
  <2>1. kind'[u] = "none" => kind[u] = "none"
    BY <1>1, CoreTypes
  <2>2. pc'[u] = pc[u] /\ ts'[u] = ts[u] /\ TurnOK(u) /\ u # None
    BY <1>2, FiberKinds DEF Orderly
  <2>3. ~(pc[u] \in Working)
    BY <1>1, <1>5, <2>2, FiberKinds DEF TurnOK
  <2> QED
    BY <1>1, <1>5, <2>1, <2>2, <2>3 DEF TurnOK
<1> QED
  BY <1>6, <1>7

LEMMA EnvironmentKeeps ==
    ASSUME Quiet, Orderly, Environment
    PROVE  LoopOK' /\ \A u \in Turns : TurnOK(u)'
<1>1. ASSUME NEW i \in Inputs, Steer(i)
      PROVE  LoopOK' /\ \A u \in Turns : TurnOK(u)'
  <2>1. UNCHANGED core
    BY <1>1 DEF Steer, task, frame, core
  <2>2. left'["break"] = 0
    BY <1>1, NoBreak DEF Steer, Handle, Operations
  <2> QED
    BY <2>1, <2>2, CoreKeeps
<1>2. ASSUME NEW i \in Inputs, NEW t \in Turns, StartTurn(i, t)
      PROVE  LoopOK' /\ \A u \in Turns : TurnOK(u)'
  BY <1>2, NoBreak, SpawnKeeps DEF StartTurn, Handle, Operations
<1>3. ASSUME NEW t \in Turns, RunUserShell(t)
      PROVE  LoopOK' /\ \A u \in Turns : TurnOK(u)'
  BY <1>3, NoBreak, SpawnKeeps DEF RunUserShell, Handle, Operations
<1>4. ASSUME NEW t \in Turns, Compact(t)
      PROVE  LoopOK' /\ \A u \in Turns : TurnOK(u)'
  BY <1>4, NoBreak, SpawnKeeps DEF Compact, Handle, Operations
<1>5. ASSUME NEW t \in Turns, BreakTurn(t) PROVE FALSE
  BY <1>5 DEF BreakTurn, Spend, Orderly, LoopOK
<1>6. ASSUME Interrupt
      PROVE  LoopOK' /\ \A u \in Turns : TurnOK(u)'
  <2>1. /\ why' = [why EXCEPT ![Loop] = "Interrupted"]
        /\ pc' = [pc EXCEPT ![Loop] = "abort"] /\ pc[Loop] = "idle"
        /\ UNCHANGED <<active, cancelled, terminal, kind, starting, victim, ts>>
    BY <1>6 DEF Interrupt, Handle, Goto, task
  <2>2. left'["break"] = 0
    BY <1>6, NoBreak DEF Interrupt, Handle, Operations
  <2>3. /\ pc'[Loop] = "abort" /\ why'[Loop] = "Interrupted"
        /\ \A f \in Fibers \ {Loop} : pc'[f] = pc[f]
    BY <2>1, CoreTypes, FiberKinds
  <2>4. LoopOK'
    <3>1. pc'[Breaker] = "idle"
      BY <2>3, FiberKinds, FibersAssumption DEF Orderly, LoopOK
    <3> QED
      BY <2>2, <2>3, <3>1 DEF LoopOK, Launching, Replacing
  <2>5. ASSUME NEW u \in Turns PROVE TurnOK(u)'
    <3>1. pc'[u] = pc[u] /\ TurnOK(u)
      BY <2>3, FiberKinds DEF Orderly
    <3> QED
      BY <2>1, <2>3, <3>1 DEF TurnOK
  <2> QED
    BY <2>4, <2>5
<1>7. ASSUME NEW m \in Mails, Mail(m)
      PROVE  LoopOK' /\ \A u \in Turns : TurnOK(u)'
  <2>1. UNCHANGED core
    BY <1>7 DEF Mail, Quiet, task, frame, core
  <2>2. left'["break"] = 0
    BY <1>7, NoBreak DEF Mail, Handle, Operations
  <2> QED
    BY <2>1, <2>2, CoreKeeps
<1>8. ASSUME NEW i \in Injections, Inject(i)
      PROVE  LoopOK' /\ \A u \in Turns : TurnOK(u)'
  <2>1. UNCHANGED core
    BY <1>8 DEF Inject, task, frame, core
  <2>2. left'["break"] = 0
    BY <1>8, NoBreak DEF Inject, Operations
  <2> QED
    BY <2>1, <2>2, CoreKeeps
<1> QED
  BY <1>1, <1>2, <1>3, <1>4, <1>5, <1>6, <1>7, <1>8, StartIfIdleKeeps DEF Environment

LEMMA LoopKeeps ==
    ASSUME Quiet, Orderly, LoopStep
    PROVE  LoopOK' /\ \A u \in Turns : TurnOK(u)'
<1>0. left' = left /\ left["break"] = 0
  BY DEF LoopStep, TakeActiveTurn, StartIfIdleGivesUp, StartIfIdleCommits, env, Orderly, LoopOK
<1>1. ASSUME TakeActiveTurn, active.task = None
      PROVE  LoopOK' /\ \A u \in Turns : TurnOK(u)'
  <2>1. /\ pc[Loop] = "abort" /\ active' = Idle
        /\ Goto(Loop, IF why[Loop] = "Replaced" THEN "prepare" ELSE "idle")
        /\ UNCHANGED <<cancelled, terminal, kind, starting, victim, why, ts>>
    BY <1>1 DEF TakeActiveTurn, task
  <2>2. /\ pc'[Loop] = IF why[Loop] = "Replaced" THEN "prepare" ELSE "idle"
        /\ \A f \in Fibers \ {Loop} : pc'[f] = pc[f]
    BY <2>1, CoreTypes, FiberKinds DEF Goto
  <2>3. active'.task = None
    BY <2>1 DEF Idle
  <2>4. LoopOK'
    <3>1. pc'[Breaker] = "idle"
      BY <2>2, FiberKinds, FibersAssumption DEF Orderly, LoopOK
    <3>2. CASE why[Loop] = "Replaced"
      <4>1. /\ Replacing /\ pc[starting[Loop]] = "none"
            /\ kind[starting[Loop]] # "none" /\ starting[Loop] \in Turns
        BY <2>1, <3>2, CoreTypes DEF Orderly, LoopOK, Replacing
      <4>2. pc'[starting'[Loop]] = "none" /\ pc'[Loop] = "prepare"
        BY <2>1, <2>2, <3>2, <4>1, FiberKinds
      <4> QED
        BY <1>0, <2>1, <2>3, <3>1, <4>1, <4>2 DEF LoopOK
    <3>3. CASE why[Loop] # "Replaced"
      BY <1>0, <2>2, <3>1, <3>3 DEF LoopOK, Launching, Replacing
    <3> QED
      BY <3>2, <3>3
  <2>5. ASSUME NEW u \in Turns PROVE TurnOK(u)'
    <3>1. pc'[u] = pc[u] /\ TurnOK(u) /\ u # None
      BY <2>2, FiberKinds DEF Orderly
    <3> QED
      BY <1>1, <2>1, <2>3, <3>1 DEF TurnOK
  <2> QED
    BY <2>4, <2>5
<1>2. ASSUME TakeActiveTurn, active.task # None
      PROVE  LoopOK' /\ \A u \in Turns : TurnOK(u)'
  <2>1. PICK v \in Turns : v = active.task
    BY <1>2, ActiveParts DEF Orderly, Typed
  <2>2. /\ pc[Loop] = "abort" /\ active' = Idle
        /\ victim' = [victim EXCEPT ![Loop] = v]
        /\ ts' = [ts EXCEPT ![Loop] = active.ts]
        /\ cancelled' = [cancelled EXCEPT ![v] = TRUE]
        /\ Goto(Loop, "kill") /\ UNCHANGED <<terminal, kind, starting, why>>
    BY <1>2, <2>1 DEF TakeActiveTurn, TakeAndCancel
  <2>3. /\ pc'[Loop] = "kill" /\ victim'[Loop] = v /\ ts'[Loop] = active.ts
        /\ \A f \in Fibers \ {Loop} : pc'[f] = pc[f] /\ ts'[f] = ts[f]
    BY <2>2, CoreTypes, FiberKinds DEF Goto
  <2>4. /\ cancelled'[v] /\ \A u \in Turns \ {v} : cancelled'[u] = cancelled[u]
        /\ active'.task = None
    BY <2>2, CoreTypes DEF Idle
  <2>5. pc[v] \in Working /\ ~cancelled[v] /\ active.ts[1] = v /\ terminal[v] = 0
    BY <2>1 DEF Orderly, TurnOK
  <2>6. LoopOK'
    <3>1. pc'[Breaker] = "idle" /\ pc'[v] = pc[v]
      BY <2>3, FiberKinds, FibersAssumption DEF Orderly, LoopOK
    <3>2. Replacing' =>
            pc'[starting'[Loop]] = "none" /\ kind'[starting'[Loop]] # "none"
      <4>1. SUFFICES ASSUME why[Loop] = "Replaced"
                     PROVE  /\ pc'[starting[Loop]] = "none"
                            /\ kind[starting[Loop]] # "none"
        BY <2>2 DEF Replacing
      <4>2. Replacing
        BY <2>2, <4>1 DEF Replacing
      <4> QED
        BY <2>3, <4>2, CoreTypes, FiberKinds DEF Orderly, LoopOK
    <3> QED
      BY <1>0, <2>2, <2>3, <2>4, <2>5, <3>1, <3>2 DEF LoopOK, Launching
  <2>7. ASSUME NEW u \in Turns PROVE TurnOK(u)'
    <3>1. pc'[u] = pc[u] /\ ts'[u] = ts[u] /\ TurnOK(u) /\ u # None
      BY <2>3, FiberKinds DEF Orderly
    <3>2. CASE u = v
      BY <2>2, <2>3, <2>4, <2>5, <3>1, <3>2 DEF TurnOK, Working
    <3>3. CASE u # v
      BY <2>1, <2>2, <2>3, <2>4, <3>1, <3>3 DEF TurnOK
    <3> QED
      BY <3>2, <3>3
  <2> QED
    BY <2>6, <2>7
<1>3. ASSUME StartIfIdleGivesUp
      PROVE  LoopOK' /\ \A u \in Turns : TurnOK(u)'
  <2>1. /\ pc[Loop] = "recheck" /\ (active' = Idle \/ active' = active)
        /\ \E l \in {"check", "idle"} : Goto(Loop, l)
        /\ UNCHANGED <<cancelled, terminal, kind, starting, victim, why, ts>>
    BY <1>3 DEF StartIfIdleGivesUp, ClearReservation, task
  <2>2. /\ pc'[Loop] \in {"check", "idle"}
        /\ \A f \in Fibers \ {Loop} : pc'[f] = pc[f]
    BY <2>1, CoreTypes, FiberKinds DEF Goto
  <2>3. active.task = None /\ active'.task = None
    BY <2>1 DEF Idle, Orderly, LoopOK, Launching
  <2>4. LoopOK'
    <3>1. pc'[Breaker] = "idle"
      BY <2>2, FiberKinds, FibersAssumption DEF Orderly, LoopOK
    <3> QED
      BY <1>0, <2>2, <3>1 DEF LoopOK, Launching, Replacing
  <2>5. ASSUME NEW u \in Turns PROVE TurnOK(u)'
    <3>1. pc'[u] = pc[u] /\ TurnOK(u) /\ u # None
      BY <2>2, FiberKinds DEF Orderly
    <3> QED
      BY <2>1, <2>3, <3>1 DEF TurnOK
  <2> QED
    BY <2>4, <2>5
<1>4. ASSUME StartIfIdleCommits
      PROVE  LoopOK' /\ \A u \in Turns : TurnOK(u)'
  <2>1. /\ pc[Loop] = "recheck" /\ Goto(Loop, "prepare")
        /\ UNCHANGED <<active, cancelled, terminal, kind, starting, victim, why, ts>>
    BY <1>4 DEF StartIfIdleCommits, task
  <2>2. /\ pc'[Loop] = "prepare"
        /\ \A f \in Fibers \ {Loop} : pc'[f] = pc[f]
    BY <2>1, CoreTypes, FiberKinds DEF Goto
  <2>3. LoopOK'
    <3>1. pc'[Breaker] = "idle"
      BY <2>2, FiberKinds, FibersAssumption DEF Orderly, LoopOK
    <3>2. /\ pc[starting[Loop]] = "none" /\ kind[starting[Loop]] # "none"
          /\ starting[Loop] \in Turns /\ active.task = None
          /\ active # Idle => active.ts[1] = starting[Loop]
      BY <2>1, CoreTypes DEF Orderly, LoopOK, Launching
    <3>3. pc'[starting'[Loop]] = "none"
      BY <2>1, <2>2, <3>2, FiberKinds
    <3> QED
      BY <1>0, <2>1, <2>2, <3>1, <3>2, <3>3 DEF LoopOK
  <2>4. ASSUME NEW u \in Turns PROVE TurnOK(u)'
    <3>1. pc'[u] = pc[u] /\ TurnOK(u)
      BY <2>2, FiberKinds DEF Orderly
    <3> QED
      BY <2>1, <3>1 DEF TurnOK
  <2> QED
    BY <2>3, <2>4
<1> QED
  BY <1>1, <1>2, <1>3, <1>4 DEF LoopStep

LEMMA KillKeeps ==
    ASSUME Orderly, KillTask(Loop)
    PROVE  LoopOK' /\ \A u \in Turns : TurnOK(u)'
<1>1. PICK v \in Turns : v = victim[Loop]
  BY DEF KillTask, Orderly, LoopOK
<1>2. PICK l : l = IF why[Loop] = "Replaced" THEN "prepare" ELSE "check"
  OBVIOUS
<1>3. /\ pc[Loop] = "kill"
      /\ pc' = [[pc EXCEPT ![v] = "ended"] EXCEPT ![Loop] = l]
      /\ terminal' = [terminal EXCEPT ![v] = terminal[v] + 1]
      /\ UNCHANGED <<active, cancelled, kind, starting, victim, why, ts, left>>
  BY <1>1, <1>2 DEF KillTask, task, frame, env
<1>4. /\ pc'[Loop] = l /\ pc'[v] = "ended"
      /\ \A f \in Fibers \ {Loop, v} : pc'[f] = pc[f]
  BY <1>3, CoreTypes, FiberKinds
<1>5. /\ active = Idle /\ active.task = None /\ terminal[v] = 0
      /\ pc[v] \in Working \cup {"ended"}
  BY <1>1, <1>3 DEF Orderly, LoopOK, Idle
<1>6. terminal'[v] = 1 /\ \A u \in Turns \ {v} : terminal'[u] = terminal[u]
  BY <1>3, <1>5, CoreTypes
<1>7. LoopOK'
  <2>1. pc'[Breaker] = "idle" /\ left'["break"] = 0
    BY <1>3, <1>4, FiberKinds, FibersAssumption DEF Orderly, LoopOK
  <2>2. CASE why[Loop] = "Replaced"
    <3>1. /\ Replacing /\ pc[starting[Loop]] = "none"
          /\ kind[starting[Loop]] # "none" /\ starting[Loop] \in Turns
      BY <1>3, <2>2, CoreTypes DEF Orderly, LoopOK, Replacing
    <3>2. starting[Loop] # v
      BY <1>5, <3>1 DEF Working
    <3>3. pc'[starting'[Loop]] = "none" /\ kind'[starting'[Loop]] # "none"
      BY <1>3, <1>4, <3>1, <3>2, FiberKinds
    <3> QED
      BY <1>2, <1>3, <1>4, <1>5, <2>1, <2>2, <3>3 DEF LoopOK
  <2>3. CASE why[Loop] # "Replaced"
    BY <1>2, <1>4, <2>1, <2>3 DEF LoopOK, Launching, Replacing
  <2> QED
    BY <2>2, <2>3
<1>8. ASSUME NEW u \in Turns PROVE TurnOK(u)'
  <2>1. TurnOK(u) /\ u # None
    BY FiberKinds DEF Orderly
  <2>2. CASE u = v
    BY <1>3, <1>4, <1>5, <1>6, <2>1, <2>2 DEF TurnOK, Working
  <2>3. CASE u # v
    <3>1. pc'[u] = pc[u] /\ terminal'[u] = terminal[u]
      BY <1>4, <1>6, <2>3, FiberKinds
    <3>2. pc[u] \notin Working
      BY <1>1, <1>5, <2>1, <2>3 DEF TurnOK
    <3> QED
      BY <1>3, <1>5, <2>1, <3>1, <3>2 DEF TurnOK
  <2> QED
    BY <2>2, <2>3
<1> QED
  BY <1>7, <1>8

LEMMA CheckKeeps ==
    ASSUME Quiet, Orderly, NEW f \in Fibers, CheckPendingWork(f)
    PROVE  LoopOK' /\ \A u \in Turns : TurnOK(u)'
<1>1. ~HasPendingWork
  BY DEF Quiet, HasPendingWork, HasTrigger
<1>2. /\ pc[f] = "check" /\ pc' = [pc EXCEPT ![f] = Return(f)]
      /\ UNCHANGED <<active, cancelled, terminal, kind, starting, victim, why, ts, left>>
  BY <1>1 DEF CheckPendingWork, Goto, task, frame, env
<1>3. pc'[f] = Return(f) /\ \A g \in Fibers \ {f} : pc'[g] = pc[g]
  BY <1>2, CoreTypes
<1>4. CASE f = Loop
  <2>1. pc'[Loop] = "idle" /\ pc'[Breaker] = pc[Breaker]
    BY <1>3, <1>4, FiberKinds, FibersAssumption DEF Return
  <2>2. LoopOK'
    BY <1>2, <2>1 DEF Orderly, LoopOK, Launching, Replacing
  <2>3. ASSUME NEW u \in Turns PROVE TurnOK(u)'
    <3>1. TurnOK(u) /\ pc'[u] = pc[u]
      BY <1>3, <1>4, FiberKinds DEF Orderly
    <3> QED
      BY <1>2, <1>4, <2>1, <3>1 DEF TurnOK
  <2> QED
    BY <2>2, <2>3
<1>5. CASE f \in Turns
  <2>1. pc'[f] = "ended" /\ pc'[Loop] = pc[Loop] /\ pc'[Breaker] = pc[Breaker]
    BY <1>3, <1>5, FiberKinds DEF Return
  <2>2. LoopOK'
    <3>1. \A u \in Turns : /\ pc[u] = "none" => pc'[u] = "none"
                           /\ pc[u] \in Working \cup {"ended"} => pc'[u] = pc[u]
      BY <1>2, <1>3, FiberKinds DEF Working
    <3> QED
      BY <1>2, <2>1, <3>1, CoreTypes DEF Orderly, LoopOK, Launching, Replacing
  <2>3. ASSUME NEW u \in Turns PROVE TurnOK(u)'
    <3>1. TurnOK(u)
      BY DEF Orderly
    <3>2. CASE u = f
      BY <1>2, <2>1, <3>1, <3>2 DEF TurnOK, Working
    <3>3. CASE u # f
      BY <1>2, <1>3, <2>1, <3>1, <3>3, FiberKinds DEF TurnOK
    <3> QED
      BY <3>2, <3>3
  <2> QED
    BY <2>2, <2>3
<1>6. f # Breaker
  BY <1>2 DEF Orderly, LoopOK
<1> QED
  BY <1>4, <1>5, <1>6 DEF Fibers

LEMMA PrepareKeeps ==
    ASSUME Orderly, PrepareTask(Loop)
    PROVE  LoopOK' /\ \A u \in Turns : TurnOK(u)'
<1>1. /\ pc[Loop] = "prepare" /\ Goto(Loop, "install")
      /\ active' = GetOrInsert(Loop, "prepare")
      /\ UNCHANGED <<cancelled, terminal, kind, starting, victim, why, ts, left>>
  BY DEF PrepareTask, task, frame, env
<1>2. pc'[Loop] = "install" /\ \A f \in Fibers \ {Loop} : pc'[f] = pc[f]
  BY <1>1, CoreTypes, FiberKinds DEF Goto
<1>3. /\ pc[starting[Loop]] = "none" /\ kind[starting[Loop]] # "none"
      /\ starting[Loop] \in Turns /\ active.task = None
      /\ active # Idle => active.ts[1] = starting[Loop]
  BY <1>1, CoreTypes DEF Orderly, LoopOK, Launching
<1>4. active'.task = None /\ active'.ts[1] = starting[Loop] /\ active' # Idle
  <2>1. CASE active = Idle
    <3>1. active' = [ts |-> <<starting[Loop], "prepare">>, task |-> None]
      BY <1>1, <2>1 DEF GetOrInsert
    <3>2. <<starting[Loop], "prepare">> \in TurnStates
      BY <1>3 DEF TurnStates
    <3> QED
      BY <3>1, <3>2, FibersAssumption DEF Idle
  <2>2. CASE active # Idle
    BY <1>1, <1>3, <2>2 DEF GetOrInsert
  <2> QED
    BY <2>1, <2>2
<1>5. LoopOK'
  <2>1. pc'[Breaker] = "idle" /\ left'["break"] = 0
    BY <1>1, <1>2, FiberKinds, FibersAssumption DEF Orderly, LoopOK
  <2>2. pc'[starting'[Loop]] = "none" /\ kind'[starting'[Loop]] # "none"
    BY <1>1, <1>2, <1>3, FiberKinds
  <2> QED
    BY <1>1, <1>2, <1>4, <2>1, <2>2 DEF LoopOK
<1>6. ASSUME NEW u \in Turns PROVE TurnOK(u)'
  <2>1. pc'[u] = pc[u] /\ TurnOK(u) /\ u # None
    BY <1>2, FiberKinds DEF Orderly
  <2> QED
    BY <1>1, <1>3, <1>4, <2>1 DEF TurnOK
<1> QED
  BY <1>5, <1>6

LEMMA InstallKeeps ==
    ASSUME Orderly, InstallTask(Loop)
    PROVE  LoopOK' /\ \A u \in Turns : TurnOK(u)'
<1>1. PICK n \in Turns : n = starting[Loop]
  BY CoreTypes DEF InstallTask, Launching
<1>2. /\ active.task = None /\ active # Idle /\ active.ts[1] = n
      /\ pc[n] = "none" /\ kind[n] # "none" /\ ~cancelled[n] /\ terminal[n] = 0
  BY <1>1 DEF InstallTask, Orderly, LoopOK, Launching, TurnOK
<1>3. /\ pc[Loop] = "install" /\ active' = [active EXCEPT !.task = n]
      /\ UNCHANGED <<cancelled, terminal, kind, victim, why, ts, left>>
  BY <1>1, <1>2 DEF InstallTask, GetOrInsert, task, env
<1>4. active'.task = n /\ active'.ts[1] = n
  BY <1>2, <1>3, ActiveParts DEF Orderly, Typed
<1>5. /\ pc'[Loop] = "idle" /\ pc'[n] = "begin"
      /\ \A f \in Fibers \ {Loop, n} : pc'[f] = pc[f]
  BY <1>1, <1>2, FiberKinds, FibersAssumption DEF InstallTask, Return
<1>6. LoopOK'
  <2>1. pc'[Breaker] = "idle" /\ left'["break"] = 0
    BY <1>3, <1>5, FiberKinds, FibersAssumption DEF Orderly, LoopOK
  <2> QED
    BY <1>5, <2>1 DEF LoopOK, Launching, Replacing
<1>7. ASSUME NEW u \in Turns PROVE TurnOK(u)'
  <2>1. TurnOK(u) /\ u # None
    BY FiberKinds DEF Orderly
  <2>2. CASE u = n
    BY <1>2, <1>3, <1>4, <1>5, <2>1, <2>2 DEF TurnOK, Working
  <2>3. CASE u # n
    <3>1. pc'[u] = pc[u]
      BY <1>5, <2>3, FiberKinds
    <3>2. pc[u] \notin Working
      BY <1>2, <1>3, <2>1 DEF TurnOK
    <3> QED
      BY <1>3, <1>4, <2>1, <2>3, <3>1, <3>2 DEF TurnOK
  <2> QED
    BY <2>2, <2>3
<1> QED
  BY <1>6, <1>7

LEMMA StartingKeeps ==
    ASSUME Quiet, Orderly, NEW f \in Fibers, StartingStep(f)
    PROVE  LoopOK' /\ \A u \in Turns : TurnOK(u)'
<1>1. CASE KillTask(f) \/ PrepareTask(f) \/ InstallTask(f)
  <2>1. f = Loop
    BY <1>1, OnlyLoopStarts DEF KillTask, PrepareTask, InstallTask
  <2> QED
    BY <1>1, <2>1, KillKeeps, PrepareKeeps, InstallKeeps
<1>2. ~(\/ NotIdle(f) \/ CollectPendingWork(f) \/ StashPendingWork(f)
        \/ \E t \in Turns : ReserveForPendingWork(f, t))
  BY OnlyLoopStarts
  DEF NotIdle, CollectPendingWork, StashPendingWork, ReserveForPendingWork
<1> QED
  BY <1>1, <1>2, CheckKeeps DEF StartingStep

LEMMA FinishKeeps ==
    ASSUME Orderly, NEW t \in Turns, FinishTask(t)
    PROVE  LoopOK' /\ \A u \in Turns : TurnOK(u)'
<1>0. pc[t] = "finish" /\ pc[t] \in Working /\ t \in Fibers
  BY FiberKinds DEF FinishTask, Working
<1>1. CASE active.task = None
  <2>1. /\ Goto(t, "ended") /\ active.task # t
        /\ UNCHANGED <<active, cancelled, terminal, kind, starting, victim, why, ts, left>>
    BY <1>1, FiberKinds DEF FinishTask, task, env
  <2> QED
    BY <1>0, <2>1, WorkKeeps
<1>2. CASE active.task # None
  <2>1. /\ active.task = t /\ ~cancelled[t] /\ active # Idle /\ active.ts[1] = t
        /\ terminal[t] = 0
    BY <1>0, <1>2, OrderlyMatched, FinishFindsItself DEF Orderly, TurnOK
  <2>2. /\ active' = [active EXCEPT !.task = None]
        /\ ts' = [ts EXCEPT ![t] = active.ts] /\ pc' = [pc EXCEPT ![t] = "report"]
        /\ UNCHANGED <<cancelled, terminal, kind, starting, victim, why, left>>
    BY <1>2 DEF FinishTask, Goto, task, env
  <2>3. /\ pc'[t] = "report" /\ ts'[t] = active.ts
        /\ \A f \in Fibers \ {t} : pc'[f] = pc[f] /\ ts'[f] = ts[f]
    BY <1>0, <2>2, CoreTypes
  <2>4. active'.task = None
    BY <2>1, <2>2, ActiveParts DEF Orderly, Typed
  <2>5. LoopOK'
    <3>1. /\ pc'[Breaker] = "idle" /\ left'["break"] = 0 /\ pc'[Loop] = pc[Loop]
          /\ pc[Loop] \in {"idle", "abort", "check"}
      BY <2>1, <2>2, <2>3, FiberKinds DEF Orderly, LoopOK, Launching
    <3>2. Replacing' =>
            pc'[starting'[Loop]] = "none" /\ kind'[starting'[Loop]] # "none"
      <4>1. SUFFICES ASSUME Replacing PROVE pc'[starting[Loop]] = "none" /\ kind[starting[Loop]] # "none"
        BY <2>2, <3>1 DEF Replacing
      <4>2. starting[Loop] \in Turns /\ pc[starting[Loop]] = "none" /\ kind[starting[Loop]] # "none"
        BY <4>1, CoreTypes DEF Orderly, LoopOK
      <4> QED
        BY <1>0, <2>3, <4>2, FiberKinds
    <3> QED
      BY <3>1, <3>2 DEF LoopOK, Launching
  <2>6. ASSUME NEW u \in Turns PROVE TurnOK(u)'
    <3>1. TurnOK(u) /\ u # None /\ pc'[Loop] = pc[Loop]
      BY <2>3, FiberKinds DEF Orderly
    <3>2. CASE u = t
      BY <2>1, <2>2, <2>3, <2>4, <3>1, <3>2 DEF TurnOK, Working
    <3>3. CASE u # t
      BY <2>1, <2>2, <2>3, <2>4, <3>1, <3>3, FiberKinds DEF TurnOK
    <3> QED
      BY <3>2, <3>3
  <2> QED
    BY <2>5, <2>6
<1> QED
  BY <1>1, <1>2

LEMMA ReportKeeps ==
    ASSUME Orderly, NEW t \in Turns, ReportCompletion(t)
    PROVE  LoopOK' /\ \A u \in Turns : TurnOK(u)'
<1>0. t \in Fibers
  BY FiberKinds
<1>1. /\ pc[t] = "report" /\ pc' = [pc EXCEPT ![t] = "clear"]
      /\ terminal' = [terminal EXCEPT ![t] = terminal[t] + 1]
      /\ UNCHANGED <<active, cancelled, kind, starting, victim, why, ts, left>>
  BY DEF ReportCompletion, Goto, task, frame, env
<1>2. pc'[t] = "clear" /\ \A f \in Fibers \ {t} : pc'[f] = pc[f]
  BY <1>0, <1>1, CoreTypes
<1>3. terminal[t] = 0 /\ terminal'[t] = 1 /\ \A u \in Turns \ {t} : terminal'[u] = terminal[u]
  BY <1>1, CoreTypes DEF Orderly, TurnOK
<1>4. LoopOK'
  <2>1. pc'[Loop] = pc[Loop] /\ pc'[Breaker] = pc[Breaker]
    BY <1>2, FiberKinds
  <2>2. \A u \in Turns : /\ pc[u] = "none" => pc'[u] = "none"
                         /\ pc[u] \in Working \cup {"ended"} =>
                              pc'[u] = pc[u] /\ terminal'[u] = terminal[u]
    BY <1>1, <1>2, <1>3, FiberKinds DEF Working
  <2> QED
    BY <1>1, <2>1, <2>2, CoreTypes DEF Orderly, LoopOK, Launching, Replacing
<1>5. ASSUME NEW u \in Turns PROVE TurnOK(u)'
  <2>1. TurnOK(u) /\ pc'[Loop] = pc[Loop]
    BY <1>2, FiberKinds DEF Orderly
  <2>2. CASE u = t
    BY <1>1, <1>2, <1>3, <2>1, <2>2 DEF TurnOK, Working
  <2>3. CASE u # t
    BY <1>1, <1>2, <1>3, <2>1, <2>3, FiberKinds DEF TurnOK
  <2> QED
    BY <2>2, <2>3
<1> QED
  BY <1>4, <1>5

LEMMA ClearKeeps ==
    ASSUME Orderly, NEW t \in Turns, ClearActiveTurn(t)
    PROVE  LoopOK' /\ \A u \in Turns : TurnOK(u)'
<1>0. t \in Fibers
  BY FiberKinds
<1>1. PICK l \in {"check", "ended"} :
        /\ pc[t] = "clear" /\ pc' = [pc EXCEPT ![t] = l]
        /\ active' = IF ReservedBy(t) THEN Idle ELSE active
        /\ UNCHANGED <<cancelled, terminal, kind, starting, victim, why, ts, left>>
  BY DEF ClearActiveTurn, ClearReservation, Goto, task, frame, env
<1>2. pc'[t] = l /\ \A f \in Fibers \ {t} : pc'[f] = pc[f]
  BY <1>0, <1>1, CoreTypes
<1>3. active'.task = active.task /\ (active.task # None => active' = active)
  BY <1>1 DEF ReservedBy, Idle
<1>4. Launching => active' = active
  <2>1. SUFFICES ASSUME Launching, ReservedBy(t) PROVE active = Idle
    BY <1>1
  <2>2. active.ts = ts[t] /\ ts[t][1] = t
    BY <1>1, <2>1 DEF ReservedBy, Orderly, TurnOK
  <2>3. starting[Loop] # t
    BY <1>1, <2>1 DEF Orderly, LoopOK
  <2> QED
    BY <2>1, <2>2, <2>3 DEF Orderly, LoopOK
<1>5. LoopOK'
  <2>1. pc'[Loop] = pc[Loop] /\ pc'[Breaker] = pc[Breaker] /\ (Launching' <=> Launching)
    BY <1>2, FiberKinds DEF Launching
  <2>2. \A u \in Turns : /\ pc[u] = "none" => pc'[u] = "none"
                         /\ pc[u] \in Working \cup {"ended"} => pc'[u] = pc[u]
    BY <1>1, <1>2, FiberKinds DEF Working
  <2>3. active = Idle => active' = Idle
    BY <1>1
  <2>4. CASE Launching
    BY <1>1, <1>4, <2>1, <2>2, <2>4, CoreTypes DEF Orderly, LoopOK, Launching
  <2>5. CASE ~Launching
    BY <1>1, <1>3, <2>1, <2>2, <2>3, <2>5, CoreTypes DEF Orderly, LoopOK, Launching, Replacing
  <2> QED
    BY <2>4, <2>5
<1>6. ASSUME NEW u \in Turns PROVE TurnOK(u)'
  <2>1. TurnOK(u) /\ pc'[Loop] = pc[Loop] /\ u # None
    BY <1>2, FiberKinds DEF Orderly
  <2>2. CASE u = t
    BY <1>1, <1>2, <1>3, <2>1, <2>2 DEF TurnOK, Working
  <2>3. CASE u # t
    BY <1>1, <1>2, <1>3, <2>1, <2>3, FiberKinds DEF TurnOK
  <2> QED
    BY <2>2, <2>3
<1> QED
  BY <1>5, <1>6

LEMMA StepOrderly ==
    ASSUME Quiet, Orderly, [Next]_vars
    PROVE  Orderly'
<1>1. Typed'
  BY StepTyped DEF Orderly
<1>2. CASE UNCHANGED vars
  <2>1. UNCHANGED core /\ left'["break"] = 0
    BY <1>2 DEF vars, task, frame, env, core, Orderly, LoopOK
  <2> QED
    BY <1>1, <2>1, CoreKeeps DEF Orderly
<1>3. ASSUME NEW t \in Turns, TaskStep(t)
      PROVE  LoopOK' /\ \A u \in Turns : TurnOK(u)'
  <2>1. CASE FinishTask(t) \/ ReportCompletion(t) \/ ClearActiveTurn(t)
    BY <2>1, FinishKeeps, ReportKeeps, ClearKeeps
  <2>2. CASE ~(FinishTask(t) \/ ReportCompletion(t) \/ ClearActiveTurn(t))
    BY <1>3, <2>2, OrderlyMatched, WorkSteps, WorkKeeps DEF TaskStep, Advance
  <2> QED
    BY <2>1, <2>2
<1>4. CASE Next
  <2>1. LoopOK' /\ \A u \in Turns : TurnOK(u)'
    BY <1>3, <1>4, EnvironmentKeeps, LoopKeeps, StartingKeeps DEF Next
  <2> QED
    BY <1>1, <2>1 DEF Orderly
<1> QED
  BY <1>2, <1>4

LEMMA AlwaysOrderly ==
    ASSUME Quiet
    PROVE  Spec => []Orderly
<1>1. Init => Orderly
  BY InitOrderly
<1>2. Orderly /\ [Next]_vars => Orderly'
  BY StepOrderly
<1> QED
  BY <1>1, <1>2, PTL DEF Spec

\* In a quiet session a task that is working and was not cancelled is the
\* active turn's task, however many turns are started, steered, replaced and
\* interrupted (spawn_task, abort_all_tasks, on_task_finished).
THEOREM OneRunner ==
    ASSUME Quiet
    PROVE  Spec => []RunnerIsActive
<1>1. Orderly => RunnerIsActive
  BY DEF Orderly, TurnOK, RunnerIsActive
<1> QED
  BY <1>1, AlwaysOrderly, PTL

\* In a quiet session no turn is reported finished twice, whichever of
\* on_task_finished and handle_task_abort gets hold of its task.
THEOREM ReportedOnce ==
    ASSUME Quiet
    PROVE  Spec => []OneTerminal
<1>1. Orderly => OneTerminal
  BY DEF Orderly, TurnOK, OneTerminal
<1> QED
  BY <1>1, AlwaysOrderly, PTL

\* In a quiet session start_task finds no task in the active turn, in either
\* of its halves.
THEOREM NoTaskOverwritten ==
    ASSUME Quiet
    PROVE  Spec => []StartFindsNoTask
<1>1. ASSUME Orderly PROVE StartFindsNoTask
  BY <1>1, OnlyLoopStarts DEF Orderly, LoopOK, Launching, StartFindsNoTask
<1> QED
  BY <1>1, AlwaysOrderly, PTL

-----------------------------------------------------------------------------
(* A turn closed to mail makes no new request.                             *)

\* Only a turn with a task was ever closed to mail.
PhaseOK == \A s \in TurnStates : phase[s] = "NextTurn" => pc[s[1]] # "none"

Phased == Matched /\ PhaseOK /\ NoRequestWhenClosed
Closing == Orderly /\ PhaseOK /\ NoRequestWhenClosed

LEMMA OwnerIsTurn == \A s \in TurnStates : s[1] \in Turns
  BY DEF TurnStates

\* Steps that close no turn and leave the task of the active turn where it is.
LEMMA ClosedKept ==
    ASSUME Phased,
           \A s \in TurnStates : phase'[s] = "NextTurn" => phase[s] = "NextTurn",
           \A u \in Turns : pc'[u] = "none" => pc[u] = "none",
           \A u \in Turns : active'.task = u => active' = active /\ pc'[u] = pc[u]
    PROVE  PhaseOK' /\ NoRequestWhenClosed'
<1>1. PhaseOK'
  BY OwnerIsTurn DEF Phased, PhaseOK
<1>2. ASSUME NEW t \in Turns, active'.task = t, phase'[active'.ts] = "NextTurn"
      PROVE  pc'[t] \in Streaming \cup {"decide", "again", "flush", "finish"}
  <2>1. active' = active /\ pc'[t] = pc[t] /\ active.task = t
    BY <1>2
  <2>2. active.ts \in TurnStates
    BY <2>1, ActiveState DEF Phased
  <2>3. phase[active.ts] = "NextTurn"
    BY <1>2, <2>1, <2>2
  <2> QED
    BY <2>1, <2>3 DEF Phased, NoRequestWhenClosed
<1> QED
  BY <1>1, <1>2 DEF NoRequestWhenClosed

LEMMA ClosingPhased ==
    ASSUME Closing
    PROVE  Phased
  BY OrderlyMatched DEF Closing, Phased

LEMMA EnvironmentCloses ==
    ASSUME Quiet, Closing, Environment
    PROVE  PhaseOK' /\ NoRequestWhenClosed'
<1>0. Orderly /\ phase \in [TurnStates -> {"CurrentTurn", "NextTurn"}]
  BY DEF Closing, Orderly, Typed, TypeOK
<1>1. ASSUME NEW i, AppendToActive(i)
      PROVE  \A s \in TurnStates : phase'[s] = "NextTurn" => phase[s] = "NextTurn"
  BY <1>0, <1>1 DEF AppendToActive
<1>2. ASSUME NEW i \in Inputs, Steer(i) PROVE PhaseOK' /\ NoRequestWhenClosed'
  BY <1>1, <1>2, ClosingPhased, ClosedKept DEF Steer
<1>3. ASSUME NEW i \in Injections, Inject(i) PROVE PhaseOK' /\ NoRequestWhenClosed'
  <2>1. \A s \in TurnStates : phase'[s] = "NextTurn" => phase[s] = "NextTurn"
    BY <1>1, <1>3 DEF Inject, inbox
  <2>2. UNCHANGED <<active, pc>>
    BY <1>3 DEF Inject
  <2> QED
    BY <2>1, <2>2, ClosingPhased, ClosedKept
<1>4. ASSUME NEW l, Goto(Loop, l), UNCHANGED phase, active' = active \/ active'.task = None
      PROVE  PhaseOK' /\ NoRequestWhenClosed'
  <2>1. \A u \in Turns : pc'[u] = pc[u] /\ u # None
    BY <1>0, <1>4, CoreTypes, FiberKinds DEF Goto
  <2> QED
    BY <1>4, <2>1, ClosingPhased, ClosedKept
<1>5. ASSUME NEW i \in Inputs, NEW t \in Turns, StartTurn(i, t)
      PROVE  PhaseOK' /\ NoRequestWhenClosed'
  BY <1>4, <1>5 DEF StartTurn, Spawn, inbox
<1>6. ASSUME NEW t \in Turns, RunUserShell(t) \/ Compact(t)
      PROVE  PhaseOK' /\ NoRequestWhenClosed'
  BY <1>4, <1>6 DEF RunUserShell, Compact, Spawn, inbox
<1>7. ASSUME Interrupt PROVE PhaseOK' /\ NoRequestWhenClosed'
  BY <1>4, <1>7 DEF Interrupt, inbox
<1>8. ASSUME NEW i, NEW t \in Turns, StartIfIdle(i, t)
      PROVE  PhaseOK' /\ NoRequestWhenClosed'
  <2>1. active'.task = None /\ Goto(Loop, "recheck") /\ UNCHANGED phase
    BY <1>8 DEF StartIfIdle, Reserve, inbox
  <2> QED
    BY <1>4, <2>1
<1>9. ASSUME NEW m \in Mails, Mail(m) PROVE PhaseOK' /\ NoRequestWhenClosed'
  <2>1. UNCHANGED <<active, phase, pc>>
    BY <1>9 DEF Mail, Quiet
  <2> QED
    BY <2>1, ClosingPhased, ClosedKept
<1>10. ASSUME NEW t \in Turns, BreakTurn(t) PROVE FALSE
  BY <1>0, <1>10 DEF BreakTurn, Spend, Orderly, LoopOK
<1> QED
  BY <1>2, <1>3, <1>5, <1>6, <1>7, <1>8, <1>9, <1>10 DEF Environment

LEMMA LoopCloses ==
    ASSUME Closing, LoopStep
    PROVE  PhaseOK' /\ NoRequestWhenClosed'
<1>0. Orderly
  BY DEF Closing
<1>1. UNCHANGED phase
  BY DEF LoopStep, TakeActiveTurn, StartIfIdleGivesUp, StartIfIdleCommits, inbox
<1>2. active' = active \/ active'.task = None
  <2>1. active' = active \/ active' = Idle
    BY DEF LoopStep, TakeActiveTurn, StartIfIdleGivesUp, StartIfIdleCommits,
           TakeAndCancel, ClearReservation
  <2> QED
    BY <2>1 DEF Idle
<1>3. \E l : Goto(Loop, l)
  BY DEF LoopStep, TakeActiveTurn, StartIfIdleGivesUp, StartIfIdleCommits
<1>4. \A u \in Turns : pc'[u] = pc[u] /\ u # None
  BY <1>0, <1>3, CoreTypes, FiberKinds DEF Goto
<1> QED
  BY <1>1, <1>2, <1>4, ClosingPhased, ClosedKept

LEMMA StartingCloses ==
    ASSUME Quiet, Closing, NEW f \in Fibers, StartingStep(f)
    PROVE  PhaseOK' /\ NoRequestWhenClosed'
<1>0. Orderly
  BY DEF Closing
<1>1. CASE KillTask(f)
  <2>1. f = Loop /\ active = Idle
    BY <1>0, <1>1, OnlyLoopStarts DEF KillTask, Orderly, LoopOK
  <2>2. UNCHANGED <<active, phase>> /\ \A u \in Turns : active'.task # u
    BY <1>1, <2>1, FiberKinds DEF KillTask, Idle
  <2>3. \A u \in Turns : pc'[u] = "none" => pc[u] = "none"
    BY <1>0, <1>1, <2>1, CoreTypes, FiberKinds DEF KillTask
  <2> QED
    BY <2>2, <2>3, ClosingPhased, ClosedKept
<1>2. CASE CheckPendingWork(f)
  <2>1. pc[f] = "check" /\ UNCHANGED <<active, phase>> /\ \E l \in {"reserve", "ended", "idle"} : Goto(f, l)
    BY <1>2 DEF CheckPendingWork, Return, inbox
  <2>2. ASSUME NEW u \in Turns PROVE pc'[u] = "none" => pc[u] = "none"
    BY <1>0, <2>1, CoreTypes, FiberKinds DEF Goto
  <2>3. ASSUME NEW u \in Turns, active.task = u PROVE pc'[u] = pc[u]
    <3>1. u # f
      BY <1>0, <2>1, <2>3, OrderlyMatched, ActiveState DEF Working
    <3> QED
      BY <1>0, <2>1, <3>1, CoreTypes, FiberKinds DEF Goto
  <2> QED
    BY <2>1, <2>2, <2>3, ClosingPhased, ClosedKept
<1>3. CASE PrepareTask(f)
  <2>1. f = Loop /\ active.task = None
    BY <1>0, <1>3, OnlyLoopStarts DEF PrepareTask, Orderly, LoopOK, Launching
  <2>2. UNCHANGED phase /\ active'.task = None
    BY <1>3, <2>1 DEF PrepareTask, GetOrInsert
  <2>3. \A u \in Turns : pc'[u] = pc[u] /\ u # None
    BY <1>0, <1>3, <2>1, CoreTypes, FiberKinds DEF PrepareTask, Goto
  <2> QED
    BY <2>2, <2>3, ClosingPhased, ClosedKept
<1>4. CASE InstallTask(f)
  <2>1. f = Loop /\ active.task = None /\ active # Idle /\ pc[starting[Loop]] = "none"
        /\ active.ts[1] = starting[Loop] /\ starting[Loop] \in Turns
    BY <1>0, <1>4, OnlyLoopStarts, CoreTypes DEF InstallTask, Orderly, LoopOK, Launching
  <2>2. UNCHANGED phase /\ active' = [active EXCEPT !.task = starting[Loop]]
    BY <1>4, <2>1 DEF InstallTask, GetOrInsert, inbox
  <2>3. active'.ts = active.ts /\ active.ts \in TurnStates
    BY <1>0, <2>1, <2>2, ActiveParts DEF Orderly, Typed
  <2>4. phase'[active'.ts] # "NextTurn"
    BY <2>1, <2>2, <2>3 DEF Closing, PhaseOK
  <2>5. \A u \in Turns : pc'[u] = "none" => pc[u] = "none"
    BY <1>4, <2>1, FiberKinds DEF InstallTask, Return
  <2>6. PhaseOK'
    BY <2>2, <2>5, OwnerIsTurn DEF Closing, PhaseOK
  <2> QED
    BY <2>4, <2>6 DEF NoRequestWhenClosed
<1>5. ~(\/ NotIdle(f) \/ CollectPendingWork(f) \/ StashPendingWork(f)
        \/ \E t \in Turns : ReserveForPendingWork(f, t))
  BY <1>0, OnlyLoopStarts
  DEF NotIdle, CollectPendingWork, StashPendingWork, ReserveForPendingWork
<1> QED
  BY <1>1, <1>2, <1>3, <1>4, <1>5 DEF StartingStep

LEMMA TaskCloses ==
    ASSUME Phased, NEW t \in Turns, TaskStep(t)
    PROVE  PhaseOK' /\ NoRequestWhenClosed'
<1>0. /\ Matched /\ t \in Fibers /\ pc \in [Fibers -> Labels]
      /\ phase \in [TurnStates -> {"CurrentTurn", "NextTurn"}]
  BY FiberKinds DEF Phased, Matched, Typed, TypeOK
<1>1. PICK l : Goto(t, l) /\ l # "none"
  BY <1>0, StreamMoves
  DEF Matched, Typed, Streaming, TaskStep, Advance, SendRequest, RunOtherTask, FailBeforeRecording, RecordStartInput,
         DrainPendingInput, RecordPendingInput, SampleFollowUp, SampleFails,
         SampleAnswer, Decide, StopHookBlocks, RunAgain, FlushTask, FinishTask,
         ReportCompletion, ClearActiveTurn
<1>2. /\ pc'[t] = l /\ \A u \in Turns \ {t} : pc'[u] = pc[u]
      /\ \A u \in Turns : pc'[u] = "none" => pc[u] = "none"
  BY <1>0, <1>1, FiberKinds DEF Goto
<1>3. ASSUME StreamStep(t)
      PROVE  PhaseOK' /\ NoRequestWhenClosed'
  <2>1. pc[t] \in Streaming /\ pc'[t] \in Streaming /\ UNCHANGED active
    <3>1. PICK k \in Streaming : Goto(t, k)
      BY <1>0, <1>3, StreamMoves DEF Matched, Typed
    <3> QED
      BY <1>0, <1>3, <3>1, StreamMoves DEF Goto, Matched, Typed
  <2>2. CASE phase' = phase
    <3>1. PhaseOK'
      BY <1>2, <2>2, OwnerIsTurn DEF Phased, PhaseOK
    <3> QED
      BY <1>2, <2>1, <2>2, <3>1 DEF Phased, NoRequestWhenClosed
  <2>3. CASE phase' # phase
    <3>1. PICK d \in {"CurrentTurn", "NextTurn"} :
            active.task = t /\ phase' = [phase EXCEPT ![active.ts] = d]
      BY <1>0, <1>3, <2>3, StreamMoves DEF Matched, Typed
    <3>2. active.ts[1] = t
      BY <1>0, <3>1, ActiveState
    <3>3. \A s \in TurnStates : phase'[s] = "NextTurn" => phase[s] = "NextTurn" \/ s[1] = t
      BY <1>0, <3>1, <3>2
    <3>4. PhaseOK'
      BY <1>2, <2>1, <3>3, OwnerIsTurn DEF Phased, PhaseOK, Streaming
    <3>5. \A u \in Turns : active'.task = u => u = t
      BY <2>1, <3>1
    <3> QED
      BY <2>1, <3>4, <3>5 DEF NoRequestWhenClosed
  <2> QED
    BY <2>2, <2>3
<1>4. ASSUME Advance(t)
      PROVE  PhaseOK' /\ NoRequestWhenClosed'
  <2>1. \/ phase' = phase
        \/ /\ SampleFollowUp(t) \/ StopHookBlocks(t)
           /\ active.task = t /\ phase' = [phase EXCEPT ![active.ts] = "CurrentTurn"]
    BY <1>4 DEF Advance, SendRequest, SampleAnswer, RunOtherTask, FailBeforeRecording, RecordStartInput,
         DrainPendingInput, RecordPendingInput, SampleFollowUp, SampleFails,
         Decide, StopHookBlocks, RunAgain, FlushTask, FinishTask,
         ReportCompletion, ClearActiveTurn, AcceptDelivery, inbox
  <2>2. \A s \in TurnStates : phase'[s] = "NextTurn" => phase[s] = "NextTurn"
    BY <1>0, <2>1
  <2>3. \A u \in Turns : active'.task = u => active' = active
    <3>1. CASE FinishTask(t)
      <4>1. active'.task = None \/ active' = active
        BY <1>0, <3>1, FinishFindsItself, ActiveParts DEF FinishTask, Matched, Typed
      <4> QED
        BY <4>1, FiberKinds
    <3>2. CASE ClearActiveTurn(t)
      <4>1. active' = Idle \/ active' = active
        BY <3>2 DEF ClearActiveTurn, ClearReservation
      <4> QED
        BY <4>1, FiberKinds DEF Idle
    <3>3. CASE ~(FinishTask(t) \/ ClearActiveTurn(t))
      BY <1>4, <3>3 DEF Advance, SendRequest, RunOtherTask, FailBeforeRecording, RecordStartInput,
         DrainPendingInput, RecordPendingInput, SampleFollowUp, SampleFails,
         SampleAnswer, Decide, StopHookBlocks, RunAgain, FlushTask, ReportCompletion
    <3> QED
      BY <3>1, <3>2, <3>3
  <2>4. CASE active'.task # t
    BY <1>2, <2>2, <2>3, <2>4, ClosedKept
  <2>5. CASE active'.task = t
    <3>1. active' = active /\ active.task = t
      BY <2>3, <2>5
    <3>2. active.ts \in TurnStates /\ active # Idle /\ ~cancelled[t]
      BY <1>0, <3>1, ActiveState
    <3>3. PhaseOK'
      BY <1>2, <2>2, OwnerIsTurn DEF Phased, PhaseOK
    <3>4. ASSUME phase'[active.ts] = "NextTurn"
          PROVE  l \in Streaming \cup {"decide", "again", "flush", "finish"}
      <4>1. phase[active.ts] = "NextTurn" /\ phase' = phase
        BY <1>0, <2>1, <2>2, <3>2, <3>4
      <4>2. pc[t] \in Streaming \cup {"decide", "again", "flush", "finish"} /\ ~HasPendingInput
        BY <3>1, <3>2, <4>1 DEF Phased, NoRequestWhenClosed, HasPendingInput, Accepting
      <4>3. ~StopHookBlocks(t)
        <5>1. ASSUME StopHookBlocks(t) PROVE FALSE
          <6>1. phase' = [phase EXCEPT ![active.ts] = "CurrentTurn"]
            BY <3>1, <5>1 DEF StopHookBlocks, AcceptDelivery
          <6> QED
            BY <1>0, <3>2, <3>4, <6>1
        <5> QED
          BY <5>1
      <4>7. ~SampleFollowUp(t)
        <5>1. ASSUME SampleFollowUp(t) PROVE FALSE
          <6>1. phase' = [phase EXCEPT ![active.ts] = "CurrentTurn"]
            BY <3>1, <5>1 DEF SampleFollowUp, AcceptDelivery
          <6> QED
            BY <1>0, <3>2, <3>4, <6>1
        <5> QED
          BY <5>1
      <4>4. ~FinishTask(t)
        <5>1. ASSUME FinishTask(t) PROVE FALSE
          <6>1. active' = [active EXCEPT !.task = None]
            BY <3>1, <5>1, FiberKinds DEF FinishTask
          <6> QED
            BY <1>0, <3>1, <3>2, <6>1, ActiveParts, FiberKinds DEF Matched, Typed
        <5> QED
          BY <5>1
      <4>5. \/ Decide(t) \/ RunAgain(t) \/ FlushTask(t)
            \/ SampleAnswer(t) \/ SampleFails(t)
        BY <1>4, <4>2, <4>3, <4>4, <4>7
        DEF Advance, Streaming, SendRequest, RunOtherTask, FailBeforeRecording, RecordStartInput,
         DrainPendingInput, RecordPendingInput, ReportCompletion, ClearActiveTurn
      <4>6. pc'[t] \in {"decide", "again", "flush", "finish"}
        BY <1>0, <3>2, <4>2, <4>5
        DEF Decide, RunAgain, FlushTask, SampleAnswer, SampleFails, Goto
      <4> QED
        BY <1>2, <4>6
    <3>5. ASSUME NEW u \in Turns, active'.task = u, phase'[active'.ts] = "NextTurn"
          PROVE  pc'[u] \in Streaming \cup {"decide", "again", "flush", "finish"}
      BY <1>2, <2>5, <3>1, <3>4, <3>5
    <3> QED
      BY <3>3, <3>5 DEF NoRequestWhenClosed
  <2> QED
    BY <2>4, <2>5
<1> QED
  BY <1>3, <1>4 DEF TaskStep

LEMMA InitCloses ==
    ASSUME Quiet, Init
    PROVE  Closing
<1>1. \A t \in Turns : active.task # t
  BY FiberKinds DEF Init, Idle
<1>2. \A s \in TurnStates : phase[s] # "NextTurn"
  BY DEF Init
<1> QED
  BY <1>1, <1>2, InitOrderly DEF Closing, PhaseOK, NoRequestWhenClosed

LEMMA StepCloses ==
    ASSUME Quiet, Closing, [Next]_vars
    PROVE  Closing'
<1>1. Orderly'
  BY StepOrderly DEF Closing
<1>2. CASE UNCHANGED vars
  <2>1. UNCHANGED <<active, phase, pc>>
    BY <1>2 DEF vars, inbox
  <2> QED
    BY <1>1, <2>1, ClosingPhased, ClosedKept DEF Closing
<1>3. CASE Next
  BY <1>1, <1>3, EnvironmentCloses, LoopCloses, StartingCloses, ClosingPhased, TaskCloses DEF Next, Closing
<1> QED
  BY <1>2, <1>3

\* In a quiet session a turn that has shown its final answer and left late mail
\* to the next turn makes no new request and looks for no more input, though the
\* request that showed the answer may be repeated when its stream breaks, for any
\* number of turns, follow-ups and retries (MailboxDeliveryPhase, run_turn).
THEOREM NoRequestAfterAnswer ==
    ASSUME Quiet
    PROVE  Spec => []NoRequestWhenClosed
<1>1. Init => Closing
  BY InitCloses
<1>2. Closing /\ [Next]_vars => Closing'
  BY StepCloses
<1>3. Closing => NoRequestWhenClosed
  BY DEF Closing
<1> QED
  BY <1>1, <1>2, <1>3, PTL DEF Spec

-----------------------------------------------------------------------------
(* Steered input is recorded.                                              *)

\* Where an input that was steered into t is.
Safe(i, t) ==
    \/ i \in Elements(recorded) \/ cancelled[t]
    \/ active.task = t /\ i \in Elements(pending[active.ts])
    \/ pc[t] = "record" /\ i \in Elements(held[t])
    \/ pc[t] = "report" /\ i \in Elements(pending[ts[t]])

Steering ==
    Orderly /\ \A i \in Inputs, t \in Turns : steered[i] = t => Safe(i, t)

LEMMA ElementsOf ==
    /\ \A s, r \in Seq(Items) : Elements(s \o r) = Elements(s) \cup Elements(r)
    /\ \A s \in Seq(Items), i \in Items : Elements(Append(s, i)) = Elements(s) \cup {i}
<1>1. ASSUME NEW s \in Seq(Items), NEW r \in Seq(Items)
      PROVE  Elements(s \o r) = Elements(s) \cup Elements(r)
  <2>1. PICK q : q = s \o r
    OBVIOUS
  <2>2. ASSUME NEW x \in Elements(q) PROVE x \in Elements(s) \cup Elements(r)
    <3>1. PICK m \in DOMAIN q : x = q[m]
      BY <2>2 DEF Elements
    <3>2. \/ m \in DOMAIN s /\ q[m] = s[m]
          \/ m - Len(s) \in DOMAIN r /\ q[m] = r[m - Len(s)]
      BY <2>1, <3>1, Concatenated
    <3> QED
      BY <3>1, <3>2 DEF Elements
  <2>3. ASSUME NEW x \in Elements(s) PROVE x \in Elements(q)
    <3>1. PICK m \in DOMAIN s : x = s[m]
      BY <2>3 DEF Elements
    <3>2. m \in DOMAIN q /\ q[m] = s[m]
      BY <2>1, <3>1
    <3> QED
      BY <3>1, <3>2 DEF Elements
  <2>4. ASSUME NEW x \in Elements(r) PROVE x \in Elements(q)
    <3>1. PICK m \in DOMAIN r : x = r[m]
      BY <2>4 DEF Elements
    <3>2. PICK k : k = m + Len(s)
      OBVIOUS
    <3>3. k \in DOMAIN q /\ q[k] = r[m]
      BY <2>1, <3>1, <3>2
    <3> QED
      BY <3>1, <3>3 DEF Elements
  <2> QED
    BY <2>1, <2>2, <2>3, <2>4
<1>2. ASSUME NEW s \in Seq(Items), NEW i \in Items
      PROVE  Elements(Append(s, i)) = Elements(s) \cup {i}
  <2>1. PICK q : q = Append(s, i)
    OBVIOUS
  <2>2. ASSUME NEW x \in Elements(q) PROVE x \in Elements(s) \cup {i}
    <3>1. PICK m \in DOMAIN q : x = q[m]
      BY <2>2 DEF Elements
    <3>2. \/ m \in DOMAIN s /\ q[m] = s[m]
          \/ q[m] = i
      BY <2>1, <3>1, Appended
    <3> QED
      BY <3>1, <3>2 DEF Elements
  <2>3. ASSUME NEW x \in Elements(s) PROVE x \in Elements(q)
    <3>1. PICK m \in DOMAIN s : x = s[m]
      BY <2>3 DEF Elements
    <3>2. m \in DOMAIN q /\ q[m] = s[m]
      BY <2>1, <3>1
    <3> QED
      BY <3>1, <3>2 DEF Elements
  <2>4. i \in Elements(q)
    <3>1. PICK k : k = Len(s) + 1
      OBVIOUS
    <3>2. k \in DOMAIN q /\ q[k] = i
      BY <2>1, <3>1
    <3> QED
      BY <3>2 DEF Elements
  <2> QED
    BY <2>1, <2>2, <2>3, <2>4
<1> QED
  BY <1>1, <1>2

\* The pending input of every turn keeps what it has.
PendingGrows == \A s \in TurnStates : Elements(pending[s]) \subseteq Elements(pending'[s])

LEMMA AppendGrows ==
    ASSUME Typed, NEW s, NEW r \in Seq(Items),
           pending' = [pending EXCEPT ![s] = pending[s] \o r]
    PROVE  PendingGrows
<1>1. pending \in [TurnStates -> Seq(Items)]
  BY DEF Typed, TypeOK
<1>2. ASSUME NEW x \in TurnStates
      PROVE  Elements(pending[x]) \subseteq Elements(pending'[x])
  <2>1. CASE x = s
    <3>1. pending'[x] = pending[x] \o r /\ pending[x] \in Seq(Items)
      BY <1>1, <2>1
    <3>2. PICK p : p = pending[x]
      OBVIOUS
    <3>3. Elements(p \o r) = Elements(p) \cup Elements(r)
      BY <3>1, <3>2, ElementsOf
    <3> QED
      BY <3>1, <3>2, <3>3
  <2>2. CASE x # s
    BY <1>1, <2>2
  <2> QED
    BY <2>1, <2>2
<1> QED
  BY <1>2 DEF PendingGrows

LEMMA PutGrows ==
    ASSUME Typed, NEW i \in Items, active # Idle, AppendToActive(i)
    PROVE  PendingGrows /\ i \in Elements(pending'[active.ts])
<1>1. PICK s \in TurnStates : s = active.ts
  BY ActiveParts DEF Typed
<1>2. /\ pending \in [TurnStates -> Seq(Items)]
      /\ pending' = [pending EXCEPT ![s] = Append(pending[s], i)]
  BY <1>1 DEF Typed, TypeOK, AppendToActive
<1>3. PICK p \in Seq(Items) : p = pending[s]
  BY <1>2
<1>4. pending'[s] = Append(p, i) /\ Elements(Append(p, i)) = Elements(p) \cup {i}
  BY <1>2, <1>3, ElementsOf
<1>5. \A x \in TurnStates \ {s} : pending'[x] = pending[x]
  BY <1>2
<1> QED
  BY <1>1, <1>3, <1>4, <1>5 DEF PendingGrows

LEMMA SafeKept ==
    ASSUME NEW i, NEW t \in Turns, Safe(i, t),
           Elements(recorded) \subseteq Elements(recorded'),
           cancelled[t] => cancelled'[t],
           active.task = t =>
             \/ cancelled'[t]
             \/ /\ active' = active
                /\ Elements(pending[active.ts]) \subseteq Elements(pending'[active.ts]),
           pc[t] = "record" =>
             cancelled'[t] \/ (pc'[t] = "record" /\ held'[t] = held[t]),
           pc[t] = "report" =>
             /\ pc'[t] = "report" /\ ts'[t] = ts[t]
             /\ Elements(pending[ts[t]]) \subseteq Elements(pending'[ts[t]])
    PROVE  Safe(i, t)'
  BY DEF Safe

\* Steps that add to the pending input at most and leave the turns' tasks alone.
LEMMA SafeWhenGrowing ==
    ASSUME Matched, NEW i, NEW t \in Turns, Safe(i, t), PendingGrows,
           Elements(recorded) \subseteq Elements(recorded'), UNCHANGED cancelled,
           active.task = t => active' = active,
           pc[t] \in {"record", "report"} =>
             pc'[t] = pc[t] /\ held'[t] = held[t] /\ ts'[t] = ts[t]
    PROVE  Safe(i, t)'
<1>1. active.task = t => active.ts \in TurnStates
  BY ActiveState
<1>2. pc[t] = "report" => ts[t] \in TurnStates
  BY FiberKinds DEF Matched, Typed, FrameOK
<1> QED
  BY <1>1, <1>2, SafeKept DEF PendingGrows

LEMMA EnvironmentSafe ==
    ASSUME Quiet, Steering, Environment, NEW i \in Inputs, NEW t \in Turns,
           steered'[i] = t
    PROVE  Safe(i, t)'
<1>0. /\ Orderly /\ Typed /\ steered \in [Inputs -> Turns \cup {None}]
      /\ held \in [Fibers -> Seq(Items)] /\ recorded \in Seq(Items)
      /\ t \in Fibers /\ t # Loop /\ t # None
  BY FiberKinds DEF Steering, Orderly, Typed, TypeOK
<1>1. ASSUME NEW j \in Inputs, Steer(j) PROVE Safe(i, t)'
  <2>1. /\ steered' = [steered EXCEPT ![j] = active.task] /\ AppendToActive(j)
        /\ UNCHANGED <<active, recorded, cancelled, pc, ts, held>> /\ active # Idle
    BY <1>1 DEF Steer, task, frame, Idle
  <2>2. PendingGrows /\ j \in Elements(pending'[active.ts])
    BY <1>0, <2>1, PutGrows DEF Items
  <2>3. CASE i = j
    <3>1. active.task = t
      BY <1>0, <2>1, <2>3
    <3> QED
      BY <2>1, <2>2, <2>3, <3>1 DEF Safe
  <2>4. CASE i # j
    <3>1. steered[i] = t
      BY <1>0, <2>1, <2>4
    <3> QED
      BY <1>0, <2>1, <2>2, <3>1, OrderlyMatched, SafeWhenGrowing DEF Steering
  <2> QED
    BY <2>3, <2>4
<1>2. ASSUME UNCHANGED steered PROVE Safe(i, t)
  BY <1>2 DEF Steering
<1>3. ASSUME NEW j \in Injections, Inject(j) PROVE Safe(i, t)'
  <2>1. UNCHANGED <<active, cancelled, pc, ts, held, steered>>
    BY <1>3 DEF Inject, task, frame
  <2>2. j \in Items
    BY DEF Items
  <2>3. CASE active = Idle
    <3>1. recorded' = Append(recorded, j) /\ UNCHANGED pending
      BY <1>3, <2>3 DEF Inject, inbox
    <3>2. Elements(recorded) \subseteq Elements(recorded')
      BY <1>0, <2>2, <3>1, ElementsOf
    <3> QED
      BY <1>0, <1>2, <2>1, <3>1, <3>2, OrderlyMatched, SafeWhenGrowing DEF PendingGrows
  <2>4. CASE active # Idle
    <3>1. AppendToActive(j) /\ UNCHANGED recorded
      BY <1>3, <2>4 DEF Inject
    <3> QED
      BY <1>0, <1>2, <2>1, <2>2, <2>4, <3>1, PutGrows, OrderlyMatched, SafeWhenGrowing
  <2> QED
    BY <2>3, <2>4
<1>4. ASSUME NEW l, Goto(Loop, l),
             UNCHANGED <<recorded, cancelled, pending, steered>>,
             active.task = None \/ active' = active,
             held'[t] = held[t], ts'[t] = ts[t]
      PROVE  Safe(i, t)'
  <2>1. pc'[t] = pc[t]
    BY <1>0, <1>4, CoreTypes DEF Goto
  <2> QED
    BY <1>0, <1>2, <1>4, <2>1, OrderlyMatched, SafeWhenGrowing DEF PendingGrows
<1>5. ASSUME NEW j \in Inputs, NEW u \in Turns, StartTurn(j, u) PROVE Safe(i, t)'
  <2>1. Goto(Loop, "abort") /\ UNCHANGED <<active, recorded, cancelled, pending, steered, held, ts>>
    BY <1>5 DEF StartTurn, Spawn, CreateTurn, inbox
  <2> QED
    BY <1>4, <2>1
<1>6. ASSUME NEW u \in Turns, RunUserShell(u) \/ Compact(u) PROVE Safe(i, t)'
  <2>1. Goto(Loop, "abort") /\ UNCHANGED <<active, recorded, cancelled, pending, steered, held, ts>>
    BY <1>6 DEF RunUserShell, Compact, Spawn, CreateTurn, inbox
  <2> QED
    BY <1>4, <2>1
<1>7. ASSUME Interrupt PROVE Safe(i, t)'
  <2>1. Goto(Loop, "abort") /\ UNCHANGED <<active, recorded, cancelled, pending, steered, held, ts>>
    BY <1>7 DEF Interrupt, task, inbox
  <2> QED
    BY <1>4, <2>1
<1>8. ASSUME NEW j, NEW u \in Turns, StartIfIdle(j, u) PROVE Safe(i, t)'
  <2>1. Goto(Loop, "recheck") /\ UNCHANGED <<recorded, cancelled, pending, steered>>
    BY <1>8 DEF StartIfIdle, CreateTurn, inbox
  <2>2. active.task = None
    BY <1>8 DEF StartIfIdle, Reserve, Idle
  <2>3. held'[t] = held[t] /\ ts'[t] = ts[t]
    BY <1>0, <1>8, CoreTypes DEF StartIfIdle, Reserve
  <2> QED
    BY <1>4, <2>1, <2>2, <2>3
<1>9. ASSUME NEW m \in Mails, Mail(m) PROVE Safe(i, t)'
  <2>1. UNCHANGED <<active, recorded, cancelled, pending, steered, pc, held, ts>>
    BY <1>9 DEF Mail, Quiet, task, frame
  <2> QED
    BY <1>0, <1>2, <2>1, OrderlyMatched, SafeWhenGrowing DEF PendingGrows
<1>10. ASSUME NEW u \in Turns, BreakTurn(u) PROVE FALSE
  BY <1>0, <1>10 DEF BreakTurn, Spend, Orderly, LoopOK
<1> QED
  BY <1>1, <1>3, <1>5, <1>6, <1>7, <1>8, <1>9, <1>10 DEF Environment

LEMMA LoopSafe ==
    ASSUME Steering, LoopStep, NEW i \in Inputs, NEW t \in Turns, steered'[i] = t
    PROVE  Safe(i, t)'
<1>0. /\ Orderly /\ Typed /\ held \in [Fibers -> Seq(Items)]
      /\ t \in Fibers /\ t # Loop /\ t # None /\ Loop \in Fibers
  BY FiberKinds DEF Steering, Orderly, Typed, TypeOK
<1>1. UNCHANGED <<recorded, steered>> /\ \E l : Goto(Loop, l)
  BY DEF LoopStep, TakeActiveTurn, StartIfIdleGivesUp, StartIfIdleCommits, env
<1>2. pc'[t] = pc[t] /\ Safe(i, t)
  BY <1>0, <1>1, CoreTypes DEF Goto, Steering
<1>3. CASE TakeActiveTurn
  <2>1. UNCHANGED <<pending, held>>
    BY <1>3 DEF TakeActiveTurn, inbox
  <2>2. CASE active.task = None
    <3>1. UNCHANGED <<cancelled, ts>>
      BY <1>3, <2>2 DEF TakeActiveTurn, task
    <3> QED
      BY <1>0, <1>1, <1>2, <2>1, <2>2, <3>1, OrderlyMatched, SafeWhenGrowing DEF PendingGrows
  <2>3. CASE active.task # None
    <3>1. TakeAndCancel(Loop)
      BY <1>3, <2>3 DEF TakeActiveTurn
    <3>2. ts'[t] = ts[t] /\ (cancelled[t] => cancelled'[t]) /\ (active.task = t => cancelled'[t])
      BY <1>0, <3>1, CoreTypes DEF TakeAndCancel
    <3> QED
      BY <1>0, <1>1, <1>2, <2>1, <3>2, SafeKept
  <2> QED
    BY <2>2, <2>3
<1>4. CASE StartIfIdleGivesUp
  <2>1. active.task = None
    BY <1>0, <1>4 DEF StartIfIdleGivesUp, Orderly, LoopOK, Launching
  <2>2. UNCHANGED <<pending, cancelled, ts>> /\ held'[t] = held[t]
    BY <1>0, <1>4 DEF StartIfIdleGivesUp, inbox, task
  <2> QED
    BY <1>0, <1>1, <1>2, <2>1, <2>2, OrderlyMatched, SafeWhenGrowing DEF PendingGrows
<1>5. CASE StartIfIdleCommits
  <2>1. UNCHANGED <<active, cancelled, ts>> /\ held'[t] = held[t]
    BY <1>0, <1>5 DEF StartIfIdleCommits, task
  <2>2. PICK s, r : /\ s = ts[Loop] /\ r = held[Loop]
                    /\ pending' = [pending EXCEPT ![s] = pending[s] \o r]
    BY <1>5 DEF StartIfIdleCommits
  <2>3. PendingGrows
    BY <1>0, <2>2, AppendGrows
  <2> QED
    BY <1>0, <1>1, <1>2, <2>1, <2>3, OrderlyMatched, SafeWhenGrowing
<1> QED
  BY <1>3, <1>4, <1>5 DEF LoopStep

LEMMA StartingSafe ==
    ASSUME Steering, NEW f \in Fibers, StartingStep(f),
           NEW i \in Inputs, NEW t \in Turns, steered'[i] = t
    PROVE  Safe(i, t)'
<1>0. /\ Orderly /\ Typed /\ mailbox \in Seq(Items)
      /\ pending \in [TurnStates -> Seq(Items)]
      /\ t \in Fibers /\ t # Loop /\ t # None /\ Loop \in Fibers
  BY FiberKinds, SeqTypes DEF Steering, Orderly, Typed, TypeOK
<1>1. ~(\/ NotIdle(f) \/ CollectPendingWork(f) \/ StashPendingWork(f)
        \/ \E u \in Turns : ReserveForPendingWork(f, u))
  BY <1>0, OnlyLoopStarts
  DEF NotIdle, CollectPendingWork, StashPendingWork, ReserveForPendingWork
<1>2. UNCHANGED <<recorded, steered, cancelled, held, ts>>
  BY <1>1 DEF StartingStep, KillTask, CheckPendingWork, PrepareTask, InstallTask,
              task, frame, env
<1>3. Safe(i, t)
  BY <1>2 DEF Steering
<1>4. CASE KillTask(f)
  <2>1. /\ f = Loop /\ active = Idle /\ cancelled[victim[Loop]]
        /\ victim[Loop] \in Turns /\ ts[Loop][1] = victim[Loop]
    BY <1>0, <1>4, OnlyLoopStarts DEF KillTask, Orderly, LoopOK
  <2>2. active.task # t
    BY <1>0, <2>1 DEF Idle
  <2>3. t # victim[Loop] => pc'[t] = pc[t]
    BY <1>0, <1>4, <2>1, CoreTypes DEF KillTask
  <2>4. pc[t] = "report" => t # victim[Loop] /\ ts[t][1] = t /\ ts[t] \in TurnStates
    BY <1>0, <2>1 DEF Orderly, Typed, TurnOK, FrameOK
  <2>5. pc[t] = "report" => pending'[ts[t]] = pending[ts[t]]
    BY <1>0, <1>4, <2>1, <2>4 DEF KillTask
  <2> QED
    BY <1>0, <1>2, <1>3, <2>1, <2>2, <2>3, <2>4, <2>5, SafeKept
<1>5. CASE CheckPendingWork(f)
  <2>1. UNCHANGED <<active, pending>> /\ pc[f] = "check" /\ \E l : Goto(f, l)
    BY <1>5 DEF CheckPendingWork, inbox
  <2>2. pc[t] \in {"record", "report"} => pc'[t] = pc[t]
    BY <1>0, <2>1, CoreTypes DEF Goto
  <2> QED
    BY <1>0, <1>2, <1>3, <2>1, <2>2, OrderlyMatched, SafeWhenGrowing DEF PendingGrows
<1>6. CASE PrepareTask(f)
  <2>1. f = Loop /\ active.task = None
    BY <1>0, <1>6, OnlyLoopStarts DEF PrepareTask, Orderly, LoopOK, Launching
  <2>2. pc'[t] = pc[t]
    BY <1>0, <1>6, <2>1, CoreTypes DEF PrepareTask, Goto
  <2>3. PICK s : pending' = [pending EXCEPT ![s] = pending[s] \o mailbox]
    BY <1>6 DEF PrepareTask
  <2>4. PendingGrows
    BY <1>0, <2>3, AppendGrows
  <2> QED
    BY <1>0, <1>2, <1>3, <2>1, <2>2, <2>4, OrderlyMatched, SafeWhenGrowing
<1>7. CASE InstallTask(f)
  <2>1. f = Loop /\ active.task = None /\ pc[starting[Loop]] = "none"
    BY <1>0, <1>7, OnlyLoopStarts DEF InstallTask, Orderly, LoopOK, Launching
  <2>2. UNCHANGED pending /\ (pc[t] \in {"record", "report"} => pc'[t] = pc[t])
    BY <1>0, <1>7, <2>1 DEF InstallTask, inbox
  <2> QED
    BY <1>0, <1>2, <1>3, <2>1, <2>2, OrderlyMatched, SafeWhenGrowing DEF PendingGrows
<1> QED
  BY <1>1, <1>4, <1>5, <1>6, <1>7 DEF StartingStep

\* A task drains the pending input of its own turn or of none.
LEMMA DrainsOwn ==
    ASSUME Matched, NEW u \in Turns, DrainPendingInput(u)
    PROVE  \/ UNCHANGED pending
           \/ /\ active.task = u /\ active # Idle
              /\ pending' = [pending EXCEPT ![active.ts] = <<>>]
              /\ held' = [held EXCEPT ![u] = pending[active.ts] \o mailbox]
<1>1. pc[u] \in Working
  BY DEF DrainPendingInput, Working
<1>2. active = Idle \/ active.task = u
  BY <1>1 DEF Matched
<1> QED
  BY <1>2 DEF DrainPendingInput, GetPendingInput

\* A step of another turn's task.
LEMMA OtherTaskSafe ==
    ASSUME Matched, NEW u \in Turns, TaskStep(u),
           NEW i \in Inputs, NEW t \in Turns \ {u}, Safe(i, t)
    PROVE  Safe(i, t)'
<1>0. /\ Typed /\ pending \in [TurnStates -> Seq(Items)]
      /\ recorded \in Seq(Items) /\ held \in [Fibers -> Seq(Items)]
      /\ input \in [Turns -> Seq(Items)] /\ pc \in [Fibers -> Labels]
      /\ ts \in [Fibers -> TurnStates \cup {None}]
      /\ t \in Fibers /\ u \in Fibers /\ t # None
  BY FiberKinds DEF Matched, Typed, TypeOK
<1>1. pc'[t] = pc[t] /\ ts'[t] = ts[t] /\ held'[t] = held[t] /\ UNCHANGED cancelled
  <2>1. (\E l : Goto(u, l)) /\ UNCHANGED cancelled
    BY StreamMoves
        DEF Matched, Typed, TaskStep, Advance, SendRequest, RunOtherTask,
            FailBeforeRecording, RecordStartInput,
           DrainPendingInput, RecordPendingInput, SampleFollowUp, SampleFails,
           SampleAnswer, Decide, StopHookBlocks, RunAgain, FlushTask, FinishTask,
           ReportCompletion, ClearActiveTurn, task
  <2>2. held' = held \/ \E q : held' = [held EXCEPT ![u] = q]
    BY StreamMoves
        DEF Matched, Typed, TaskStep, Advance, SendRequest, RunOtherTask,
            FailBeforeRecording, RecordStartInput,
           DrainPendingInput, RecordPendingInput, SampleFollowUp, SampleFails,
           SampleAnswer, Decide, StopHookBlocks, RunAgain, FlushTask, FinishTask,
           ReportCompletion, ClearActiveTurn, GetPendingInput, frame
  <2>3. ts' = ts \/ ts' = [ts EXCEPT ![u] = active.ts]
    BY StreamMoves
        DEF Matched, Typed, TaskStep, Advance, SendRequest, RunOtherTask,
            FailBeforeRecording, RecordStartInput,
           DrainPendingInput, RecordPendingInput, SampleFollowUp, SampleFails,
           SampleAnswer, Decide, StopHookBlocks, RunAgain, FlushTask, FinishTask,
           ReportCompletion, ClearActiveTurn, frame
  <2> QED
    BY <1>0, <2>1, <2>2, <2>3 DEF Goto
<1>2. active.task = t => active' = active
  <2>1. CASE FinishTask(u)
    BY <1>0, <2>1, FinishFindsItself DEF FinishTask
  <2>2. CASE ClearActiveTurn(u)
    BY <1>0, <2>2 DEF ClearActiveTurn, ClearReservation, ReservedBy
  <2>3. CASE ~(FinishTask(u) \/ ClearActiveTurn(u))
    BY <2>3, StreamMoves
        DEF Matched, Typed, TaskStep, Advance, SendRequest, RunOtherTask,
            FailBeforeRecording, RecordStartInput,
         DrainPendingInput, RecordPendingInput, SampleFollowUp, SampleFails,
         SampleAnswer, Decide, StopHookBlocks, RunAgain, FlushTask, ReportCompletion
  <2> QED
    BY <2>1, <2>2, <2>3
<1>3. Elements(recorded) \subseteq Elements(recorded')
  <2>1. recorded' = recorded \/ \E r \in Seq(Items) : recorded' = recorded \o r
    <3>1. CASE ReportCompletion(u)
      BY <1>0, <3>1 DEF ReportCompletion, Typed, FrameOK
    <3>2. CASE ~ReportCompletion(u)
      BY <1>0, <3>2, StreamMoves
        DEF Matched, Typed, TaskStep, Advance, SendRequest, RunOtherTask,
            FailBeforeRecording, RecordStartInput,
           DrainPendingInput, RecordPendingInput, SampleFollowUp, SampleFails,
           SampleAnswer, Decide, StopHookBlocks, RunAgain, FlushTask, FinishTask,
           ClearActiveTurn
    <3> QED
      BY <3>1, <3>2
  <2> QED
    BY <1>0, <2>1, ElementsOf
<1>4. PICK x : /\ pending' = pending \/ pending' = [pending EXCEPT ![x] = <<>>]
               /\ x \in TurnStates => x[1] = u
  <2>1. CASE DrainPendingInput(u)
    <3>1. CASE UNCHANGED pending
      <4>1. <<u, "reserve">>[1] = u
        OBVIOUS
      <4> QED
        BY <3>1, <4>1
    <3>2. CASE active.task = u /\ pending' = [pending EXCEPT ![active.ts] = <<>>]
      <4>1. active.ts[1] = u
        BY <3>2, ActiveState
      <4> QED
        BY <3>2, <4>1
    <3> QED
      BY <2>1, <3>1, <3>2, DrainsOwn
  <2>2. CASE ReportCompletion(u)
    BY <2>2 DEF ReportCompletion, Matched
  <2>3. CASE ~(DrainPendingInput(u) \/ ReportCompletion(u))
    <3>1. UNCHANGED pending
      BY <2>3, StreamMoves
        DEF Matched, Typed, TaskStep, Advance, SendRequest, RunOtherTask,
            FailBeforeRecording, RecordStartInput,
           RecordPendingInput, SampleFollowUp, SampleFails, SampleAnswer, Decide,
           StopHookBlocks, RunAgain, FlushTask, FinishTask, ClearActiveTurn, inbox
    <3>2. <<u, "reserve">>[1] = u
      OBVIOUS
    <3> QED
      BY <3>1, <3>2
  <2> QED
    BY <2>1, <2>2, <2>3
<1>5. \A s \in TurnStates : s[1] = t => pending'[s] = pending[s]
  BY <1>0, <1>4
<1>6. active.task = t => active.ts \in TurnStates /\ active.ts[1] = t
  BY ActiveState
<1>7. pc[t] = "report" => ts[t] \in TurnStates /\ ts[t][1] = t
  BY <1>0 DEF Typed, FrameOK, Matched
<1> QED
  BY <1>1, <1>2, <1>3, <1>5, <1>6, <1>7, SafeKept

\* A step of the turn's own task.
LEMMA OwnTaskSafe ==
    ASSUME Matched, NEW t \in Turns, TaskStep(t), NEW i \in Inputs, Safe(i, t)
    PROVE  Safe(i, t)'
<1>0. /\ Typed /\ pending \in [TurnStates -> Seq(Items)]
      /\ recorded \in Seq(Items) /\ held \in [Fibers -> Seq(Items)]
      /\ input \in [Turns -> Seq(Items)] /\ pc \in [Fibers -> Labels]
      /\ ts \in [Fibers -> TurnStates \cup {None}] /\ mailbox \in Seq(Items)
      /\ t \in Fibers /\ t # None
  BY FiberKinds, SeqTypes DEF Matched, Typed, TypeOK
<1>1. active.task = t => active.ts \in TurnStates /\ active # Idle /\ pc[t] \in Working
  BY ActiveState
<1>2. CASE RecordStartInput(t)
  <2>1. Elements(recorded \o input[t]) = Elements(recorded) \cup Elements(input[t])
    BY <1>0, ElementsOf
  <2> QED
    BY <1>2, <2>1, SafeKept DEF RecordStartInput, inbox
<1>3. CASE DrainPendingInput(t)
  <2>1. pc[t] = "drain" /\ UNCHANGED <<active, recorded, cancelled>> /\ pc'[t] = "record"
    BY <1>0, <1>3 DEF DrainPendingInput, Goto, task
  <2>2. CASE UNCHANGED pending
    BY <2>1, <2>2 DEF Safe
  <2>3. CASE /\ active.task = t /\ active # Idle
             /\ held' = [held EXCEPT ![t] = pending[active.ts] \o mailbox]
    <3>1. held'[t] = pending[active.ts] \o mailbox
      BY <1>0, <2>3
    <3>2. PICK p \in Seq(Items) : p = pending[active.ts]
      BY <1>0, <1>1, <2>3
    <3>3. Elements(p \o mailbox) = Elements(p) \cup Elements(mailbox)
      BY <1>0, ElementsOf
    <3> QED
      BY <2>1, <3>1, <3>2, <3>3 DEF Safe
  <2> QED
    BY <1>3, <2>2, <2>3, DrainsOwn
<1>4. CASE RecordPendingInput(t)
  <2>1. pc[t] = "record" /\ UNCHANGED <<active, pending, cancelled>>
    BY <1>4 DEF RecordPendingInput, inbox, task
  <2>2. Elements(recorded') = Elements(recorded) \cup Elements(held[t])
    BY <1>0, <1>4, ElementsOf DEF RecordPendingInput
  <2> QED
    BY <2>1, <2>2 DEF Safe
<1>5. CASE FinishTask(t)
  <2>1. pc[t] = "finish" /\ UNCHANGED <<recorded, pending, cancelled>>
    BY <1>5 DEF FinishTask, inbox, task
  <2>2. active.task = t => ts'[t] = active.ts /\ pc'[t] = "report"
    BY <1>0, <1>5 DEF FinishTask, Goto
  <2> QED
    BY <2>1, <2>2 DEF Safe
<1>6. CASE ReportCompletion(t)
  <2>1. pc[t] = "report" /\ UNCHANGED <<active, cancelled>> /\ active.task # t
    BY <1>1, <1>6 DEF ReportCompletion, Working, task
  <2>2. ts[t] \in TurnStates /\ recorded' = recorded \o pending[ts[t]]
    BY <1>0, <1>6 DEF ReportCompletion, Typed, FrameOK
  <2>3. PICK p \in Seq(Items) : p = pending[ts[t]]
    BY <1>0, <2>2
  <2>4. Elements(recorded \o p) = Elements(recorded) \cup Elements(p)
    BY <1>0, ElementsOf
  <2> QED
    BY <2>1, <2>2, <2>3, <2>4 DEF Safe
<1>7. CASE ClearActiveTurn(t)
  <2>1. pc[t] = "clear" /\ UNCHANGED <<recorded, cancelled>> /\ active.task # t
    BY <1>1, <1>7 DEF ClearActiveTurn, Working, task
  <2> QED
    BY <2>1 DEF Safe
<1>8. CASE \/ RunOtherTask(t) \/ FailBeforeRecording(t) \/ SampleFollowUp(t)
           \/ SampleFails(t) \/ SampleAnswer(t) \/ SendRequest(t) \/ StreamStep(t)
           \/ Decide(t) \/ StopHookBlocks(t) \/ RunAgain(t) \/ FlushTask(t)
  <2>1. /\ pc[t] \notin {"record", "report"}
        /\ UNCHANGED <<active, recorded, pending, cancelled>>
    BY <1>0, <1>8, StreamMoves
    DEF Typed, Streaming, RunOtherTask, FailBeforeRecording, SampleFollowUp, SampleFails,
        SampleAnswer, SendRequest, Decide, StopHookBlocks, RunAgain, FlushTask, inbox, task
  <2> QED
    BY <2>1 DEF Safe
<1> QED
  BY <1>2, <1>3, <1>4, <1>5, <1>6, <1>7, <1>8 DEF TaskStep, Advance

LEMMA InitSteering ==
    ASSUME Quiet, Init
    PROVE  Steering
  BY InitOrderly, FiberKinds DEF Init, Steering

LEMMA StepSteering ==
    ASSUME Quiet, Steering, [Next]_vars
    PROVE  Steering'
<1>1. Orderly'
  BY StepOrderly DEF Steering
<1>2. ASSUME NEW i \in Inputs, NEW t \in Turns, steered'[i] = t
      PROVE  Safe(i, t)'
  <2>1. CASE UNCHANGED vars
    <3>1. UNCHANGED <<active, pending, recorded, cancelled, pc, ts, held, steered>>
      BY <2>1 DEF vars, inbox, task, frame, env
    <3> QED
      BY <1>2, <3>1 DEF Steering, Safe
  <2>2. ASSUME NEW u \in Turns, TaskStep(u) PROVE Safe(i, t)'
    <3>1. UNCHANGED steered
      BY <2>2, StreamMoves
      DEF Steering, Orderly, Typed, TaskStep, Advance, SendRequest, RunOtherTask,
           FailBeforeRecording, RecordStartInput,
           DrainPendingInput, RecordPendingInput, SampleFollowUp, SampleFails,
           SampleAnswer, Decide, StopHookBlocks, RunAgain, FlushTask, FinishTask,
           ReportCompletion, ClearActiveTurn, env
    <3>2. Safe(i, t)
      BY <1>2, <3>1 DEF Steering
    <3> QED
      BY <2>2, <3>2, OrderlyMatched, OtherTaskSafe, OwnTaskSafe DEF Steering
  <2>3. CASE Next
    BY <1>2, <2>2, <2>3, EnvironmentSafe, LoopSafe, StartingSafe DEF Next
  <2> QED
    BY <2>1, <2>3
<1> QED
  BY <1>1, <1>2 DEF Steering

\* In a quiet session an input that was accepted into a turn is in the history
\* by the time the turn reports completion, even if it came after the task's
\* last look at its pending input, for any number of turns and inputs
\* (steer_input against on_task_finished).
THEOREM SteeredIsKept ==
    ASSUME Quiet
    PROVE  Spec => []SteeredIsRecorded
<1>1. Init => Steering
  BY InitSteering
<1>2. Steering /\ [Next]_vars => Steering'
  BY StepSteering
<1>3. ASSUME Steering PROVE SteeredIsRecorded
  <2>1. SUFFICES ASSUME NEW i \in Inputs, steered[i] # None, terminal[steered[i]] = 1,
                        ~cancelled[steered[i]]
                 PROVE  i \in Elements(recorded)
    BY DEF SteeredIsRecorded
  <2>2. PICK t \in Turns : t = steered[i]
    BY <1>3, <2>1 DEF Steering, Orderly, Typed, TypeOK
  <2>3. Safe(i, t) /\ TurnOK(t)
    BY <1>3, <2>2 DEF Steering, Orderly
  <2>4. pc[t] \notin Working \cup {"none", "report"}
    BY <2>1, <2>2, <2>3 DEF TurnOK
  <2> QED
    BY <2>1, <2>2, <2>3, <2>4 DEF Safe, TurnOK, Working
<1> QED
  BY <1>1, <1>2, <1>3, PTL DEF Spec

=============================================================================
