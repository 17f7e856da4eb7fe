-------------------------- MODULE TurnMailProofs --------------------------
(***************************************************************************)
(* An undisturbed session: nobody aborts or replaces a turn.  Turns are    *)
(* started by start_if_idle and by mail, by the submission loop and by any *)
(* number of finishing tasks at once, and each begins with a reservation.  *)
(***************************************************************************)
EXTENDS TurnLifecycleProofs

Disturbing == {"start", "shell", "compact", "interrupt", "break"}
Undisturbed == \A b \in Budgets, op \in Disturbing : b[op] = 0

\* Between the reservation of a turn and its task.
Launch == {"recheck", "collect", "stash", "prepare", "install"}

\* The fiber relies on the active turn being its own and without a task.
Owns(f) == pc[f] \in Launch \cup {"report", "clear"}

OwnerOK(f) ==
    /\ Owns(f) => active # Idle /\ active.task = None /\ active.ts = ts[f]
    /\ pc[f] \in Launch =>
         /\ starting[f] \in Turns /\ ts[f] = <<starting[f], "reserve">>
         /\ pc[starting[f]] = "none" /\ kind[starting[f]] # "none"
    /\ pc[f] \in {"report", "clear"} => ts[f][1] = f

OwnersOK ==
    /\ \A f \in Fibers : OwnerOK(f)
    /\ \A f, g \in Fibers : Owns(f) /\ Owns(g) => f = g

\* The two fibers that are not tasks of turns.
IdlersOK ==
    /\ \A op \in Disturbing : left[op] = 0
    /\ pc[Breaker] = "idle"
    /\ pc[Loop] \in Launch \cup {"idle", "check", "reserve"}

\* A turn from its creation to its end, and what its task does afterwards.
Alive == Working \cup {"none", "report"}
LifeOK(t) ==
    /\ pc[t] \in Alive \cup Launch \cup {"clear", "check", "reserve", "ended"}
    /\ kind[t] = "none" => pc[t] = "none"
    /\ ~cancelled[t]
    /\ pc[t] \in Working => active.task = t
    /\ active.task = t => pc[t] \in Working /\ active.ts[1] = t
    /\ terminal[t] = IF pc[t] \in Alive THEN 0 ELSE 1

Sound == IdlersOK /\ OwnersOK /\ \A t \in Turns : LifeOK(t)
Reserved == Typed /\ Sound

-----------------------------------------------------------------------------
(* One turn at a time.                                                     *)

LEMMA ReservedMatched ==
    ASSUME Reserved
    PROVE  Matched
<1>1. ASSUME NEW t \in Turns
      PROVE  /\ active.task = t => pc[t] \in Working /\ ~cancelled[t] /\ active.ts[1] = t
             /\ pc[t] \in Working => active.task = t
             /\ pc[t] \in {"report", "clear"} => ts[t][1] = t
  BY FiberKinds DEF Reserved, Sound, OwnersOK, OwnerOK, LifeOK
<1> QED
  BY <1>1 DEF Reserved, Matched

\* The variables the invariant is about have their types.
LEMMA LifeTypes ==
    ASSUME Reserved
    PROVE  /\ pc \in [Fibers -> Labels]
           /\ kind \in [Turns -> {"none", "regular", "shell", "compact"}]
           /\ cancelled \in [Turns -> BOOLEAN] /\ terminal \in [Turns -> Nat]
           /\ starting \in [Fibers -> Turns \cup {None}]
           /\ ts \in [Fibers -> TurnStates \cup {None}]
           /\ left \in [Operations -> Nat]
           /\ active.task \in Turns \cup {None}
           /\ active.task # None => active # Idle
  BY ActiveParts DEF Reserved, Typed, TypeOK

LEMMA InitReserved ==
    ASSUME Undisturbed, Init
    PROVE  Reserved
<1>1. IdlersOK
  BY FiberKinds DEF Init, Undisturbed, IdlersOK
<1>2. OwnersOK
  BY FiberKinds DEF Init, OwnersOK, OwnerOK, Owns, Launch
<1>3. ASSUME NEW t \in Turns PROVE LifeOK(t)
  <2>1. pc[t] = "none" /\ ~cancelled[t] /\ terminal[t] = 0 /\ active.task # t
    BY FiberKinds DEF Init, Idle
  <2> QED
    BY <2>1 DEF LifeOK, Alive, Working
<1> QED
  BY <1>1, <1>2, <1>3, InitTyped DEF Reserved, Sound

\* What remains of the budgets.
LEMMA StaysUndisturbed ==
    ASSUME Reserved, left' = left \/ \E op \in Operations : Spend(op)
    PROVE  \A op \in Disturbing : left'[op] = 0
<1>1. left \in [Operations -> Nat] /\ \A op \in Disturbing : op \in Operations /\ left[op] = 0
  BY LifeTypes DEF Reserved, Sound, IdlersOK, Disturbing, Operations
<1>2. ASSUME NEW op \in Operations, Spend(op) PROVE \A o \in Disturbing : left'[o] = 0
  BY <1>1, <1>2 DEF Spend
<1> QED
  BY <1>1, <1>2

\* Steps that leave the turns alone.
LEMMA AsideKeeps ==
    ASSUME Reserved, UNCHANGED <<active, pc, cancelled, terminal, kind, starting, ts>>,
           left' = left \/ \E op \in Operations : Spend(op)
    PROVE  Sound'
<1>1. IdlersOK'
  BY StaysUndisturbed DEF Reserved, Sound, IdlersOK
<1>2. OwnersOK'
  BY DEF Reserved, Sound, OwnersOK, OwnerOK, Owns
<1>3. \A t \in Turns : LifeOK(t)'
  BY DEF Reserved, Sound, LifeOK
<1> QED
  BY <1>1, <1>2, <1>3 DEF Sound

\* A fiber moves on and keeps what it owns, or owns nothing before and after.
LEMMA MoveKeeps ==
    ASSUME Reserved, NEW f \in Fibers, NEW l, Goto(f, l),
           UNCHANGED <<active, cancelled, terminal, kind, starting, ts>>,
           left' = left \/ \E op \in Operations : Spend(op),
           f # Breaker,
           f = Loop => l \in Launch \cup {"idle", "check", "reserve"},
           f \in Turns => /\ l \in Alive \cup Launch \cup {"clear", "check", "reserve", "ended"}
                          /\ (l \in Alive <=> pc[f] \in Alive)
                          /\ (l \in Working <=> pc[f] \in Working)
                          /\ pc[f] # "none",
           (l \in Launch <=> pc[f] \in Launch),
           (l \in {"report", "clear"} <=> pc[f] \in {"report", "clear"})
    PROVE  Sound'
<1>1. /\ pc \in [Fibers -> Labels] /\ pc' = [pc EXCEPT ![f] = l] /\ pc'[f] = l
      /\ \A g \in Fibers \ {f} : pc'[g] = pc[g]
  BY LifeTypes DEF Goto
<1>2. IdlersOK'
  BY <1>1, StaysUndisturbed, FiberKinds DEF Reserved, Sound, IdlersOK
<1>3. \A t \in Turns : pc[t] = "none" => pc'[t] = "none"
  BY <1>1, FiberKinds
<1>4. \A g \in Fibers : (pc'[g] \in Launch <=> pc[g] \in Launch)
                     /\ (pc'[g] \in {"report", "clear"} <=> pc[g] \in {"report", "clear"})
  BY <1>1
<1>5. \A g \in Fibers : Owns(g)' <=> Owns(g)
  BY <1>4 DEF Owns
<1>6. ASSUME NEW g \in Fibers PROVE OwnerOK(g)'
  <2>1. OwnerOK(g)
    BY DEF Reserved, Sound, OwnersOK
  <2> QED
    BY <1>3, <1>4, <1>5, <2>1 DEF OwnerOK
<1>7. OwnersOK'
  BY <1>5, <1>6 DEF OwnersOK, Reserved, Sound
<1>8. ASSUME NEW t \in Turns PROVE LifeOK(t)'
  <2>1. LifeOK(t) /\ t \in Fibers
    BY FiberKinds DEF Reserved, Sound
  <2>2. /\ pc'[t] \in Alive \cup Launch \cup {"clear", "check", "reserve", "ended"}
        /\ (pc'[t] \in Alive <=> pc[t] \in Alive) /\ (pc'[t] \in Working <=> pc[t] \in Working)
        /\ (pc[t] = "none" => pc'[t] = "none")
    BY <1>1, <1>3, <2>1 DEF LifeOK
  <2> QED
    BY <2>1, <2>2 DEF LifeOK
<1> QED
  BY <1>2, <1>7, <1>8 DEF Sound

\* Reserve makes a fiber that owns nothing the owner of a fresh turn.
LEMMA ReserveKeeps ==
    ASSUME Reserved, NEW f \in Fibers, f # Breaker, NEW t \in Turns, NEW l \in {"recheck", "collect"},
           pc[f] \in {"idle", "reserve"}, NEW items,
           Reserve(f, t), CreateTurn(f, t, "regular", items), Goto(f, l), UNCHANGED terminal,
           left' = left \/ \E op \in Operations : Spend(op)
    PROVE  Sound'
<1>1. /\ active = Idle /\ active' = [ts |-> <<t, "reserve">>, task |-> None]
      /\ ts' = [ts EXCEPT ![f] = <<t, "reserve">>] /\ kind[t] = "none"
      /\ kind' = [kind EXCEPT ![t] = "regular"] /\ starting' = [starting EXCEPT ![f] = t]
      /\ pc' = [pc EXCEPT ![f] = l] /\ UNCHANGED <<cancelled, terminal>>
  BY DEF Reserve, CreateTurn, Fresh, Goto
<1>2. /\ pc'[f] = l /\ ts'[f] = <<t, "reserve">> /\ starting'[f] = t
      /\ \A g \in Fibers \ {f} : pc'[g] = pc[g]
      /\ kind'[t] = "regular" /\ \A u \in Turns \ {t} : kind'[u] = kind[u]
  BY <1>1, LifeTypes
<1>3. active'.task = None /\ active' # Idle /\ active'.ts = <<t, "reserve">>
  <2>1. <<t, "reserve">> \in TurnStates
    BY DEF TurnStates
  <2> QED
    BY <1>1, <2>1, FibersAssumption DEF Idle
<1>4. pc[t] = "none" /\ t # f /\ pc'[t] = "none"
  <2>1. pc[t] = "none"
    BY <1>1 DEF Reserved, Sound, LifeOK
  <2> QED
    BY <1>2, <2>1, FiberKinds
<1>5. IdlersOK'
  BY <1>2, StaysUndisturbed, FiberKinds DEF Reserved, Sound, IdlersOK, Launch
<1>6. \A g \in Fibers : ~Owns(g)
  BY <1>1 DEF Reserved, Sound, OwnersOK, OwnerOK
<1>7. \A g \in Fibers \ {f} : ~Owns(g)'
  BY <1>2, <1>6 DEF Owns
<1>8. OwnerOK(f)'
  BY <1>2, <1>3, <1>4 DEF OwnerOK, Launch
<1>9. OwnersOK'
  BY <1>7, <1>8 DEF OwnersOK, OwnerOK, Owns
<1>10. ASSUME NEW u \in Turns PROVE LifeOK(u)'
  <2>1. LifeOK(u) /\ u \in Fibers /\ u # None
    BY FiberKinds DEF Reserved, Sound
  <2>2. pc[u] \notin Working
    BY <1>1, <2>1 DEF LifeOK, Idle
  <2>3. CASE u = f
    <3>1. pc[u] = "reserve" /\ pc'[u] \in Launch /\ pc'[u] \notin Alive /\ kind'[u] # "none"
          /\ kind[u] # "none" /\ terminal[u] = 1
      BY <1>2, <1>4, <2>1, <2>3 DEF LifeOK, Launch, Alive, Working
    <3> QED
      BY <1>1, <1>3, <2>1, <3>1 DEF LifeOK, Alive
  <2>4. CASE u # f
    <3>1. pc'[u] = pc[u] /\ (kind'[u] = "none" => kind[u] = "none")
      BY <1>2, <2>1, <2>4
    <3> QED
      BY <1>1, <1>3, <2>1, <2>2, <3>1 DEF LifeOK
  <2> QED
    BY <2>3, <2>4
<1> QED
  BY <1>5, <1>9, <1>10 DEF Sound

\* The owner gives the active turn up.
LEMMA ReleaseKeeps ==
    ASSUME Reserved, NEW f \in Fibers, f # Breaker, Owns(f), f \in Turns => pc[f] = "clear",
           NEW l \in {"idle", "check"}, f \in Turns => l = "check", Goto(f, l),
           active' = Idle, UNCHANGED <<cancelled, terminal, kind, starting, ts, left>>
    PROVE  Sound'
<1>1. /\ pc \in [Fibers -> Labels] /\ pc'[f] = l /\ \A g \in Fibers \ {f} : pc'[g] = pc[g]
  BY LifeTypes DEF Goto
<1>2. \A g \in Fibers : ~Owns(g)'
  BY <1>1 DEF Owns, Launch, Reserved, Sound, OwnersOK
<1>3. OwnersOK'
  BY <1>2 DEF OwnersOK, OwnerOK, Owns
<1>4. IdlersOK'
  BY <1>1, FiberKinds DEF Reserved, Sound, IdlersOK
<1>5. ASSUME NEW t \in Turns PROVE LifeOK(t)'
  <2>1. LifeOK(t) /\ t \in Fibers /\ t # None
    BY FiberKinds DEF Reserved, Sound
  <2>2. active.task = None /\ active'.task = None
    BY DEF Reserved, Sound, OwnersOK, OwnerOK, Idle
  <2>3. CASE t = f
    BY <1>1, <2>1, <2>2, <2>3 DEF LifeOK, Alive, Working
  <2>4. CASE t # f
    BY <1>1, <2>1, <2>2, <2>4 DEF LifeOK
  <2> QED
    BY <2>3, <2>4
<1> QED
  BY <1>3, <1>4, <1>5 DEF Sound

\* start_task installs the task in the turn its fiber reserved.
LEMMA InstallFindsReservation ==
    ASSUME Reserved, NEW f \in Fibers, pc[f] \in {"prepare", "install"}
    PROVE  /\ active # Idle /\ active.task = None /\ active.ts \in TurnStates
           /\ starting[f] \in Turns /\ pc[starting[f]] = "none" /\ kind[starting[f]] # "none"
           /\ active.ts[1] = starting[f] /\ starting[f] # f /\ f # Breaker
<1>1. OwnerOK(f) /\ Owns(f) /\ pc[f] \in Launch
  BY DEF Reserved, Sound, OwnersOK, Owns, Launch
<1>2. active.ts = <<starting[f], "reserve">>
  BY <1>1 DEF OwnerOK
<1>3. active.ts[1] = starting[f]
  BY <1>2
<1>4. active.ts \in TurnStates
  BY <1>1, ActiveParts DEF OwnerOK, Reserved, Typed
<1> QED
  BY <1>1, <1>3, <1>4 DEF OwnerOK, Reserved, Sound, IdlersOK, Launch

LEMMA InstallReserved ==
    ASSUME Reserved, NEW f \in Fibers, InstallTask(f)
    PROVE  Sound'
<1>1. PICK t \in Turns : t = starting[f]
  BY InstallFindsReservation DEF InstallTask
<1>2. /\ pc[f] = "install" /\ active # Idle /\ active.task = None /\ active.ts \in TurnStates
      /\ pc[t] = "none" /\ kind[t] # "none" /\ active.ts[1] = t /\ t # f /\ f # Breaker
  BY <1>1, InstallFindsReservation DEF InstallTask
<1>3. /\ active' = [active EXCEPT !.task = t]
      /\ pc' = [g \in Fibers |-> IF g = f THEN Return(f) ELSE IF g = t THEN "begin"
                                 ELSE IF g = active.task THEN "ended" ELSE pc[g]]
      /\ starting' = [starting EXCEPT ![f] = None]
      /\ UNCHANGED <<cancelled, terminal, kind, ts, left>>
  BY <1>1, <1>2 DEF InstallTask, GetOrInsert, task, env
<1>4. active'.task = t /\ active'.ts = active.ts
  BY <1>2, <1>3, ActiveParts DEF Reserved, Typed
<1>5. /\ pc'[f] = Return(f) /\ pc'[t] = "begin" /\ t \in Fibers
      /\ \A g \in Fibers \ {f, t} : pc'[g] = pc[g]
  BY <1>2, <1>3, FibersAssumption, FiberKinds DEF Fibers
<1>6. Owns(f)
  BY <1>2 DEF Owns, Launch
<1>7. \A g \in Fibers : ~Owns(g)'
  BY <1>2, <1>5, <1>6 DEF Owns, Launch, Return, Reserved, Sound, OwnersOK
<1>8. OwnersOK'
  BY <1>7 DEF OwnersOK, OwnerOK, Owns
<1>9. IdlersOK'
  BY <1>2, <1>3, <1>5, FiberKinds DEF Reserved, Sound, IdlersOK, Return
<1>10. ASSUME NEW u \in Turns PROVE LifeOK(u)'
  <2>1. LifeOK(u) /\ u \in Fibers /\ u # None
    BY FiberKinds DEF Reserved, Sound
  <2>2. CASE u = t
    BY <1>2, <1>3, <1>4, <1>5, <2>1, <2>2 DEF LifeOK, Alive, Working
  <2>3. CASE u = f
    BY <1>2, <1>3, <1>4, <1>5, <2>1, <2>3 DEF LifeOK, Alive, Working, Return
  <2>4. CASE u # t /\ u # f
    BY <1>2, <1>3, <1>4, <1>5, <2>1, <2>4 DEF LifeOK
  <2> QED
    BY <2>2, <2>3, <2>4
<1> QED
  BY <1>8, <1>9, <1>10 DEF Sound

LEMMA FinishReserved ==
    ASSUME Reserved, NEW t \in Turns, FinishTask(t)
    PROVE  Sound'
<1>0. t \in Fibers /\ t # Loop /\ t # Breaker /\ t # None
  BY FiberKinds
<1>1. pc[t] = "finish" /\ active.task = t /\ active.ts[1] = t /\ active # Idle
  BY <1>0, LifeTypes DEF FinishTask, Reserved, Sound, LifeOK, Working
<1>2. /\ active' = [active EXCEPT !.task = None]
      /\ ts' = [ts EXCEPT ![t] = active.ts] /\ pc' = [pc EXCEPT ![t] = "report"]
      /\ UNCHANGED <<cancelled, terminal, kind, starting, left>>
  BY <1>0, <1>1 DEF FinishTask, Goto, task, env
<1>3. active'.task = None /\ active'.ts = active.ts /\ active' # Idle
  BY <1>1, <1>2, ActiveParts DEF Reserved, Typed, Idle
<1>4. /\ pc'[t] = "report" /\ ts'[t] = active.ts
      /\ \A g \in Fibers \ {t} : pc'[g] = pc[g]
  BY <1>0, <1>2, LifeTypes
<1>5. \A g \in Fibers : ~Owns(g)
  BY <1>0, <1>1 DEF Reserved, Sound, OwnersOK, OwnerOK
<1>6. \A g \in Fibers \ {t} : ~Owns(g)'
  BY <1>4, <1>5 DEF Owns
<1>7. OwnerOK(t)'
  BY <1>1, <1>3, <1>4 DEF OwnerOK, Launch
<1>8. OwnersOK'
  BY <1>6, <1>7 DEF OwnersOK, OwnerOK, Owns
<1>9. IdlersOK'
  BY <1>0, <1>2, <1>4, FiberKinds DEF Reserved, Sound, IdlersOK
<1>10. ASSUME NEW u \in Turns PROVE LifeOK(u)'
  <2>1. LifeOK(u) /\ u \in Fibers /\ u # None
    BY FiberKinds DEF Reserved, Sound
  <2>2. CASE u = t
    BY <1>1, <1>2, <1>3, <1>4, <2>1, <2>2 DEF LifeOK, Alive, Working
  <2>3. CASE u # t
    BY <1>1, <1>2, <1>3, <1>4, <2>1, <2>3 DEF LifeOK
  <2> QED
    BY <2>2, <2>3
<1> QED
  BY <1>8, <1>9, <1>10 DEF Sound

LEMMA ReportReserved ==
    ASSUME Reserved, NEW t \in Turns, ReportCompletion(t)
    PROVE  Sound'
<1>0. t \in Fibers /\ t # Loop /\ t # Breaker /\ t # None
  BY FiberKinds
<1>1. /\ pc[t] = "report" /\ pc' = [pc EXCEPT ![t] = "clear"]
      /\ terminal' = [terminal EXCEPT ![t] = terminal[t] + 1]
      /\ UNCHANGED <<active, cancelled, kind, starting, ts, left>>
  BY DEF ReportCompletion, Goto, task, frame, env
<1>2. /\ pc'[t] = "clear" /\ \A g \in Fibers \ {t} : pc'[g] = pc[g]
  BY <1>0, <1>1, LifeTypes
<1>3. terminal[t] = 0 /\ terminal'[t] = 1 /\ \A u \in Turns \ {t} : terminal'[u] = terminal[u]
  BY <1>1, LifeTypes DEF Reserved, Sound, LifeOK, Alive
<1>4. \A g \in Fibers : /\ (pc'[g] \in Launch <=> pc[g] \in Launch)
                        /\ (pc'[g] \in {"report", "clear"} <=> pc[g] \in {"report", "clear"})
                        /\ (pc[g] = "none" => pc'[g] = "none")
  BY <1>1, <1>2 DEF Launch
<1>5. \A g \in Fibers : Owns(g)' <=> Owns(g)
  BY <1>4 DEF Owns
<1>6. ASSUME NEW g \in Fibers PROVE OwnerOK(g)'
  <2>1. OwnerOK(g)
    BY DEF Reserved, Sound, OwnersOK
  <2> QED
    BY <1>1, <1>4, <1>5, <2>1, FiberKinds DEF OwnerOK
<1>7. OwnersOK'
  BY <1>5, <1>6 DEF OwnersOK, Reserved, Sound
<1>8. IdlersOK'
  BY <1>0, <1>1, <1>2, FiberKinds DEF Reserved, Sound, IdlersOK
<1>9. ASSUME NEW u \in Turns PROVE LifeOK(u)'
  <2>1. LifeOK(u) /\ u \in Fibers
    BY FiberKinds DEF Reserved, Sound
  <2>2. CASE u = t
    BY <1>1, <1>2, <1>3, <2>1, <2>2 DEF LifeOK, Alive, Working
  <2>3. CASE u # t
    BY <1>1, <1>2, <1>3, <2>1, <2>3 DEF LifeOK
  <2> QED
    BY <2>2, <2>3
<1> QED
  BY <1>7, <1>8, <1>9 DEF Sound

\* Nobody disturbs the session.
LEMMA NoDisturbance ==
    ASSUME Reserved, NEW i, NEW t
    PROVE  /\ ~StartTurn(i, t) /\ ~RunUserShell(t) /\ ~Compact(t) /\ ~Interrupt /\ ~BreakTurn(t)
           /\ ~TakeActiveTurn /\ \A f \in Fibers : ~KillTask(f)
<1>1. \A op \in Disturbing : left[op] = 0 /\ ~Spend(op)
  BY DEF Reserved, Sound, IdlersOK, Spend
<1>2. \A f \in Fibers : pc[f] \notin {"abort", "kill"}
  BY DEF Reserved, Sound, IdlersOK, LifeOK, Fibers, Alive, Working, Launch
<1> QED
  BY <1>1, <1>2, FiberKinds DEF Disturbing, StartTurn, RunUserShell, Compact, Interrupt, BreakTurn,
     Handle, TakeActiveTurn, KillTask

LEMMA EnvironmentReserved ==
    ASSUME Reserved, Environment
    PROVE  Sound'
<1>1. ASSUME NEW i \in Inputs, Steer(i) PROVE Sound'
  <2>1. /\ UNCHANGED <<active, pc, cancelled, terminal, kind, starting, ts>>
        /\ \E op \in Operations : Spend(op)
    BY <1>1 DEF Steer, Handle, Operations, task, frame
  <2> QED
    BY <2>1, AsideKeeps
<1>2. ASSUME NEW i \in Injections, Inject(i) PROVE Sound'
  <2>1. /\ UNCHANGED <<active, pc, cancelled, terminal, kind, starting, ts>>
        /\ \E op \in Operations : Spend(op)
    BY <1>2 DEF Inject, Operations, task, frame
  <2> QED
    BY <2>1, AsideKeeps
<1>3. ASSUME NEW m \in Mails, Mail(m) PROVE Sound'
  <2>1. /\ UNCHANGED <<active, cancelled, terminal, kind, starting, ts>>
        /\ \E op \in Operations : Spend(op)
        /\ pc[Loop] = "idle" /\ (UNCHANGED pc \/ Goto(Loop, "check"))
    BY <1>3 DEF Mail, Handle, Operations, task, frame
  <2>2. CASE UNCHANGED pc
    BY <2>1, <2>2, AsideKeeps
  <2>3. CASE Goto(Loop, "check")
    BY <2>1, <2>3, FiberKinds, FibersAssumption, MoveKeeps DEF Launch
  <2> QED
    BY <2>1, <2>2, <2>3
<1>4. ASSUME NEW i, NEW t \in Turns, StartIfIdle(i, t) PROVE Sound'
  <2>1. PICK items :
        /\ pc[Loop] = "idle" /\ Reserve(Loop, t) /\ CreateTurn(Loop, t, "regular", items)
        /\ Goto(Loop, "recheck") /\ UNCHANGED terminal /\ \E op \in Operations : Spend(op)
    BY <1>4 DEF StartIfIdle, Handle, Operations
  <2>2. Loop \in Fibers /\ Loop # Breaker
    BY FiberKinds, FibersAssumption
  <2> QED
    BY <2>1, <2>2, ReserveKeeps
<1> QED
  BY <1>1, <1>2, <1>3, <1>4, NoDisturbance DEF Environment

LEMMA LoopReserved ==
    ASSUME Reserved, LoopStep
    PROVE  Sound'
<1>0. Loop \in Fibers /\ Loop # Breaker /\ Loop \notin Turns
  BY FiberKinds, FibersAssumption
<1>1. CASE StartIfIdleGivesUp
  <2>1. /\ pc[Loop] = "recheck" /\ ClearReservation(Loop)
        /\ \E l \in {"idle", "check"} : Goto(Loop, l)
        /\ UNCHANGED <<cancelled, terminal, kind, starting, ts, left>>
    BY <1>1 DEF StartIfIdleGivesUp, task, env
  <2>2. Owns(Loop) /\ OwnerOK(Loop)
    BY <1>0, <2>1 DEF Owns, Launch, Reserved, Sound, OwnersOK
  <2>3. active' = Idle
    BY <2>1, <2>2, ActiveParts DEF ClearReservation, ReservedBy, OwnerOK, Reserved, Typed
  <2> QED
    BY <1>0, <2>1, <2>2, <2>3, ReleaseKeeps
<1>2. CASE StartIfIdleCommits
  <2>1. /\ pc[Loop] = "recheck" /\ Goto(Loop, "prepare")
        /\ UNCHANGED <<active, cancelled, terminal, kind, starting, ts, left>>
    BY <1>2 DEF StartIfIdleCommits, task, env
  <2> QED
    BY <1>0, <2>1, MoveKeeps DEF Launch
<1> QED
  BY <1>1, <1>2, NoDisturbance DEF LoopStep

LEMMA StartingReserved ==
    ASSUME Reserved, NEW f \in Fibers, StartingStep(f)
    PROVE  Sound'
<1>0. /\ f # Breaker \/ pc[f] = "idle"
      /\ Loop \notin Turns /\ (f \in Turns \/ f = Loop \/ f = Breaker)
  BY FibersAssumption DEF Reserved, Sound, IdlersOK, Fibers
<1>1. CASE CheckPendingWork(f) \/ NotIdle(f)
  <2>1. PICK l \in {"reserve", Return(f)} :
        /\ pc[f] \in {"check", "reserve"} /\ Goto(f, l)
        /\ UNCHANGED <<active, cancelled, terminal, kind, starting, ts, left>>
    BY <1>1 DEF CheckPendingWork, NotIdle, task, frame, env
  <2>2. f # Breaker
    BY <1>0, <2>1
  <2>3. l \notin Launch \cup {"report", "clear"} /\ pc[f] \notin Launch \cup {"report", "clear"}
    BY <2>1 DEF Launch, Return
  <2>4. f = Loop => l \in {"idle", "check", "reserve"}
    BY <1>0, <2>1 DEF Return
  <2>5. f \in Turns => l \in {"reserve", "ended"} /\ l \notin Alive /\ pc[f] \notin Alive /\ pc[f] # "none"
    BY <2>1 DEF Return, Alive, Working
  <2>6. Working \subseteq Alive
    BY DEF Alive
  <2> QED
    BY <2>1, <2>2, <2>3, <2>4, <2>5, <2>6, MoveKeeps
<1>2. ASSUME NEW t \in Turns, ReserveForPendingWork(f, t) PROVE Sound'
  <2>1. /\ pc[f] = "reserve" /\ Reserve(f, t) /\ CreateTurn(f, t, "regular", <<>>)
        /\ Goto(f, "collect") /\ UNCHANGED <<terminal, left>>
    BY <1>2 DEF ReserveForPendingWork, env
  <2>2. f # Breaker
    BY <1>0, <2>1
  <2> QED
    BY <2>1, <2>2, ReserveKeeps
<1>3. CASE CollectPendingWork(f) \/ StashPendingWork(f) \/ PrepareTask(f)
  <2>1. PICK l \in {"stash", "prepare", "install"} :
        /\ pc[f] \in {"collect", "stash", "prepare"} /\ Goto(f, l)
        /\ UNCHANGED <<active, cancelled, terminal, kind, starting, ts, left>>
    <3>1. CASE CollectPendingWork(f) \/ StashPendingWork(f)
      BY <3>1 DEF CollectPendingWork, StashPendingWork, task, env
    <3>2. CASE PrepareTask(f)
      <4>1. active # Idle
        BY <3>2, InstallFindsReservation DEF PrepareTask
      <4> QED
        BY <3>2, <4>1 DEF PrepareTask, GetOrInsert, task, frame, env
    <3> QED
      BY <1>3, <3>1, <3>2
  <2>2. f # Breaker
    BY <1>0, <2>1
  <2>3. l \in Launch /\ pc[f] \in Launch
    BY <2>1 DEF Launch
  <2>4. l \notin Alive /\ pc[f] \notin Alive /\ pc[f] # "none"
    BY <2>1 DEF Alive, Working
  <2>5. Working \subseteq Alive /\ l \notin {"report", "clear"} /\ pc[f] \notin {"report", "clear"}
    BY <2>1 DEF Alive
  <2> QED
    BY <2>1, <2>2, <2>3, <2>4, <2>5, MoveKeeps
<1>4. CASE InstallTask(f)
  BY <1>4, InstallReserved
<1> QED
  BY <1>1, <1>2, <1>3, <1>4, NoDisturbance DEF StartingStep

LEMMA TaskReserved ==
    ASSUME Reserved, NEW t \in Turns, TaskStep(t)
    PROVE  Sound'
<1>0. t \in Fibers /\ t # Loop /\ t # Breaker /\ ~cancelled[t] /\ Matched /\ LifeOK(t)
  BY FiberKinds, ReservedMatched DEF Reserved, Sound, LifeOK
<1>1. CASE FinishTask(t) \/ ReportCompletion(t)
  BY <1>1, FinishReserved, ReportReserved
<1>2. CASE ClearActiveTurn(t)
  <2>1. Owns(t) /\ OwnerOK(t) /\ pc[t] = "clear"
    BY <1>0, <1>2 DEF ClearActiveTurn, Owns, Reserved, Sound, OwnersOK
  <2>2. ReservedBy(t)
    BY <2>1, ActiveParts DEF ReservedBy, OwnerOK, Reserved, Typed
  <2>3. /\ active' = Idle /\ Goto(t, "check")
        /\ UNCHANGED <<cancelled, terminal, kind, starting, ts, left>>
    BY <1>2, <2>2 DEF ClearActiveTurn, ClearReservation, task, frame, env
  <2> QED
    BY <1>0, <2>1, <2>3, ReleaseKeeps
<1>3. CASE ~(FinishTask(t) \/ ReportCompletion(t) \/ ClearActiveTurn(t))
  <2>1. PICK l : /\ l \in Working \/ (l = "ended" /\ active.task # t)
                 /\ Goto(t, l)
                 /\ pc[t] \in Working
                 /\ UNCHANGED <<active, cancelled, terminal, kind, starting, ts, left>>
    <3>1. /\ pc[t] \in Working
          /\ \E l : /\ l \in Working \/ (l = "ended" /\ active.task # t)
                    /\ Goto(t, l)
          /\ UNCHANGED <<active, cancelled, terminal, kind, starting, victim, why, ts, left>>
      BY <1>0, <1>3, WorkSteps DEF TaskStep, Advance
    <3> QED
      BY <3>1
  <2>2. l \in Working
    BY <1>0, <2>1 DEF LifeOK
  <2>3. \A x \in Working : x \in Alive /\ x \notin Launch /\ x \notin {"report", "clear"} /\ x # "none"
    BY DEF Alive, Working, Launch
  <2> QED
    BY <1>0, <2>1, <2>2, <2>3, MoveKeeps
<1> QED
  BY <1>1, <1>2, <1>3

LEMMA StepReserved ==
    ASSUME Reserved, [Next]_vars
    PROVE  Reserved'
<1>1. Typed'
  BY StepTyped DEF Reserved
<1>2. CASE UNCHANGED vars
  <2>1. UNCHANGED <<active, pc, cancelled, terminal, kind, starting, ts, left>>
    BY <1>2 DEF vars, task, frame, env
  <2> QED
    BY <1>1, <2>1, AsideKeeps DEF Reserved
<1>3. CASE Next
  BY <1>1, <1>3, EnvironmentReserved, LoopReserved, StartingReserved, TaskReserved DEF Next, Reserved
<1> QED
  BY <1>2, <1>3

LEMMA AlwaysReserved ==
    ASSUME Undisturbed
    PROVE  Spec => []Reserved
<1>1. Init => Reserved
  BY InitReserved
<1>2. Reserved /\ [Next]_vars => Reserved'
  BY StepReserved
<1> QED
  BY <1>1, <1>2, PTL DEF Spec

\* In an undisturbed session a task at work is the active turn's task, whichever
\* of the loop and the finishing tasks start turns for mail at the same time
\* (maybe_start_turn_for_pending_work, start_if_idle, on_task_finished).
THEOREM OneRunnerWithMail ==
    ASSUME Undisturbed
    PROVE  Spec => []RunnerIsActive
<1>1. Reserved => RunnerIsActive
  BY DEF Reserved, Sound, LifeOK, RunnerIsActive
<1> QED
  BY <1>1, AlwaysReserved, PTL

\* In an undisturbed session every turn is reported finished at most once.
THEOREM ReportedOnceWithMail ==
    ASSUME Undisturbed
    PROVE  Spec => []OneTerminal
<1>1. ASSUME Reserved PROVE OneTerminal
  <2>1. ASSUME NEW t \in Turns PROVE terminal[t] <= 1
    <3>1. LifeOK(t) /\ terminal[t] \in Nat
      BY <1>1, LifeTypes DEF Reserved, Sound
    <3> QED
      BY <3>1 DEF LifeOK
  <2> QED
    BY <2>1 DEF OneTerminal
<1> QED
  BY <1>1, AlwaysReserved, PTL

\* In an undisturbed session the reservation keeps everyone else out until the
\* task is installed: start_task finds no task, in either of its halves.
THEOREM NoTaskOverwrittenWithMail ==
    ASSUME Undisturbed
    PROVE  Spec => []StartFindsNoTask
<1>1. ASSUME Reserved PROVE StartFindsNoTask
  BY <1>1, InstallFindsReservation DEF StartFindsNoTask
<1> QED
  BY <1>1, AlwaysReserved, PTL

-----------------------------------------------------------------------------
(* A closed turn samples no more.                                          *)

Settling == Reserved /\ PhaseOK /\ NoRequestWhenClosed

LEMMA SettlingPhased ==
    ASSUME Settling
    PROVE  Phased
  BY ReservedMatched DEF Settling, Phased

\* A fiber that is not the active turn's task moves on.
LEMMA MoveCloses ==
    ASSUME Settling, NEW f \in Fibers, NEW l, l # "none", Goto(f, l), UNCHANGED phase,
           active' = active \/ active'.task = None, active.task # f
    PROVE  PhaseOK' /\ NoRequestWhenClosed'
<1>1. \A u \in Turns : u \in Fibers /\ u # None
  BY FiberKinds
<1>2. /\ \A u \in Turns : pc'[u] = "none" => pc[u] = "none"
      /\ \A u \in Turns \ {f} : pc'[u] = pc[u]
  BY <1>1, LifeTypes DEF Goto, Settling
<1> QED
  BY <1>1, <1>2, SettlingPhased, ClosedKept

LEMMA EnvironmentSettles ==
    ASSUME Settling, Environment
    PROVE  PhaseOK' /\ NoRequestWhenClosed'
<1>0. /\ Reserved /\ phase \in [TurnStates -> {"CurrentTurn", "NextTurn"}]
      /\ Loop \in Fibers /\ active.task # Loop
  BY FiberKinds, LifeTypes, FibersAssumption DEF Settling, Reserved, Typed, TypeOK, Fibers
<1>1. ASSUME NEW i, AppendToActive(i)
      PROVE  \A s \in TurnStates : phase'[s] = "NextTurn" => phase[s] = "NextTurn"
  BY <1>0, <1>1 DEF AppendToActive
<1>2. ASSUME NEW i \in Inputs, Steer(i) PROVE PhaseOK' /\ NoRequestWhenClosed'
  BY <1>1, <1>2, SettlingPhased, ClosedKept DEF Steer
<1>3. ASSUME NEW i \in Injections, Inject(i) PROVE PhaseOK' /\ NoRequestWhenClosed'
  <2>1. \A s \in TurnStates : phase'[s] = "NextTurn" => phase[s] = "NextTurn"
    BY <1>1, <1>3 DEF Inject, inbox
  <2>2. UNCHANGED <<active, pc>>
    BY <1>3 DEF Inject
  <2> QED
    BY <2>1, <2>2, SettlingPhased, ClosedKept
<1>4. ASSUME NEW m \in Mails, Mail(m) PROVE PhaseOK' /\ NoRequestWhenClosed'
  <2>1. UNCHANGED <<active, phase>> /\ (UNCHANGED pc \/ Goto(Loop, "check"))
    BY <1>4 DEF Mail
  <2>2. CASE UNCHANGED pc
    BY <2>1, <2>2, SettlingPhased, ClosedKept
  <2>3. CASE Goto(Loop, "check")
    BY <1>0, <2>1, <2>3, MoveCloses
  <2> QED
    BY <2>1, <2>2, <2>3
<1>5. ASSUME NEW i, NEW t \in Turns, StartIfIdle(i, t)
      PROVE  PhaseOK' /\ NoRequestWhenClosed'
  <2>1. active'.task = None /\ Goto(Loop, "recheck") /\ UNCHANGED phase
    BY <1>5 DEF StartIfIdle, Reserve, inbox
  <2> QED
    BY <1>0, <2>1, MoveCloses
<1> QED
  BY <1>0, <1>2, <1>3, <1>4, <1>5, NoDisturbance DEF Environment

LEMMA LoopSettles ==
    ASSUME Settling, LoopStep
    PROVE  PhaseOK' /\ NoRequestWhenClosed'
<1>0. Reserved /\ Loop \in Fibers /\ active.task # Loop
  BY FiberKinds, LifeTypes, FibersAssumption DEF Settling, Fibers
<1>1. UNCHANGED phase /\ (active' = active \/ active' = Idle)
  BY <1>0, NoDisturbance DEF LoopStep, StartIfIdleGivesUp, StartIfIdleCommits, ClearReservation, inbox
<1>2. PICK l \in {"check", "idle", "prepare"} : Goto(Loop, l)
  BY <1>0, NoDisturbance DEF LoopStep, StartIfIdleGivesUp, StartIfIdleCommits
<1> QED
  BY <1>0, <1>1, <1>2, MoveCloses DEF Idle

LEMMA StartingSettles ==
    ASSUME Settling, NEW f \in Fibers, StartingStep(f)
    PROVE  PhaseOK' /\ NoRequestWhenClosed'
<1>0. Reserved
  BY DEF Settling
<1>1. CASE InstallTask(f)
  <2>1. PICK t \in Turns : t = starting[f]
    BY <1>0, <1>1, InstallFindsReservation DEF InstallTask
  <2>2. /\ active # Idle /\ active.task = None /\ active.ts \in TurnStates
        /\ pc[t] = "none" /\ active.ts[1] = t /\ t # f
    BY <1>0, <1>1, <2>1, InstallFindsReservation DEF InstallTask
  <2>3. UNCHANGED phase /\ active' = [active EXCEPT !.task = t]
    BY <1>1, <2>1, <2>2 DEF InstallTask, GetOrInsert, inbox
  <2>4. active'.ts = active.ts
    BY <1>0, <2>2, <2>3, ActiveParts DEF Reserved, Typed
  <2>5. phase'[active'.ts] # "NextTurn"
    BY <2>2, <2>3, <2>4 DEF Settling, PhaseOK
  <2>6. \A u \in Turns : pc'[u] = "none" => pc[u] = "none"
    BY <1>1, <2>1, <2>2, FiberKinds DEF InstallTask, Return
  <2>7. PhaseOK'
    BY <2>3, <2>6, OwnerIsTurn DEF Settling, PhaseOK
  <2> QED
    BY <2>5, <2>7 DEF NoRequestWhenClosed
<1>2. CASE ~InstallTask(f)
  <2>1. PICK l \in {"reserve", "collect", "stash", "prepare", "install", "ended", "idle"} : Goto(f, l)
    <3>1. CASE CheckPendingWork(f) \/ NotIdle(f)
      BY <3>1 DEF CheckPendingWork, NotIdle, Return
    <3>2. ASSUME NEW t \in Turns, ReserveForPendingWork(f, t) PROVE Goto(f, "collect")
      BY <3>2 DEF ReserveForPendingWork
    <3>3. CASE CollectPendingWork(f)
      BY <3>3 DEF CollectPendingWork
    <3>4. CASE StashPendingWork(f)
      BY <3>4 DEF StashPendingWork
    <3>5. CASE PrepareTask(f)
      BY <3>5 DEF PrepareTask
    <3> QED
      BY <1>0, <1>2, <3>1, <3>2, <3>3, <3>4, <3>5, NoDisturbance DEF StartingStep
  <2>2. pc[f] \in {"check", "reserve", "collect", "stash", "prepare"} /\ UNCHANGED phase
    BY <1>0, <1>2, NoDisturbance DEF StartingStep, CheckPendingWork, NotIdle, ReserveForPendingWork,
       CollectPendingWork, StashPendingWork, PrepareTask, inbox
  <2>3. active' = active \/ active'.task = None
    <3>1. CASE PrepareTask(f)
      <4>1. active # Idle
        BY <1>0, <3>1, InstallFindsReservation DEF PrepareTask
      <4> QED
        BY <3>1, <4>1 DEF PrepareTask, GetOrInsert
    <3>2. ASSUME NEW t \in Turns, ReserveForPendingWork(f, t) PROVE active'.task = None
      BY <3>2 DEF ReserveForPendingWork, Reserve
    <3>3. CASE CheckPendingWork(f) \/ NotIdle(f) \/ CollectPendingWork(f) \/ StashPendingWork(f)
      BY <3>3 DEF CheckPendingWork, NotIdle, CollectPendingWork, StashPendingWork
    <3> QED
      BY <1>0, <1>2, <3>1, <3>2, <3>3, NoDisturbance DEF StartingStep
  <2>4. active.task # f
    <3>1. ASSUME active.task = f PROVE FALSE
      <4>1. f \in Turns
        BY <1>0, <3>1, LifeTypes, FibersAssumption
      <4> QED
        BY <1>0, <2>2, <3>1, <4>1 DEF Reserved, Sound, LifeOK, Working
    <3> QED
      BY <3>1
  <2> QED
    BY <2>1, <2>2, <2>3, <2>4, MoveCloses
<1> QED
  BY <1>1, <1>2

LEMMA StepSettles ==
    ASSUME Settling, [Next]_vars
    PROVE  Settling'
<1>1. Reserved'
  BY StepReserved DEF Settling
<1>2. CASE UNCHANGED vars
  <2>1. UNCHANGED <<active, phase, pc>>
    BY <1>2 DEF vars, inbox
  <2> QED
    BY <1>1, <2>1, SettlingPhased, ClosedKept DEF Settling
<1>3. CASE Next
  BY <1>1, <1>3, EnvironmentSettles, LoopSettles, StartingSettles, SettlingPhased, TaskCloses
  DEF Next, Settling
<1> QED
  BY <1>2, <1>3

\* In an undisturbed session a turn that has shown its final answer and left late
\* mail to the next turn makes no new request, unless new work reopened it, whichever
\* fiber starts that next turn (MailboxDeliveryPhase).
THEOREM NoRequestAfterAnswerWithMail ==
    ASSUME Undisturbed
    PROVE  Spec => []NoRequestWhenClosed
<1>1. ASSUME Init PROVE Settling
  <2>1. \A t \in Turns : active.task # t
    BY <1>1, FiberKinds DEF Init, Idle
  <2>2. \A s \in TurnStates : phase[s] # "NextTurn"
    BY <1>1 DEF Init
  <2> QED
    BY <1>1, <2>1, <2>2, InitReserved DEF Settling, PhaseOK, NoRequestWhenClosed
<1>2. Settling /\ [Next]_vars => Settling'
  BY StepSettles
<1>3. Settling => NoRequestWhenClosed
  BY DEF Settling
<1> QED
  BY <1>1, <1>2, <1>3, PTL DEF Spec


-----------------------------------------------------------------------------
(* Steered input is recorded.                                              *)

Guiding ==
    Reserved /\ \A i \in Inputs, t \in Turns : steered[i] = t => Safe(i, t)

\* A fiber moves on, with a turn state or items of its own.
LEMMA MoveSafe ==
    ASSUME Reserved, NEW f \in Fibers, NEW i, NEW t \in Turns, Safe(i, t),
           pc[f] \notin {"record", "report"}, NEW l, Goto(f, l),
           UNCHANGED <<recorded, cancelled>>, PendingGrows,
           active.task = t => active' = active,
           held' = held \/ \E q : held' = [held EXCEPT ![f] = q],
           ts' = ts \/ \E s : ts' = [ts EXCEPT ![f] = s]
    PROVE  Safe(i, t)'
<1>1. /\ pc \in [Fibers -> Labels] /\ held \in [Fibers -> Seq(Items)]
      /\ ts \in [Fibers -> TurnStates \cup {None}] /\ t \in Fibers
  BY LifeTypes, FiberKinds DEF Reserved, Typed, TypeOK
<1>2. pc[t] \in {"record", "report"} =>
        pc'[t] = pc[t] /\ held'[t] = held[t] /\ ts'[t] = ts[t]
  BY <1>1 DEF Goto
<1> QED
  BY <1>2, ReservedMatched, SafeWhenGrowing

LEMMA EnvironmentGuides ==
    ASSUME Guiding, Environment, NEW i \in Inputs, NEW t \in Turns, steered'[i] = t
    PROVE  Safe(i, t)'
<1>0. /\ Reserved /\ Typed /\ Matched /\ steered \in [Inputs -> Turns \cup {None}]
      /\ recorded \in Seq(Items) /\ Loop \in Fibers /\ t # None
  BY FiberKinds, ReservedMatched DEF Guiding, Reserved, Typed, TypeOK
<1>1. ASSUME NEW j \in Inputs, Steer(j) PROVE Safe(i, t)'
  <2>1. /\ steered' = [steered EXCEPT ![j] = active.task] /\ AppendToActive(j)
        /\ UNCHANGED <<active, recorded, cancelled, pc, ts, held>> /\ active # Idle
    BY <1>1 DEF Steer, task, frame, Idle
  <2>2. PendingGrows /\ j \in Elements(pending'[active.ts])
    BY <1>0, <2>1, PutGrows DEF Items
  <2>3. CASE i = j
    <3>1. active.task = t
      BY <1>0, <2>1, <2>3
    <3> QED
      BY <2>1, <2>2, <2>3, <3>1 DEF Safe
  <2>4. CASE i # j
    <3>1. steered[i] = t
      BY <1>0, <2>1, <2>4
    <3> QED
      BY <1>0, <2>1, <2>2, <3>1, SafeWhenGrowing DEF Guiding
  <2> QED
    BY <2>3, <2>4
<1>2. ASSUME UNCHANGED steered PROVE Safe(i, t)
  BY <1>2 DEF Guiding
<1>3. ASSUME NEW j \in Injections, Inject(j) PROVE Safe(i, t)'
  <2>1. UNCHANGED <<active, cancelled, pc, ts, held, steered>> /\ j \in Items
    BY <1>3 DEF Inject, task, frame, Items
  <2>2. CASE active = Idle
    <3>1. recorded' = Append(recorded, j) /\ UNCHANGED pending
      BY <1>3, <2>2 DEF Inject, inbox
    <3>2. Elements(recorded) \subseteq Elements(recorded')
      BY <1>0, <2>1, <3>1, ElementsOf
    <3> QED
      BY <1>0, <1>2, <2>1, <3>1, <3>2, SafeWhenGrowing DEF PendingGrows
  <2>3. CASE active # Idle
    <3>1. AppendToActive(j) /\ UNCHANGED recorded
      BY <1>3, <2>3 DEF Inject
    <3> QED
      BY <1>0, <1>2, <2>1, <2>3, <3>1, PutGrows, SafeWhenGrowing
  <2> QED
    BY <2>2, <2>3
<1>4. ASSUME NEW m \in Mails, Mail(m) PROVE Safe(i, t)'
  <2>1. /\ UNCHANGED <<active, recorded, cancelled, pending, steered, held, ts>>
        /\ pc[Loop] = "idle" /\ (UNCHANGED pc \/ Goto(Loop, "check"))
    BY <1>4 DEF Mail, Handle, task, frame
  <2>2. CASE UNCHANGED pc
    BY <1>0, <1>2, <2>1, <2>2, SafeWhenGrowing DEF PendingGrows
  <2>3. CASE Goto(Loop, "check")
    BY <1>0, <1>2, <2>1, <2>3, MoveSafe DEF PendingGrows
  <2> QED
    BY <2>1, <2>2, <2>3
<1>5. ASSUME NEW j, NEW u \in Turns, StartIfIdle(j, u) PROVE Safe(i, t)'
  <2>1. /\ pc[Loop] = "idle" /\ Goto(Loop, "recheck")
        /\ UNCHANGED <<recorded, cancelled, pending, steered>>
    BY <1>5 DEF StartIfIdle, Handle, CreateTurn, inbox
  <2>2. active.task = None /\ ts' = [ts EXCEPT ![Loop] = <<u, "reserve">>]
        /\ \E q : held' = [held EXCEPT ![Loop] = q]
    BY <1>5 DEF StartIfIdle, Reserve, Idle
  <2> QED
    BY <1>0, <1>2, <2>1, <2>2, MoveSafe DEF PendingGrows
<1> QED
  BY <1>0, <1>1, <1>3, <1>4, <1>5, NoDisturbance DEF Environment

LEMMA LoopGuides ==
    ASSUME Guiding, LoopStep, NEW i \in Inputs, NEW t \in Turns, steered'[i] = t
    PROVE  Safe(i, t)'
<1>0. /\ Reserved /\ Typed /\ Loop \in Fibers /\ t # None /\ held[Loop] \in Seq(Items)
      /\ UNCHANGED <<steered, recorded, cancelled, ts>>
      /\ pc[Loop] = "recheck"
  BY FiberKinds, NoDisturbance
  DEF Guiding, Reserved, Typed, TypeOK, LoopStep, StartIfIdleGivesUp, StartIfIdleCommits, env, task
<1>1. Safe(i, t)
  BY <1>0 DEF Guiding
<1>2. CASE StartIfIdleGivesUp
  <2>1. active.task = None
    BY <1>0 DEF Reserved, Sound, OwnersOK, OwnerOK, Owns, Launch
  <2>2. UNCHANGED pending /\ held' = [held EXCEPT ![Loop] = <<>>] /\ \E l : Goto(Loop, l)
    BY <1>2 DEF StartIfIdleGivesUp, inbox
  <2> QED
    BY <1>0, <1>1, <2>1, <2>2, MoveSafe DEF PendingGrows
<1>3. CASE StartIfIdleCommits
  <2>1. /\ UNCHANGED active /\ held' = [held EXCEPT ![Loop] = <<>>] /\ Goto(Loop, "prepare")
        /\ pending' = [pending EXCEPT ![ts[Loop]] = pending[ts[Loop]] \o held[Loop]]
    BY <1>3 DEF StartIfIdleCommits
  <2>2. PICK s, r : /\ s = ts[Loop] /\ r = held[Loop]
                    /\ pending' = [pending EXCEPT ![s] = pending[s] \o r]
    BY <2>1
  <2>3. PendingGrows
    BY <1>0, <2>2, AppendGrows
  <2> QED
    BY <1>0, <1>1, <2>1, <2>3, MoveSafe
<1> QED
  BY <1>0, <1>2, <1>3, NoDisturbance DEF LoopStep

LEMMA StartingGuides ==
    ASSUME Guiding, NEW f \in Fibers, StartingStep(f),
           NEW i \in Inputs, NEW t \in Turns, steered'[i] = t
    PROVE  Safe(i, t)'
<1>0. /\ Reserved /\ Typed /\ t \in Fibers /\ t # None /\ mailbox \in Seq(Items)
      /\ pending \in [TurnStates -> Seq(Items)] /\ held \in [Fibers -> Seq(Items)]
  BY FiberKinds, SeqTypes DEF Guiding, Reserved, Typed, TypeOK
<1>1. UNCHANGED <<recorded, steered, cancelled>>
  BY <1>0, NoDisturbance DEF StartingStep, CheckPendingWork, NotIdle, ReserveForPendingWork,
     CollectPendingWork, StashPendingWork, PrepareTask, InstallTask, CreateTurn, task, env
<1>2. Safe(i, t)
  BY <1>1 DEF Guiding
<1>3. CASE CheckPendingWork(f) \/ NotIdle(f)
  <2>1. /\ UNCHANGED <<active, pending, held, ts>> /\ pc[f] \in {"check", "reserve"}
        /\ \E l : Goto(f, l)
    BY <1>3 DEF CheckPendingWork, NotIdle, inbox, frame
  <2> QED
    BY <1>0, <1>1, <1>2, <2>1, MoveSafe DEF PendingGrows
<1>4. ASSUME NEW u \in Turns, ReserveForPendingWork(f, u) PROVE Safe(i, t)'
  <2>1. /\ active.task = None /\ UNCHANGED <<pending, held>> /\ pc[f] = "reserve"
        /\ ts' = [ts EXCEPT ![f] = <<u, "reserve">>] /\ Goto(f, "collect")
    BY <1>4 DEF ReserveForPendingWork, Reserve, Idle, inbox
  <2> QED
    BY <1>0, <1>1, <1>2, <2>1, MoveSafe DEF PendingGrows
<1>5. CASE CollectPendingWork(f)
  <2>1. /\ UNCHANGED <<active, ts>> /\ pc[f] = "collect" /\ Goto(f, "stash")
        /\ held' = held \/ \E q : held' = [held EXCEPT ![f] = q]
    BY <1>5 DEF CollectPendingWork, GetPendingInput
  <2>2. active # Idle /\ active.task = None /\ active.ts = ts[f]
    BY <1>0, <2>1 DEF Reserved, Sound, OwnersOK, OwnerOK, Owns, Launch
  <2>3. pending' = pending \/ pending' = [pending EXCEPT ![ts[f]] = <<>>]
    BY <1>5, <2>2 DEF CollectPendingWork, GetPendingInput
  <2>4. pc[t] # "report"
    BY <1>0, <2>1 DEF Reserved, Sound, OwnersOK, Owns, Launch
  <2>5. pc[t] = "record" => pc'[t] = "record" /\ held'[t] = held[t]
    BY <1>0, <2>1, LifeTypes DEF Goto
  <2> QED
    BY <1>0, <1>1, <1>2, <2>1, <2>2, <2>4, <2>5, SafeKept
<1>6. CASE StashPendingWork(f)
  <2>1. /\ UNCHANGED <<active, ts>> /\ held' = [held EXCEPT ![f] = <<>>] /\ Goto(f, "prepare")
        /\ pc[f] = "stash"
    BY <1>6 DEF StashPendingWork
  <2>2. PICK s, r : /\ s = ts[f] /\ r = held[f]
                    /\ pending' = [pending EXCEPT ![s] = pending[s] \o r]
    BY <1>6 DEF StashPendingWork
  <2>3. PendingGrows
    BY <1>0, <2>2, AppendGrows
  <2> QED
    BY <1>0, <1>1, <1>2, <2>1, <2>3, MoveSafe
<1>7. CASE PrepareTask(f)
  <2>1. active.task = None /\ UNCHANGED <<held, ts>> /\ pc[f] = "prepare" /\ Goto(f, "install")
    BY <1>0, <1>7, InstallFindsReservation DEF PrepareTask, frame
  <2>2. PICK s : pending' = [pending EXCEPT ![s] = pending[s] \o mailbox]
    BY <1>7 DEF PrepareTask
  <2>3. PendingGrows
    BY <1>0, <2>2, AppendGrows
  <2> QED
    BY <1>0, <1>1, <1>2, <2>1, <2>3, MoveSafe
<1>8. CASE InstallTask(f)
  <2>1. /\ active.task = None /\ UNCHANGED <<pending, held, ts>> /\ pc[f] = "install"
        /\ pc[starting[f]] = "none"
    BY <1>0, <1>8, InstallFindsReservation DEF InstallTask, inbox
  <2>2. pc[t] \in {"record", "report"} => pc'[t] = pc[t]
    BY <1>0, <1>8, <2>1 DEF InstallTask
  <2> QED
    BY <1>0, <1>1, <1>2, <2>1, <2>2, ReservedMatched, SafeWhenGrowing DEF PendingGrows
<1> QED
  BY <1>0, <1>3, <1>4, <1>5, <1>6, <1>7, <1>8, NoDisturbance DEF StartingStep

LEMMA StepGuides ==
    ASSUME Guiding, [Next]_vars
    PROVE  Guiding'
<1>1. Reserved'
  BY StepReserved DEF Guiding
<1>2. ASSUME NEW i \in Inputs, NEW t \in Turns, steered'[i] = t
      PROVE  Safe(i, t)'
  <2>1. CASE UNCHANGED vars
    <3>1. UNCHANGED <<active, pending, recorded, cancelled, pc, ts, held, steered>>
      BY <2>1 DEF vars, inbox, task, frame, env
    <3> QED
      BY <1>2, <3>1 DEF Guiding, Safe
  <2>2. ASSUME NEW u \in Turns, TaskStep(u) PROVE Safe(i, t)'
    <3>1. UNCHANGED steered
      BY <2>2, StreamMoves
      DEF Guiding, Reserved, Typed, TaskStep, Advance, SendRequest, RunOtherTask,
           FailBeforeRecording, RecordStartInput,
           DrainPendingInput, RecordPendingInput, SampleFollowUp, SampleFails,
           SampleAnswer, Decide, StopHookBlocks, RunAgain, FlushTask, FinishTask,
           ReportCompletion, ClearActiveTurn, env
    <3>2. Safe(i, t) /\ Matched
      BY <1>2, <3>1, ReservedMatched DEF Guiding
    <3> QED
      BY <2>2, <3>2, OtherTaskSafe, OwnTaskSafe
  <2>3. CASE Next
    BY <1>2, <2>2, <2>3, EnvironmentGuides, LoopGuides, StartingGuides DEF Next
  <2> QED
    BY <2>1, <2>3
<1> QED
  BY <1>1, <1>2 DEF Guiding

\* In an undisturbed session an input that was accepted into a turn is in the
\* history by the time the turn reports completion, also while other tasks
\* reserve the next turn for mail and drain the mailbox (steer_input and
\* get_pending_input against on_task_finished).
THEOREM SteeredIsKeptWithMail ==
    ASSUME Undisturbed
    PROVE  Spec => []SteeredIsRecorded
<1>1. Init => Guiding
  BY InitReserved, FiberKinds DEF Init, Guiding
<1>2. Guiding /\ [Next]_vars => Guiding'
  BY StepGuides
<1>3. ASSUME Guiding PROVE SteeredIsRecorded
  <2>1. SUFFICES ASSUME NEW i \in Inputs, steered[i] # None, terminal[steered[i]] = 1,
                        ~cancelled[steered[i]]
                 PROVE  i \in Elements(recorded)
    BY DEF SteeredIsRecorded
  <2>2. PICK t \in Turns : t = steered[i]
    BY <1>3, <2>1 DEF Guiding, Reserved, Typed, TypeOK
  <2>3. Safe(i, t) /\ LifeOK(t)
    BY <1>3, <2>2 DEF Guiding, Reserved, Sound
  <2>4. pc[t] \notin Alive
    BY <2>1, <2>2, <2>3 DEF LifeOK
  <2> QED
    BY <2>1, <2>2, <2>3, <2>4 DEF Safe, LifeOK, Alive, Working
<1> QED
  BY <1>1, <1>2, <1>3, PTL DEF Spec


=============================================================================
