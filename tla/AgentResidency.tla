--------------------------- MODULE AgentResidency ---------------------------
(***************************************************************************)
(* The V2 sub-agents of one session tree: the AgentRegistry (registry.rs)  *)
(* knows every agent by path and by thread, the residency list             *)
(* (control/residency.rs) bounds how many agent threads are loaded, and    *)
(* the execution limiter (control/execution.rs) how many turns they run.   *)
(* A spawn_agent call reserves a slot, evicting an idle agent when there   *)
(* is none, reserves the path, creates the thread, commits both            *)
(* reservations and submits the first message; send_message and            *)
(* followup_task load the agent again if it was evicted, then submit.      *)
(*                                                                         *)
(* Calls are tool calls of several agents and run concurrently; a step is  *)
(* what a call does between two awaits.  An interrupted turn aborts its    *)
(* tool calls at whatever await they are (tools/parallel.rs): reservations *)
(* are given back by Drop, nothing else is.  A thread is a session with a  *)
(* queue of submissions; the turn it runs is modelled in TurnLifecycle and *)
(* is only "running" here.  An unloaded agent can always be read back from *)
(* the thread store, or the read fails for good.  The root agent, V1       *)
(* agents, nicknames, depth and saved environments are left out, and so is *)
(* the reload that is given the agent's parent and checks that it owns the *)
(* agent (the parent argument of ensure_v2_agent_loaded).                  *)
(***************************************************************************)
EXTENDS Naturals, Sequences, FiniteSets, SequencesExt

CONSTANTS
    Callers,     \* tool calls that may run at the same time
    Paths,       \* agent paths
    NThreads,    \* bound: threads that are ever created
    Capacity,    \* effective_agent_max_threads
    MaxOps,      \* bound: calls
    MaxCancels,  \* bound: calls that are aborted
    Free, Reserved, None

Threads == 1..NThreads

ASSUME AgentResidencyAssumption ==
    /\ IsFiniteSet(Callers) /\ Callers # {} /\ IsFiniteSet(Paths)
    /\ NThreads \in Nat /\ Capacity \in Nat /\ MaxOps \in Nat /\ MaxCancels \in Nat
    /\ None \notin Threads \union Paths
    /\ Free # Reserved /\ {Free, Reserved} \intersect Threads = {}

VARIABLES
    tree,       \* agent_tree: per path free, reserved (no agent id yet) or a thread
    pathOf,     \* thread_paths: per thread the path it is registered under
    total,      \* total_count
    residents,  \* V2ResidencyState.residents, least recently used first
    pending,    \* V2ResidencyState.pending_slots
    loaded,     \* ThreadManagerState.threads
    run,        \* per thread its session: init, turn, done (a turn ended), down
    gen,        \* per thread the number of sessions it had
    queue,      \* submissions the session has not handled
    mail,       \* its mailbox
    call,       \* per caller the call it runs
    created,    \* how many threads were created
    ops,        \* how many calls were made
    cancels,    \* how many of them were aborted
    lost        \* history: a session ended that had accepted a message and had
                \* not made it part of a turn

registry == <<tree, pathOf, total>>
residency == <<residents, pending>>
sessions == <<loaded, run, gen, queue, mail, created, lost>>
bounds == <<ops, cancels>>
vars == <<registry, residency, sessions, call, bounds>>

\* A followup asks for a turn, a message waits for one.
Message == {"message", "followup"}

Steps == {"idle", "load", "reserve", "scan", "check", "shutdown", "await", "prepare",
          "create", "commit", "capacity", "submit", "died"}

\* pc, the message, the target, what the call holds, and its search for a victim
Call == [pc : Steps, spawn : BOOLEAN, msg : Message \union {None},
         path : Paths \union {None}, thread : Threads \union {None},
         slot : BOOLEAN, reserved : BOOLEAN,
         left : Nat, cand : Threads \union {None}, gen : Nat]

Idle == [pc |-> "idle", spawn |-> FALSE, msg |-> None, path |-> None, thread |-> None,
         slot |-> FALSE, reserved |-> FALSE, left |-> 0, cand |-> None, gen |-> 0]

TypeOK ==
    /\ tree \in [Paths -> {Free, Reserved} \union Threads]
    /\ pathOf \in [Threads -> Paths \union {None}]
    /\ total \in Nat /\ pending \in Nat
    /\ residents \in Seq(Threads) /\ loaded \subseteq Threads
    /\ run \in [Threads -> {"init", "turn", "done", "down"}]
    /\ gen \in [Threads -> Nat]
    /\ queue \in [Threads -> Seq(Message \union {"shutdown"})]
    /\ mail \in [Threads -> SUBSET Message]
    /\ call \in [Callers -> Call]
    /\ created \in 0..NThreads /\ ops \in 0..MaxOps /\ cancels \in 0..MaxCancels
    /\ lost \in BOOLEAN

Init ==
    /\ tree = [p \in Paths |-> Free] /\ pathOf = [t \in Threads |-> None]
    /\ total = 0 /\ pending = 0 /\ residents = <<>> /\ loaded = {}
    /\ run = [t \in Threads |-> "down"] /\ gen = [t \in Threads |-> 0]
    /\ queue = [t \in Threads |-> <<>>] /\ mail = [t \in Threads |-> {}]
    /\ call = [c \in Callers |-> Idle]
    /\ created = 0 /\ ops = 0 /\ cancels = 0 /\ lost = FALSE

-----------------------------------------------------------------------------
(* The parts calls are made of *)

\* Residency: remove and touch_resident.  There is at most one entry to remove
\* (Accounting).
Without(t) ==
    IF t \in Range(residents)
      THEN RemoveAt(residents, CHOOSE i \in DOMAIN residents : residents[i] = t)
      ELSE residents
Touch(t) == residents' = Append(Without(t), t)

Registered(t) == pathOf[t] # None
Turns == {t \in Threads : run[t] = "turn"}

\* AgentExecutionLimiter::has_capacity.
HasCapacity == Cardinality(Turns) < Capacity

\* try_reserve_pending_slot.
SlotFree_OffByOne == Len(residents) + pending <= Capacity
SlotFree == Len(residents) + pending < Capacity

\* A session ends: its submissions and its mail go with it.
End(t) ==
    /\ run' = [run EXCEPT ![t] = "down"]
    /\ lost' = (lost \/ \E m \in Message : m \in mail[t] \/ Contains(queue[t], m))
    /\ queue' = [queue EXCEPT ![t] = <<>>]
    /\ mail' = [mail EXCEPT ![t] = {}]

\* remove_thread drops the manager's handle of the thread.  A call that has cloned the
\* handle may keep the session for a moment; nothing can submit to it through the
\* manager any more, and the model ends it here.
RemoveThread(t) ==
    /\ loaded' = loaded \ {t}
    /\ IF t \in loaded THEN End(t) ELSE UNCHANGED <<run, lost, queue, mail>>
    /\ UNCHANGED <<gen, created>>

\* finalize_thread_spawn.  The session is pending its first turn; a resumed one whose
\* last turn was interrupted has the status of an ended turn.
StartThread(t) ==
    /\ loaded' = loaded \union {t}
    /\ \E status \in IF t <= created THEN {"init", "done"} ELSE {"init"} :
         run' = [run EXCEPT ![t] = status]
    /\ gen' = [gen EXCEPT ![t] = @ + 1]
    /\ created' = IF t > created THEN t ELSE created
    /\ UNCHANGED <<queue, mail, lost>>

Goto(c, pc) == call' = [call EXCEPT ![c].pc = pc]

\* Drop of V2ResidencySlot and of SpawnReservation, whichever the call holds.
DropHeld_Always(c) ==
    /\ pending' = pending - 1
    /\ total' = IF call[c].reserved THEN total - 1 ELSE total
    /\ tree' = IF call[c].reserved /\ tree[call[c].path] = Reserved
                 THEN [tree EXCEPT ![call[c].path] = Free] ELSE tree
    /\ UNCHANGED pathOf
DropHeld_KeepsPath(c) ==
    /\ pending' = IF call[c].slot THEN pending - 1 ELSE pending
    /\ total' = IF call[c].reserved THEN total - 1 ELSE total
    /\ UNCHANGED <<tree, pathOf>>
DropHeld(c) ==
    /\ pending' = IF call[c].slot THEN pending - 1 ELSE pending
    /\ total' = IF call[c].reserved THEN total - 1 ELSE total
    /\ tree' = IF call[c].reserved /\ tree[call[c].path] = Reserved
                 THEN [tree EXCEPT ![call[c].path] = Free] ELSE tree
    /\ UNCHANGED pathOf

\* The call returns, with its result or an error.
Return(c) ==
    /\ call' = [call EXCEPT ![c] = Idle]
    /\ DropHeld(c)
    /\ UNCHANGED bounds

-----------------------------------------------------------------------------
(* A call begins *)

Begin(c, new) ==
    /\ call[c].pc = "idle" /\ ops < MaxOps
    /\ ops' = ops + 1
    /\ call' = [call EXCEPT ![c] = new]
    /\ UNCHANGED <<registry, residency, sessions, cancels>>

\* spawn_agent_internal starts with the check of the execution limiter.
Spawn(c, p) ==
    /\ HasCapacity /\ created < NThreads
    /\ Begin(c, [Idle EXCEPT !.pc = "reserve", !.spawn = TRUE, !.path = p,
                             !.msg = "followup"])

\* send_message and followup_task to an agent that ensure_agent_known finds.
Send(c, t, m) ==
    /\ Registered(t)
    /\ Begin(c, [Idle EXCEPT !.pc = "load", !.thread = t, !.msg = m])

-----------------------------------------------------------------------------
(* ensure_v2_agent_loaded up to its reservation *)

Load(c) ==
    /\ call[c].pc = "load"
    /\ LET t == call[c].thread IN
         \/ /\ t \in loaded
            /\ Touch(t) /\ Goto(c, "capacity")
            /\ UNCHANGED <<registry, pending, bounds>>
         \/ /\ t \notin loaded /\ Registered(t)
            /\ Goto(c, "reserve")
            /\ UNCHANGED <<registry, residency, bounds>>
         \/ /\ t \notin loaded            \* unknown by now, or the store cannot read it
            /\ Return(c) /\ UNCHANGED residents
    /\ UNCHANGED sessions

-----------------------------------------------------------------------------
(* reserve_slot *)

Reserve(c) ==
    /\ call[c].pc = "reserve"
    /\ IF SlotFree
         THEN /\ pending' = pending + 1
              /\ call' = [call EXCEPT ![c].slot = TRUE,
                                      ![c].pc = IF call[c].spawn THEN "prepare" ELSE "create"]
         ELSE /\ call' = [call EXCEPT ![c].pc = "scan", ![c].left = Len(residents)]
              /\ UNCHANGED pending
    /\ UNCHANGED <<registry, residents, sessions, bounds>>

\* pop_lru_candidate: the protected thread goes to the back.
Candidates(c) == {i \in DOMAIN residents : residents[i] # call[c].thread}
Oldest(c) == CHOOSE i \in Candidates(c) : \A j \in Candidates(c) : i <= j

Scan_Endless(c) ==
    /\ call[c].pc = "scan"
    /\ IF Candidates(c) = {}
         THEN Return(c) /\ UNCHANGED residents
         ELSE /\ call' = [call EXCEPT ![c].cand = residents[Oldest(c)], ![c].pc = "check"]
              /\ residents' = SubSeq(residents, Oldest(c) + 1, Len(residents))
                                \o SubSeq(residents, 1, Oldest(c) - 1)
              /\ UNCHANGED <<registry, pending, bounds>>
    /\ UNCHANGED sessions
Scan(c) ==
    /\ call[c].pc = "scan"
    /\ IF call[c].left = 0 \/ Candidates(c) = {}
         THEN Return(c) /\ UNCHANGED residents          \* AgentLimitReached
         ELSE /\ call' = [call EXCEPT ![c].cand = residents[Oldest(c)], ![c].pc = "check",
                                      ![c].left = @ - 1]
              /\ residents' = SubSeq(residents, Oldest(c) + 1, Len(residents))
                                \o SubSeq(residents, 1, Oldest(c) - 1)
              /\ UNCHANGED <<registry, pending, bounds>>
    /\ UNCHANGED sessions

\* The three awaits of is_unloadable read the status, the turn and the mailbox one
\* after the other; the model reads them together, right before the decision.
\* is_unloadable sees the mailbox, not the queue of submissions; a session that was
\* shut down is not unloadable either.
Unloadable(t) == run[t] = "done" /\ mail[t] = {}

Check_Forgets(c) ==
    /\ call[c].pc = "check"
    /\ LET t == call[c].cand IN
         IF t \in loaded /\ Unloadable(t)
           THEN call' = [call EXCEPT ![c].pc = "shutdown", ![c].gen = gen[t]]
           ELSE call' = [call EXCEPT ![c].pc = "scan", ![c].cand = None]
    /\ UNCHANGED <<registry, residency, sessions, bounds>>
Check(c) ==
    /\ call[c].pc = "check"
    /\ LET t == call[c].cand IN
         \/ /\ t \notin loaded
            /\ call' = [call EXCEPT ![c].pc = "scan", ![c].cand = None]
            /\ UNCHANGED residents
         \/ /\ t \in loaded /\ ~Unloadable(t)
            /\ call' = [call EXCEPT ![c].pc = "scan", ![c].cand = None]
            /\ Touch(t)
         \/ /\ t \in loaded /\ Unloadable(t)
            /\ call' = [call EXCEPT ![c].pc = "shutdown", ![c].gen = gen[t]]
            /\ UNCHANGED residents
    /\ UNCHANGED <<registry, pending, sessions, bounds>>

\* The session the call holds a handle of has ended.
Ended(c) == run[call[c].cand] = "down" \/ gen[call[c].cand] # call[c].gen

\* shutdown_and_wait: submit Shutdown (a dead session counts as shut down) ...
SubmitShutdown(c) ==
    /\ call[c].pc = "shutdown"
    /\ Goto(c, "await")
    /\ queue' = IF Ended(c) THEN queue
                ELSE [queue EXCEPT ![call[c].cand] = Append(@, "shutdown")]
    /\ UNCHANGED <<registry, residency, loaded, run, gen, mail, created, lost, bounds>>

\* ... and wait for the session loop to end.  Whatever thread has the id by then is
\* removed, and the reservation tried again.
Unload(c) ==
    /\ call[c].pc = "await" /\ Ended(c)
    /\ RemoveThread(call[c].cand)
    /\ call' = [call EXCEPT ![c].pc = "reserve", ![c].cand = None, ![c].gen = 0, ![c].left = 0]
    /\ UNCHANGED <<registry, residency, bounds>>

-----------------------------------------------------------------------------
(* The thread is created or resumed, and the reservations are committed *)

\* reserve_spawn_slot (unlimited for V2) and reserve_agent_path.  The awaits between the
\* two read what the agent inherits; a call that is aborted there gives back the one
\* slot that only it knows of, as if it had not come this far.
Prepare(c) ==
    /\ call[c].pc = "prepare"
    /\ IF tree[call[c].path] # Free
         THEN Return(c)                                  \* the path already exists
         ELSE /\ total' = total + 1
              /\ tree' = [tree EXCEPT ![call[c].path] = Reserved]
              /\ call' = [call EXCEPT ![c].reserved = TRUE, ![c].pc = "create"]
              /\ UNCHANGED <<pathOf, pending, bounds>>
    /\ UNCHANGED <<residents, sessions>>

\* spawn_new_thread_with_source, resume_thread_with_history_with_source.
Create(c) ==
    /\ call[c].pc = "create"
    /\ LET t == IF call[c].spawn THEN created + 1 ELSE call[c].thread IN
         /\ t \in Threads \ loaded
         /\ StartThread(t)
         /\ call' = [call EXCEPT ![c].thread = t, ![c].pc = "commit"]
    /\ UNCHANGED <<registry, residency, bounds>>

\* Creating or resuming fails; an agent another call has loaded will do.
CreateFails(c) ==
    /\ call[c].pc = "create"
    /\ IF call[c].thread \in loaded
         THEN /\ pending' = pending - 1 /\ Touch(call[c].thread)
              /\ call' = [call EXCEPT ![c].slot = FALSE, ![c].pc = "capacity"]
              /\ UNCHANGED <<registry, bounds>>
         ELSE Return(c) /\ UNCHANGED residents
    /\ UNCHANGED sessions

\* SpawnReservation::commit and V2ResidencySlot::commit.
Commit(c) ==
    /\ call[c].pc = "commit"
    /\ LET t == call[c].thread IN
         /\ pending' = pending - 1 /\ Touch(t)
         /\ IF call[c].spawn
              THEN /\ tree' = [tree EXCEPT ![call[c].path] = t]
                   /\ pathOf' = [pathOf EXCEPT ![t] = call[c].path]
              ELSE UNCHANGED <<tree, pathOf>>
    /\ call' = [call EXCEPT ![c].slot = FALSE, ![c].reserved = FALSE,
                            ![c].pc = IF call[c].spawn THEN "submit" ELSE "capacity"]
    /\ UNCHANGED <<total, sessions, bounds>>

-----------------------------------------------------------------------------
(* send_inter_agent_communication *)

\* A message that starts a turn needs capacity, unless the agent runs one.
CheckCapacity(c) ==
    /\ call[c].pc = "capacity"
    /\ IF \/ call[c].msg # "followup"
          \/ call[c].thread \in loaded /\ (run[call[c].thread] = "turn" \/ HasCapacity)
         THEN Goto(c, "submit") /\ UNCHANGED <<registry, pending, bounds>>
         ELSE Return(c)
    /\ UNCHANGED <<residents, sessions>>

\* send_op.
Submit(c) ==
    /\ call[c].pc = "submit"
    /\ LET t == call[c].thread IN
         \/ /\ t \notin loaded                           \* ThreadNotFound
            /\ Return(c) /\ UNCHANGED <<residents, sessions>>
         \/ /\ t \in loaded /\ run[t] # "down"
            /\ queue' = [queue EXCEPT ![t] = Append(@, call[c].msg)]
            /\ Return(c)
            /\ UNCHANGED <<residents, loaded, run, gen, mail, created, lost>>
         \/ /\ t \in loaded /\ run[t] = "down"           \* InternalAgentDied
            /\ Goto(c, "died")
            /\ UNCHANGED <<registry, residency, sessions, bounds>>

\* handle_thread_request_result: forget an agent that died.
Died_CountsTwice(c) ==
    /\ call[c].pc = "died"
    /\ LET t == call[c].thread IN
         /\ RemoveThread(t)
         /\ residents' = Without(t)
         /\ total' = total - 1
         /\ tree' = IF Registered(t) THEN [tree EXCEPT ![pathOf[t]] = Free] ELSE tree
         /\ pathOf' = [pathOf EXCEPT ![t] = None]
    /\ call' = [call EXCEPT ![c] = Idle]
    /\ UNCHANGED <<pending, bounds>>
Died(c) ==
    /\ call[c].pc = "died"
    /\ LET t == call[c].thread IN
         /\ RemoveThread(t)
         /\ residents' = Without(t)
         /\ total' = IF Registered(t) THEN total - 1 ELSE total
         /\ tree' = IF Registered(t) THEN [tree EXCEPT ![pathOf[t]] = Free] ELSE tree
         /\ pathOf' = [pathOf EXCEPT ![t] = None]
    /\ call' = [call EXCEPT ![c] = Idle]
    /\ UNCHANGED <<pending, bounds>>

\* The turn that made the call is interrupted; the call is dropped at its await.
Cancel(c) ==
    /\ call[c].pc # "idle" /\ cancels < MaxCancels
    /\ cancels' = cancels + 1
    /\ DropHeld(c)
    /\ call' = [call EXCEPT ![c] = Idle]
    /\ UNCHANGED <<residents, sessions, ops>>

-----------------------------------------------------------------------------
(* The session of a thread *)

\* The submission loop.  Mail that asks for a turn starts one on an idle session.
HandleMessage(t) ==
    /\ queue[t] # <<>> /\ Head(queue[t]) # "shutdown"
    /\ queue' = [queue EXCEPT ![t] = Tail(@)]
    /\ IF Head(queue[t]) = "followup" /\ run[t] # "turn"
         THEN /\ run' = [run EXCEPT ![t] = "turn"]
              /\ mail' = [mail EXCEPT ![t] = {}]         \* all of it is the turn's input
         ELSE /\ mail' = [mail EXCEPT ![t] = @ \union {Head(queue[t])}]
              /\ UNCHANGED run
    /\ UNCHANGED <<registry, residency, loaded, gen, created, lost, call, bounds>>

\* Shutdown aborts the turn and ends the loop.
HandleShutdown(t) ==
    /\ queue[t] # <<>> /\ Head(queue[t]) = "shutdown"
    /\ End(t)
    /\ UNCHANGED <<registry, residency, loaded, gen, created, call, bounds>>

\* A running turn takes its mail in.
TakeMail(t) ==
    /\ run[t] = "turn" /\ mail[t] # {}
    /\ mail' = [mail EXCEPT ![t] = {}]
    /\ UNCHANGED <<registry, residency, loaded, run, gen, queue, created, lost, call, bounds>>

\* The turn ends, completed, failed or interrupted; mail may ask for the next one.
TurnEnds(t) ==
    /\ run[t] = "turn"
    /\ IF "followup" \in mail[t]
         THEN mail' = [mail EXCEPT ![t] = {}] /\ UNCHANGED run
         ELSE run' = [run EXCEPT ![t] = "done"] /\ UNCHANGED mail
    /\ UNCHANGED <<registry, residency, loaded, gen, queue, created, lost, call, bounds>>

-----------------------------------------------------------------------------

Step(c) ==
    \/ Load(c) \/ Reserve(c) \/ Scan(c) \/ Check(c) \/ SubmitShutdown(c)
    \/ Unload(c) \/ Prepare(c) \/ Create(c) \/ CreateFails(c) \/ Commit(c)
    \/ CheckCapacity(c) \/ Submit(c) \/ Died(c)

Loop(t) == HandleMessage(t) \/ HandleShutdown(t)

Next ==
    \/ \E c \in Callers, p \in Paths : Spawn(c, p)
    \/ \E c \in Callers, t \in Threads, m \in Message : Send(c, t, m)
    \/ \E c \in Callers : Step(c) \/ Cancel(c)
    \/ \E t \in Threads : Loop(t) \/ TakeMail(t) \/ TurnEnds(t)

Spec == Init /\ [][Next]_vars

\* A call that is not dropped is polled until it returns, and a session loop runs
\* until it is shut down.  Turns need not end, calls need not be made.
FairSpec ==
    /\ Spec
    /\ \A c \in Callers : WF_vars(Step(c))
    /\ \A t \in Threads : WF_vars(Loop(t))

-----------------------------------------------------------------------------
(* Properties *)

\* The counters agree with what they count, whatever failed, died or was aborted:
\* total_count is the registered agents and the reservations in flight, pending_slots
\* the slots in flight, and no thread is a resident twice.
Accounting ==
    /\ total = Cardinality({t \in Threads : Registered(t)})
               + Cardinality({c \in Callers : call[c].reserved})
    /\ pending = Cardinality({c \in Callers : call[c].slot})
    /\ IsInjective(residents)

\* A path names one agent and an agent has one path; a path without an agent is
\* reserved by exactly one spawn in flight.
PathOwnership ==
    /\ \A p \in Paths, t \in Threads : tree[p] = t <=> pathOf[t] = p
    /\ \A p \in Paths :
         Cardinality({c \in Callers : call[c].reserved /\ call[c].path = p})
           = IF tree[p] = Reserved THEN 1 ELSE 0

\* The calls that have taken t off the residency list, or will put it there.
Holders(t) == {c \in Callers : \/ call[c].cand = t
                               \/ call[c].thread = t /\ call[c].pc = "commit"}

\* Until a call is aborted every loaded agent is on the residency list, or a call
\* holds it that puts it back, unloads it or adds it.  A loaded agent off the list
\* is never evicted again.
LoadedIsTracked ==
    cancels = 0 => \A t \in loaded : t \in Range(residents) \/ Holders(t) # {}

\* Slots are checked before victims return to the list, so more agents than Capacity
\* can be loaded: by at most one for each other call, and for each aborted one.  The
\* setting, Capacity + 1 with the root's slot, is documented as the "Maximum number of
\* spawned agent threads that can be open concurrently per session": two concurrent
\* calls keep it, three need not.
Overshoot ==
    Cardinality(loaded) <= Capacity + Cardinality(Callers) - 1 + cancels

\* No call waits for ever: not on a victim that keeps busy, not on a session that
\* another call shuts down, not on another call that waits for it.
CallsReturn == \A c \in Callers : call[c].pc # "idle" ~> call[c].pc = "idle"

\* A message that was accepted for an agent reaches it: no session ends with the
\* message in its queue or its mailbox.
MessageKept == ~lost
=============================================================================
