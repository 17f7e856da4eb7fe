---------------------------- MODULE TurnLifecycle ----------------------------
(***************************************************************************)
(* One session's turns: how a turn is started, steered, interrupted,       *)
(* replaced and finished, and where its input waits meanwhile.             *)
(* engine/core/src: tasks/mod.rs and tasks/regular.rs (the task of a       *)
(* turn), session/turn_input.rs, session/inject.rs and                     *)
(* session/input_queue.rs (its input), session/turn.rs (the sampling       *)
(* loop), session/handlers.rs (the operations).                            *)
(*                                                                         *)
(* Fibers: the submission loop, which handles one operation at a time; the *)
(* circuit breaker's abort task; and one task per turn, named after the    *)
(* turn, which after detaching itself may go on to start the next turn.    *)
(* They share the active turn and the mailbox, each behind its own lock.   *)
(* An action is one stretch of a fiber up to the next lock another fiber   *)
(* may win; a task that has been aborted stops between two actions.        *)
(***************************************************************************)
EXTENDS Naturals, Sequences

CONSTANTS
    Turns,          \* turn ids (sub_id), given out in increasing order
    Inputs,         \* user inputs, each submitted at most once
    Mails,          \* inter-agent communications, each sent at most once
    TriggerMails,   \* the mails with trigger_turn set
    Injections,     \* response items injected from outside a turn
    Sleeping,       \* has_outstanding_durable_sleep: any mail wakes the thread
    Budgets,        \* bound: how many operations of each kind happen
    MaxSamples,     \* bound: follow-up samplings and hook stops of a turn
    Loop, Breaker,  \* the two fibers that are not turn tasks
    None

Operations == {"start", "steer", "startIfIdle", "shell", "compact",
               "interrupt", "mail", "inject", "break"}

ASSUME TurnsAssumption == Turns \subseteq Nat /\ Turns # {}
ASSUME MailsAssumption == TriggerMails \subseteq Mails
ASSUME BudgetAssumption == Budgets \subseteq [Operations -> Nat]
ASSUME BoundAssumption == MaxSamples \in Nat /\ Sleeping \in BOOLEAN

Items == Inputs \cup Mails \cup Injections
Fibers == Turns \cup {Loop, Breaker}

\* A TurnState is created with the ActiveTurn that holds it: by a reservation,
\* or by get_or_insert_with in the first or the second half of start_task.
TurnStates == Turns \X {"reserve", "prepare", "install"}

ASSUME FibersAssumption ==
    /\ Loop \notin Turns /\ Breaker \notin Turns /\ Loop # Breaker
    /\ None \notin Fibers /\ None \notin TurnStates

VARIABLES
    active,     \* Session.active_turn: [ts, task], both None when idle
    pending,    \* [TurnStates -> Seq(Items)]: TurnState.pending_input
    phase,      \* [TurnStates -> MailboxDeliveryPhase]
    mailbox,    \* InputQueue.mailbox_pending_mails
    recorded,   \* the items run_hooks_and_record_inputs has dealt with, in
                \* order: in the history, or refused by a prompt hook
    kind,       \* [Turns -> kind of task, "none" while the id is unused]
    input,      \* [Turns -> Seq(Items)]: the input the task was started with
    cancelled,  \* [Turns -> BOOLEAN]: the task's cancellation token
    samples,    \* [Turns -> follow-up samplings and hook stops so far]
    pc,         \* [Fibers -> where the fiber is]
    starting,   \* [Fibers -> turn the fiber is starting]
    ts,         \* [Fibers -> TurnState the fiber holds]
    held,       \* [Fibers -> Seq(Items)]: items the fiber has taken
    why,        \* [Fibers -> TurnAbortReason]
    victim,     \* [Fibers -> turn whose task the fiber is aborting]
    left,       \* operations that may still happen
    submitted,  \* history: items submitted so far
    steered,    \* history: the turn an input was steered into
    terminal    \* history: [Turns -> number of TurnComplete/TurnAborted]

inbox == <<pending, phase, mailbox>>
task == <<kind, input, cancelled, samples>>
frame == <<starting, ts, held, why, victim>>
env == <<left, submitted, steered>>
vars == <<active, inbox, recorded, task, pc, frame, env, terminal>>

Idle == [ts |-> None, task |-> None]

Init ==
    /\ active = Idle
    /\ pending = [s \in TurnStates |-> <<>>]
    /\ phase = [s \in TurnStates |-> "CurrentTurn"]
    /\ mailbox = <<>>
    /\ recorded = <<>>
    /\ kind = [t \in Turns |-> "none"]
    /\ input = [t \in Turns |-> <<>>]
    /\ cancelled = [t \in Turns |-> FALSE]
    /\ samples = [t \in Turns |-> 0]
    /\ pc = [f \in Fibers |-> IF f \in Turns THEN "none" ELSE "idle"]
    /\ starting = [f \in Fibers |-> None]
    /\ ts = [f \in Fibers |-> None]
    /\ held = [f \in Fibers |-> <<>>]
    /\ why = [f \in Fibers |-> "Replaced"]
    /\ victim = [f \in Fibers |-> None]
    /\ left \in Budgets
    /\ submitted = {}
    /\ steered = [i \in Inputs |-> None]
    /\ terminal = [t \in Turns |-> 0]

Elements(s) == {s[n] : n \in DOMAIN s}
HasTrigger == \E m \in Elements(mailbox) : m \in TriggerMails
\* maybe_start_turn_for_pending_work's condition: mail that may wake a thread.
HasPendingWork == mailbox # <<>> /\ (HasTrigger \/ Sleeping)

Goto(f, label) == pc' = [pc EXCEPT ![f] = label]
\* What the fiber does after its last step: the submission loop takes the next
\* operation, a turn's task ends.
Return(f) == IF f \in Turns THEN "ended" ELSE "idle"

\* The next unused turn id.
Fresh(t) == /\ kind[t] = "none"
            /\ \A u \in Turns : u < t => kind[u] # "none"

Spend(op) == left[op] > 0 /\ left' = [left EXCEPT ![op] = @ - 1]
\* The loop picks up the next submission.
Handle(op) == pc[Loop] = "idle" /\ Spend(op)
Submit(i) == i \notin submitted /\ submitted' = submitted \cup {i}
CreateTurn(f, t, k, items) ==
    /\ Fresh(t)
    /\ kind' = [kind EXCEPT ![t] = k]
    /\ input' = [input EXCEPT ![t] = items]
    /\ starting' = [starting EXCEPT ![f] = t]
    /\ UNCHANGED <<cancelled, samples>>

-----------------------------------------------------------------------------
(* Operations of the submission loop.  A request that is refused changes   *)
(* nothing and is left out.                                                *)

\* extend_pending_input_and_accept_mailbox_delivery_for_turn_state on the
\* active turn.
AppendToActive(i) ==
    /\ pending' = [pending EXCEPT ![active.ts] = Append(@, i)]
    /\ phase' = [phase EXCEPT ![active.ts] = "CurrentTurn"]
    /\ UNCHANGED mailbox

\* steer_input: a running regular task takes the input.
Steer(i) ==
    /\ Handle("steer")
    /\ active.task # None
    /\ kind[active.task] # "compact"
    /\ Submit(i)
    /\ AppendToActive(i)
    /\ steered' = [steered EXCEPT ![i] = active.task]
    /\ UNCHANGED <<active, recorded, task, pc, frame, terminal>>

\* Bug: starts without aborting what runs.
Spawn_NoAbort(t, k, items) ==
    /\ CreateTurn(Loop, t, k, items)
    /\ why' = [why EXCEPT ![Loop] = "Replaced"]
    /\ Goto(Loop, "prepare")
    /\ UNCHANGED <<active, inbox, recorded, ts, held, victim, steered,
                   terminal>>

\* spawn_task: abort what is running, then start_task.
Spawn(t, k, items) ==
    /\ CreateTurn(Loop, t, k, items)
    /\ why' = [why EXCEPT ![Loop] = "Replaced"]
    /\ Goto(Loop, "abort")
    /\ UNCHANGED <<active, inbox, recorded, ts, held, victim, steered,
                   terminal>>

\* start_or_steer when steering finds no running task.
StartTurn(i, t) ==
    /\ Handle("start")
    /\ active.task = None
    /\ Submit(i)
    /\ Spawn(t, "regular", <<i>>)

\* run_user_shell_command while no task runs (beside a running task it only
\* spawns a helper that injects its output).
RunUserShell(t) ==
    /\ Handle("shell")
    /\ active.task = None
    /\ Spawn(t, "shell", <<>>)
    /\ UNCHANGED submitted

\* compact and review: they replace whatever runs and cannot be steered.
Compact(t) ==
    /\ Handle("compact")
    /\ Spawn(t, "compact", <<>>)
    /\ UNCHANGED submitted

\* interrupt_task.
Interrupt ==
    /\ Handle("interrupt")
    /\ why' = [why EXCEPT ![Loop] = "Interrupted"]
    /\ Goto(Loop, "abort")
    /\ UNCHANGED <<active, inbox, recorded, task, starting, ts, held, victim,
                   submitted, steered, terminal>>

\* inter_agent_communication.
Mail(m) ==
    /\ Handle("mail")
    /\ Submit(m)
    /\ mailbox' = Append(mailbox, m)
    /\ IF m \in TriggerMails \/ Sleeping THEN Goto(Loop, "check")
                                         ELSE UNCHANGED pc
    /\ UNCHANGED <<active, pending, phase, recorded, task, frame, steered,
                   terminal>>

\* An ActiveTurn without a task, to keep others from starting a turn.
Reserve(f, t) ==
    /\ active = Idle
    /\ active' = [ts |-> <<t, "reserve">>, task |-> None]
    /\ ts' = [ts EXCEPT ![f] = <<t, "reserve">>]

\* start_if_idle up to the reservation.  A user input starts the task; an
\* automatic response item is put into the pending input of the reservation.
StartIfIdle(i, t) ==
    /\ Handle("startIfIdle")
    /\ ~HasTrigger
    /\ Submit(i)
    /\ Reserve(Loop, t)
    /\ CreateTurn(Loop, t, "regular", IF i \in Inputs THEN <<i>> ELSE <<>>)
    /\ held' = [held EXCEPT ![Loop] = IF i \in Inputs THEN <<>> ELSE <<i>>]
    /\ Goto(Loop, "recheck")
    /\ UNCHANGED <<inbox, recorded, why, victim, steered, terminal>>

\* clear_reserved_idle_turn, and the last step of on_task_finished.
ReservedBy(f) == active = [ts |-> ts[f], task |-> None]
\* Bug: clears whatever turn is active by now.
ClearReservation_Any(f) == active' = Idle
ClearReservation(f) == active' = IF ReservedBy(f) THEN Idle ELSE active

\* start_if_idle after the reservation: mail or refused settings give the
\* reservation up.
StartIfIdleGivesUp ==
    /\ pc[Loop] = "recheck"
    /\ ClearReservation(Loop)
    /\ held' = [held EXCEPT ![Loop] = <<>>]
    /\ Goto(Loop, IF HasTrigger THEN "check" ELSE "idle")
    /\ UNCHANGED <<inbox, recorded, task, starting, ts, why, victim, env,
                   terminal>>

StartIfIdleCommits ==
    /\ pc[Loop] = "recheck"
    /\ ~HasTrigger
    /\ pending' = [pending EXCEPT ![ts[Loop]] = @ \o held[Loop]]
    /\ held' = [held EXCEPT ![Loop] = <<>>]
    /\ Goto(Loop, "prepare")
    /\ UNCHANGED <<active, phase, mailbox, recorded, task, starting, ts, why,
                   victim, env, terminal>>

\* inject_no_new_turn, from any thread: into the active turn, running or not,
\* else straight into history.
Inject(i) ==
    /\ Spend("inject")
    /\ Submit(i)
    /\ IF active # Idle
       THEN AppendToActive(i) /\ UNCHANGED recorded
       ELSE recorded' = Append(recorded, i) /\ UNCHANGED inbox
    /\ UNCHANGED <<active, task, pc, frame, steered, terminal>>

-----------------------------------------------------------------------------
(* Aborting a turn: abort_all_tasks, abort_turn_if_active,                 *)
(* handle_task_abort.                                                      *)

\* Take the active turn and cancel its task.
TakeAndCancel(f) ==
    /\ active' = Idle
    /\ victim' = [victim EXCEPT ![f] = active.task]
    /\ ts' = [ts EXCEPT ![f] = active.ts]
    /\ cancelled' = [cancelled EXCEPT ![active.task] = TRUE]
    /\ UNCHANGED <<kind, input, samples>>

\* take_active_turn in abort_all_tasks; an ActiveTurn without a task is
\* dropped.
TakeActiveTurn ==
    /\ pc[Loop] = "abort"
    /\ IF active.task # None
       THEN TakeAndCancel(Loop) /\ Goto(Loop, "kill")
       ELSE /\ active' = Idle
            /\ Goto(Loop, IF why[Loop] = "Replaced" THEN "prepare" ELSE "idle")
            /\ UNCHANGED <<task, ts, victim>>
    /\ UNCHANGED <<inbox, recorded, starting, held, why, env, terminal>>

\* abort_turn_if_active, spawned when the review circuit breaker trips in t.
BreakTurn(t) ==
    /\ pc[Breaker] = "idle"
    /\ Spend("break")
    /\ active.task = t
    /\ TakeAndCancel(Breaker)
    /\ why' = [why EXCEPT ![Breaker] = "Interrupted"]
    /\ Goto(Breaker, "kill")
    /\ UNCHANGED <<inbox, recorded, starting, held, submitted, steered,
                   terminal>>

\* Bug: the task is cancelled but its handle is not aborted.
KillTask_NoAbort(f) ==
    /\ pc[f] = "kill"
    /\ Goto(f, IF why[f] = "Replaced" THEN "prepare" ELSE "check")
    /\ terminal' = [terminal EXCEPT ![victim[f]] = @ + 1]
    /\ pending' = [pending EXCEPT ![ts[f]] = <<>>]
    /\ UNCHANGED <<active, phase, mailbox, recorded, task, frame, env>>

\* Bug: no TurnAborted for a turn that is being replaced.
KillTask_SilentReplace(f) ==
    /\ pc[f] = "kill"
    /\ pc' = [pc EXCEPT ![victim[f]] = "ended",
                        ![f] = IF why[f] = "Replaced" THEN "prepare"
                                                      ELSE "check"]
    /\ terminal' = IF why[f] = "Replaced" THEN terminal
                   ELSE [terminal EXCEPT ![victim[f]] = @ + 1]
    /\ pending' = [pending EXCEPT ![ts[f]] = <<>>]
    /\ UNCHANGED <<active, phase, mailbox, recorded, task, frame, env>>

\* The task has ended by itself or the grace period is over: abort its handle,
\* send TurnAborted, clear its pending input.
KillTask(f) ==
    /\ pc[f] = "kill"
    /\ pc' = [pc EXCEPT ![victim[f]] = "ended",
                        ![f] = IF why[f] = "Replaced" THEN "prepare"
                                                      ELSE "check"]
    /\ terminal' = [terminal EXCEPT ![victim[f]] = @ + 1]
    /\ pending' = [pending EXCEPT ![ts[f]] = <<>>]
    /\ UNCHANGED <<active, phase, mailbox, recorded, task, frame, env>>

-----------------------------------------------------------------------------
(* Starting a turn: maybe_start_turn_for_pending_work and start_task.      *)

CheckPendingWork(f) ==
    /\ pc[f] = "check"
    /\ Goto(f, IF HasPendingWork THEN "reserve" ELSE Return(f))
    /\ UNCHANGED <<active, inbox, recorded, task, frame, env, terminal>>

ReserveForPendingWork(f, t) ==
    /\ pc[f] = "reserve"
    /\ Reserve(f, t)
    /\ CreateTurn(f, t, "regular", <<>>)
    /\ Goto(f, "collect")
    /\ UNCHANGED <<inbox, recorded, held, why, victim, env, terminal>>

NotIdle(f) ==
    /\ pc[f] = "reserve"
    /\ active # Idle
    /\ Goto(f, Return(f))
    /\ UNCHANGED <<active, inbox, recorded, task, frame, env, terminal>>

\* get_pending_input: the pending input of whatever turn is active, then the
\* mailbox, unless that turn left its mail to the next one.
Accepting == active = Idle \/ phase[active.ts] = "CurrentTurn"
\* Bug: the pending input is copied instead of split off.
GetPendingInput_Copies(f) ==
    IF Accepting
    THEN /\ held' = [held EXCEPT ![f] = IF active = Idle THEN mailbox
                                        ELSE pending[active.ts] \o mailbox]
         /\ mailbox' = <<>>
         /\ UNCHANGED pending
    ELSE UNCHANGED <<held, pending, mailbox>>
GetPendingInput(f) ==
    IF Accepting
    THEN /\ held' = [held EXCEPT ![f] = IF active = Idle THEN mailbox
                                        ELSE pending[active.ts] \o mailbox]
         /\ pending' = IF active = Idle THEN pending
                       ELSE [pending EXCEPT ![active.ts] = <<>>]
         /\ mailbox' = <<>>
    ELSE UNCHANGED <<held, pending, mailbox>>
HasPendingInput ==
    Accepting /\ (mailbox # <<>> \/ (active # Idle /\ pending[active.ts] # <<>>))

CollectPendingWork(f) ==
    /\ pc[f] = "collect"
    /\ GetPendingInput(f)
    /\ Goto(f, "stash")
    /\ UNCHANGED <<active, phase, recorded, task, starting, ts, why, victim,
                   env, terminal>>

\* The turn context exists now; the mail goes into the reserved turn state.
StashPendingWork(f) ==
    /\ pc[f] = "stash"
    /\ pending' = [pending EXCEPT ![ts[f]] = @ \o held[f]]
    /\ held' = [held EXCEPT ![f] = <<>>]
    /\ Goto(f, "prepare")
    /\ UNCHANGED <<active, phase, mailbox, recorded, task, starting, ts, why,
                   victim, env, terminal>>

\* Bug: the active turn is used without being inserted first.
GetOrInsert_GetOnly(f, half) == active
\* active.get_or_insert_with(ActiveTurn::default)
GetOrInsert(f, half) == IF active = Idle
                        THEN [ts |-> <<starting[f], half>>, task |-> None]
                        ELSE active

\* First half of start_task: the mailbox goes into the turn's pending input.
PrepareTask(f) ==
    /\ pc[f] = "prepare"
    /\ active' = GetOrInsert(f, "prepare")
    /\ pending' = [pending EXCEPT ![active'.ts] = @ \o mailbox]
    /\ mailbox' = <<>>
    /\ Goto(f, "install")
    /\ UNCHANGED <<phase, recorded, task, frame, env, terminal>>

\* Second half: spawn the task and install it.  A task it overwrites is
\* dropped, and with it the handle that aborts the task.
InstallTask(f) ==
    /\ pc[f] = "install"
    /\ active' = [GetOrInsert(f, "install") EXCEPT !.task = starting[f]]
    /\ pc' = [t \in Fibers |-> IF t = f THEN Return(f)
                               ELSE IF t = starting[f] THEN "begin"
                               ELSE IF t = active.task THEN "ended"
                               ELSE pc[t]]
    /\ starting' = [starting EXCEPT ![f] = None]
    /\ UNCHANGED <<inbox, recorded, task, ts, held, why, victim, env, terminal>>

-----------------------------------------------------------------------------
(* The task of a turn: RegularTask::run, run_turn, and the end of every    *)
(* task in start_task and on_task_finished.                                *)

CountSample(t) ==
    /\ samples[t] < MaxSamples
    /\ samples' = [samples EXCEPT ![t] = @ + 1]

\* A compaction, a review or a shell command never looks at pending input.
RunOtherTask(t) ==
    /\ pc[t] = "begin"
    /\ kind[t] # "regular"
    /\ Goto(t, "flush")
    /\ UNCHANGED <<active, inbox, recorded, task, frame, env, terminal>>

\* run_turn gives up before it has recorded the input it was started with: the
\* pre-sampling compaction fails, or a session-start hook stops the turn.
FailBeforeRecording(t) ==
    /\ pc[t] = "begin"
    /\ kind[t] = "regular"
    /\ input' = [input EXCEPT ![t] = <<>>]
    /\ \/ Goto(t, "flush") /\ UNCHANGED samples
       \/ Goto(t, "again") /\ CountSample(t)
    /\ UNCHANGED <<active, inbox, recorded, kind, cancelled, frame, env,
                   terminal>>

\* run_turn records the input it was started with, also when it is cancelled.
\* Pending input is drained before the first sampling only if there was none.
\* A prompt hook that refuses all of it ends this run_turn.
RecordStartInput(t) ==
    /\ pc[t] = "begin"
    /\ kind[t] = "regular"
    /\ recorded' = recorded \o input[t]
    /\ input' = [input EXCEPT ![t] = <<>>]
    /\ \/ Goto(t, IF input[t] = <<>> THEN "drain" ELSE "sample")
       \/ input[t] # <<>> /\ Goto(t, "again")
       \/ cancelled[t] /\ Goto(t, "flush")
    /\ UNCHANGED <<active, inbox, kind, cancelled, samples, frame, env,
                   terminal>>

DrainPendingInput(t) ==
    /\ pc[t] = "drain"
    /\ GetPendingInput(t)
    /\ Goto(t, "record")
    /\ UNCHANGED <<active, phase, recorded, task, starting, ts, why, victim,
                   env, terminal>>

\* run_hooks_and_record_inputs; a hook may stop the turn here too.
RecordPendingInput(t) ==
    /\ pc[t] = "record"
    /\ recorded' = recorded \o held[t]
    /\ held' = [held EXCEPT ![t] = <<>>]
    /\ \/ Goto(t, "sample")
       \/ held[t] # <<>> /\ Goto(t, "again")
    /\ UNCHANGED <<active, inbox, task, starting, ts, why, victim, env,
                   terminal>>

\* accept_mailbox_delivery_for_current_turn: a tool call, or a follow-up.
AcceptDelivery(t) ==
    phase' = IF active.task = t
             THEN [phase EXCEPT ![active.ts] = "CurrentTurn"] ELSE phase

\* run_sampling_request: the request goes out and its answer streams in.
SendRequest(t) ==
    /\ pc[t] = "sample"
    /\ Goto(t, "stream")
    /\ UNCHANGED <<active, inbox, recorded, task, frame, env, terminal>>

\* The answer streams in; once it has called a tool it needs a follow-up.
Streaming == {"stream", "tools"}

\* Queue-only mail waits for the next turn; anything else still needs this one.
QueueOnly(s) == Elements(s) \subseteq Mails \ TriggerMails
\* A visible answer is complete, in mid-stream: the turn is closed to late mail
\* (defer_mailbox_delivery_to_next_turn).
StreamAnswer(t) ==
    /\ pc[t] \in Streaming
    /\ active.task = t
    /\ QueueOnly(pending[active.ts])
    /\ phase' = [phase EXCEPT ![active.ts] = "NextTurn"]
    /\ UNCHANGED <<active, pending, mailbox, recorded, task, pc, frame, env,
                   terminal>>

\* A tool call is complete and runs; one that is answered at once
\* (RespondToModel) leaves the delivery phase alone.
StreamToolCall(t) ==
    /\ pc[t] \in Streaming
    /\ AcceptDelivery(t) \/ UNCHANGED phase
    /\ Goto(t, "tools")
    /\ UNCHANGED <<active, pending, mailbox, recorded, task, frame, env,
                   terminal>>

\* The stream breaks with a retryable error and the request is sent again,
\* whatever the broken stream did to the delivery phase.
RetryStream(t) ==
    /\ pc[t] \in Streaming
    /\ Goto(t, "stream")
    /\ UNCHANGED <<active, inbox, recorded, task, frame, env, terminal>>

\* The model called tools, wants another request, or was cut short by mail.  If
\* that needs a new context window, the continuation is sampled before any
\* pending input, and the compaction may fail or a session-start hook stop the
\* turn.
SampleFollowUp(t) ==
    /\ pc[t] \in Streaming
    /\ CountSample(t)
    /\ AcceptDelivery(t)
    /\ \E next \in {"drain", "sample", "again", "flush"} : Goto(t, next)
    /\ UNCHANGED <<active, pending, mailbox, recorded, kind, input, cancelled,
                   frame, env, terminal>>

\* The response is completed and needs no follow-up.
SampleAnswer(t) ==
    /\ pc[t] = "stream"
    /\ Goto(t, "decide")
    /\ UNCHANGED <<active, inbox, recorded, task, frame, env, terminal>>

\* An error that is not retried (any more), or the cancellation was observed.
SampleFails(t) ==
    /\ pc[t] \in Streaming
    /\ Goto(t, "flush")
    /\ UNCHANGED <<active, inbox, recorded, task, frame, env, terminal>>

\* After an answer: sample again if input came in meanwhile, unless the new
\* context window this needs cannot be had or a session-start hook stops it.
Decide(t) ==
    /\ pc[t] = "decide"
    /\ IF HasPendingInput
       THEN \/ \E next \in {"drain", "flush"} : Goto(t, next)
               /\ UNCHANGED samples
            \/ Goto(t, "again") /\ CountSample(t)
       ELSE Goto(t, "again") /\ UNCHANGED samples
    /\ UNCHANGED <<active, inbox, recorded, kind, input, cancelled, frame, env,
                   terminal>>

\* Bug: the turn goes on without accepting mail again.
StopHookBlocks_StaysClosed(t) ==
    /\ pc[t] = "decide"
    /\ ~HasPendingInput
    /\ CountSample(t)
    /\ Goto(t, "drain")
    /\ UNCHANGED <<active, inbox, recorded, kind, input, cancelled, frame, env,
                   terminal>>

\* A stop hook blocks the end of the turn with a prompt of its own.
StopHookBlocks(t) ==
    /\ pc[t] = "decide"
    /\ ~HasPendingInput
    /\ CountSample(t)
    /\ AcceptDelivery(t)
    /\ Goto(t, "drain")
    /\ UNCHANGED <<active, pending, mailbox, recorded, kind, input, cancelled,
                   frame, env, terminal>>

\* RegularTask::run's loop: input that came in since starts another run_turn.
RunAgain(t) ==
    /\ pc[t] = "again"
    /\ Goto(t, IF HasPendingInput THEN "begin" ELSE "flush")
    /\ UNCHANGED <<active, inbox, recorded, task, frame, env, terminal>>

\* The spawned future after run: a cancelled task does not finish its turn.
FlushTask(t) ==
    /\ pc[t] = "flush"
    /\ Goto(t, IF cancelled[t] THEN "ended" ELSE "finish")
    /\ UNCHANGED <<active, inbox, recorded, task, frame, env, terminal>>

\* on_task_finished: take the active turn's task, whichever it is.
FinishTask(t) ==
    /\ pc[t] = "finish"
    /\ IF active.task = None
       THEN Goto(t, "ended") /\ UNCHANGED <<active, ts>>
       ELSE /\ active' = [active EXCEPT !.task = None]
            /\ ts' = [ts EXCEPT ![t] = active.ts]
            /\ Goto(t, "report")
    /\ UNCHANGED <<inbox, recorded, task, starting, held, why, victim, env,
                   terminal>>

\* Bug: input that came after the last look is dropped with the turn state.
ReportCompletion_DropsInput(t) ==
    /\ pc[t] = "report"
    /\ pending' = [pending EXCEPT ![ts[t]] = <<>>]
    /\ terminal' = [terminal EXCEPT ![t] = @ + 1]
    /\ Goto(t, "clear")
    /\ UNCHANGED <<active, phase, mailbox, recorded, task, frame, env>>

\* Record the pending input that is left, then send TurnComplete.
ReportCompletion(t) ==
    /\ pc[t] = "report"
    /\ recorded' = recorded \o pending[ts[t]]
    /\ pending' = [pending EXCEPT ![ts[t]] = <<>>]
    /\ terminal' = [terminal EXCEPT ![t] = @ + 1]
    /\ Goto(t, "clear")
    /\ UNCHANGED <<active, phase, mailbox, task, frame, env>>

\* Bug: mail that came while the task was finishing starts no turn.
ClearActiveTurn_NoRestart(t) ==
    /\ pc[t] = "clear"
    /\ ClearReservation(t)
    /\ Goto(t, "ended")
    /\ UNCHANGED <<inbox, recorded, task, frame, env, terminal>>

\* Clear the active turn unless another took its place; then look for work.
ClearActiveTurn(t) ==
    /\ pc[t] = "clear"
    /\ ClearReservation(t)
    /\ Goto(t, IF ReservedBy(t) THEN "check" ELSE "ended")
    /\ UNCHANGED <<inbox, recorded, task, frame, env, terminal>>

-----------------------------------------------------------------------------
StartingStep(f) ==
    \/ KillTask(f) \/ CheckPendingWork(f) \/ NotIdle(f)
    \/ \E t \in Turns : ReserveForPendingWork(f, t)
    \/ CollectPendingWork(f) \/ StashPendingWork(f)
    \/ PrepareTask(f) \/ InstallTask(f)

\* What the model sends until its response is completed or fails for good.
StreamStep(t) == StreamAnswer(t) \/ StreamToolCall(t) \/ RetryStream(t)

Advance(t) ==
    \/ RunOtherTask(t) \/ FailBeforeRecording(t) \/ RecordStartInput(t)
    \/ DrainPendingInput(t) \/ RecordPendingInput(t) \/ SendRequest(t)
    \/ SampleFollowUp(t) \/ SampleAnswer(t) \/ SampleFails(t)
    \/ Decide(t) \/ StopHookBlocks(t) \/ RunAgain(t)
    \/ FlushTask(t) \/ FinishTask(t) \/ ReportCompletion(t)
    \/ ClearActiveTurn(t)

TaskStep(t) == Advance(t) \/ StreamStep(t)

LoopStep == TakeActiveTurn \/ StartIfIdleGivesUp \/ StartIfIdleCommits

Environment ==
    \/ \E i \in Inputs : Steer(i)
    \/ \E i \in Inputs, t \in Turns : StartTurn(i, t)
    \/ \E i \in Inputs \cup Injections, t \in Turns : StartIfIdle(i, t)
    \/ \E t \in Turns : RunUserShell(t) \/ Compact(t) \/ BreakTurn(t)
    \/ Interrupt
    \/ \E m \in Mails : Mail(m)
    \/ \E i \in Injections : Inject(i)

Next ==
    \/ Environment
    \/ LoopStep
    \/ \E f \in Fibers : StartingStep(f)
    \/ \E t \in Turns : TaskStep(t)

Spec == Init /\ [][Next]_vars

\* Every fiber that can go on does: a sampling ends, completed or after its last
\* retry, hooks and compactions end, and the grace period of an abort runs out.
\* Clients need not send anything.
FairSpec ==
    /\ Spec
    /\ WF_vars(LoopStep)
    /\ \A f \in Fibers : WF_vars(StartingStep(f))
    /\ \A t \in Turns : WF_vars(Advance(t))

-----------------------------------------------------------------------------
\* Where a fiber can be.
Labels == {"none", "idle", "abort", "recheck", "kill", "check", "reserve",
           "collect", "stash", "prepare", "install", "begin", "drain",
           "record", "sample", "stream", "tools", "decide", "again", "flush",
           "finish", "report", "clear", "ended"}

TypeOK ==
    /\ active \in {Idle} \cup [ts : TurnStates, task : Turns \cup {None}]
    /\ pending \in [TurnStates -> Seq(Items)]
    /\ phase \in [TurnStates -> {"CurrentTurn", "NextTurn"}]
    /\ mailbox \in Seq(Mails)
    /\ recorded \in Seq(Items)
    /\ kind \in [Turns -> {"none", "regular", "shell", "compact"}]
    /\ input \in [Turns -> Seq(Items)]
    /\ cancelled \in [Turns -> BOOLEAN]
    /\ samples \in [Turns -> 0..MaxSamples]
    /\ pc \in [Fibers -> Labels]
    /\ starting \in [Fibers -> Turns \cup {None}]
    /\ ts \in [Fibers -> TurnStates \cup {None}]
    /\ held \in [Fibers -> Seq(Items)]
    /\ why \in [Fibers -> {"Replaced", "Interrupted"}]
    /\ victim \in [Fibers -> Turns \cup {None}]
    /\ left \in [Operations -> Nat]
    /\ submitted \subseteq Items
    /\ steered \in [Inputs -> Turns \cup {None}]
    /\ terminal \in [Turns -> Nat]

-----------------------------------------------------------------------------
(* Safety.                                                                 *)

Working == {"begin", "drain", "record", "sample", "stream", "tools", "decide",
            "again", "flush", "finish"}

\* A task that is still working and was not cancelled is the active turn's
\* task.  So no two turns run at once, an interrupt reaches the turn that
\* runs, and a finishing task takes itself out of the active turn and not its
\* successor (spawn_task, abort_all_tasks, on_task_finished).
RunnerIsActive ==
    \A t \in Turns : pc[t] \in Working /\ ~cancelled[t] => active.task = t

\* No turn is reported finished twice: on_task_finished and handle_task_abort
\* race for the task of the active turn and only one of them reports.
OneTerminal == \A t \in Turns : terminal[t] <= 1

\* start_task never replaces a running task:
\* debug_assert!(turn.task.is_none()) in both of its halves.
StartFindsNoTask ==
    \A f \in Fibers : pc[f] \in {"prepare", "install"} => active.task = None

\* The lists an item can be in: the mailbox, the history, the pending input of
\* a turn, what a fiber has taken, the input a turn was started with.
Boxes == ({"mailbox", "recorded"} \X {None}) \cup ({"pending"} \X TurnStates)
         \cup ({"held"} \X Fibers) \cup ({"input"} \X Turns)
Box(b) == CASE b[1] = "mailbox"  -> mailbox
            [] b[1] = "recorded" -> recorded
            [] b[1] = "pending"  -> pending[b[2]]
            [] b[1] = "held"     -> held[b[2]]
            [] b[1] = "input"    -> input[b[2]]

\* An input, mail or injected item is in one place at a time and reaches the
\* history at most once, whichever fibers drain the mailbox and the pending
\* input concurrently (get_pending_input, start_task, on_task_finished).
ItemOnce ==
    \A a \in Boxes : \A m \in DOMAIN Box(a) :
        \A b \in Boxes : \A n \in DOMAIN Box(b) :
            Box(a)[m] = Box(b)[n] => a = b /\ m = n

\* An input that was accepted into a turn is in the history by the time the
\* turn reports completion, even if it came after the task's last look at its
\* pending input (steer_input against on_task_finished).
SteeredIsRecorded ==
    \A i \in Inputs : LET t == steered[i] IN
        (t # None /\ terminal[t] = 1 /\ ~cancelled[t])
            => i \in Elements(recorded)

\* A turn that has shown its final answer and left late mail to the next turn
\* makes no new request and looks for no more input: it finishes, or repeats
\* the request whose stream broke after the answer, unless new work reopens it
\* (MailboxDeliveryPhase, run_turn, RegularTask::run).  Otherwise it would go
\* on past the mail it no longer sees.
NoRequestWhenClosed ==
    \A t \in Turns : active.task = t /\ phase[active.ts] = "NextTurn"
        => pc[t] \in Streaming \cup {"decide", "again", "flush", "finish"}

-----------------------------------------------------------------------------
(* Liveness.                                                               *)

\* Every turn whose task was started is reported finished: it completes, is
\* interrupted or is replaced.
EveryTurnEnds == \A t \in Turns : pc[t] = "begin" ~> terminal[t] = 1

\* Mail that asks for a turn does not stay in the mailbox for ever.
MailIsTaken ==
    \A m \in TriggerMails : m \in Elements(mailbox) ~> m \notin Elements(mailbox)

\* Mail that asks for a turn reaches the history.
MailIsRecorded ==
    \A m \in TriggerMails : m \in submitted ~> m \in Elements(recorded)

=============================================================================
