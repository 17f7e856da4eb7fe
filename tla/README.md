# Hexa engine: TLA+ specifications

This directory models parts of the Hexa engine (`src/engine`, Rust): the
concurrent, stateful logic around a conversation thread.  It holds TLA+ modules,
TLC configurations for small instances, and proofs checked by TLAPS.
`PROJECT.json` lists the runs, the source lines behind every definition, the
hazards the properties are for, and the disagreements between code and
documentation that the models show.

## The system

A client (the terminal UI, the command line, the desktop shell, an IDE) speaks
JSON-RPC to the **app-server**.  Each connection's requests go through the
message processor, which queues them by the resource they name and runs their
handlers.  A thread is a **session** in `core`: a submission loop takes
operations one at a time; the work itself is done by one **task** per turn,
which samples the model, runs tools and records the conversation.  Sessions can
spawn sub-agents, which send each other mail.

| Component | State | Operations | Interaction | What is hard | What makes it correct |
|---|---|---|---|---|---|
| Request serialization (`app-server/src/request_serialization.rs`, `connection_rpc_gate.rs`) | a map from resource to queue, a drain task per queue, a gate per connection | enqueue, drain, admit reads, run under the gate, close, drain timeout | called by the connection loop; handlers run inside the drain task | tasks end while requests arrive, wake-ups, closing connections | conflicting requests never overlap or overtake; nobody is stranded; a drained connection is idle |
| Turn lifecycle (`core/src/tasks`, `session/turn.rs`, `session/handlers.rs`) | the active turn, its task, its cancellation token | start, steer, interrupt, replace, finish, start for mail | submission loop, turn tasks and the circuit breaker share one lock | every step awaits; the active turn may have changed meanwhile | one turn at a time, one terminal event per turn, every turn ends |
| Session input (`session/input_queue.rs`, `turn_input.rs`, `inject.rs`) | the mailbox, pending input and delivery phase of a turn | steer, mail, inject, drain, defer, accept | drained by whoever starts, runs or finishes a turn | several drains at once, input after the last look | nothing accepted is lost or recorded twice; mail gets a turn |
| Agent registry, residency and limits (`core/src/agent`) | paths, threads, a count; the residency list and its pending slots; running turns | reserve, commit, release, load, evict, check capacity, submit | tool calls of all agents of a session tree, sessions of the agents | checks, waits and commits are separate; calls are aborted at any await | no slot or path leaks, one owner per path, evictions end, accepted messages arrive |
| Readiness flag (`utils/readiness`) | tokens, a one-way bit | subscribe, mark, wait | tool calls wait for it | wrap-around, lost wake-up | waiters wake; no token after ready |
| Outgoing requests, thread status (`app-server/src/outgoing_message.rs`, `thread_status.rs`) | callbacks, per-thread status | send, answer, cancel, replay | clients and turn transitions | late answers | one answer per request |
| Unified exec, command exec, code mode cells | process tables, buffers | start, write, poll, terminate, prune | tool calls, connection cleanup | exit against poll, limit | no leak, no lost output |
| Memory jobs (`state/src/runtime/memories.rs`, `memories/write`) | job rows with leases, outputs, a git workspace | claim, heartbeat, complete, fail, select, reset the baseline, pollute, delete | several processes over one database | crashes, expired leases, threads that change meanwhile | results match their claim, stale threads are processed, forgotten ones leave |
| Queued items, rollout, history (`state`, `rollout`, `message-history`) | database rows and files | append, flush, trim | several processes | crashes | nothing written is lost |
| Remote control (`app-server-transport/src/transport/remote_control`) | sequence numbers, an outbound buffer, a client table, a cursor | number, split, buffer, replay, acknowledge; reassemble, open, deliver, close | the backend's websocket and the app-server's event channel | broken sockets, timeouts, aborted readers, retransmission | each stream in order, once; connections open and close properly |
| Exec server client (`exec-server`) | sessions over reconnecting sockets | send, resume, replay | network | loss and duplication | in-order, once |

The remaining parts (user interfaces, sandboxes, telemetry, configuration,
protocol types, model client, tools) are listed in `PROJECT.json` with the reason
they are left out: they are I/O, presentation, generated code or sequential data.

## Modules

| Module | Models |
|---|---|
| `SerializedRequests` | the promise: a request starts only after every earlier conflicting one has finished, and none starves |
| `RequestSerialization` | the queues, drain tasks and gates as they are coded; implements `SerializedRequests` |
| `RequestSerializationProofs` | theorems about `RequestSerialization` |
| `MCRequestSerialization` | its TLC instances |
| `TurnLifecycle` | turns and their input |
| `MCTurnLifecycle` | its TLC instances: which operations happen, how often |
| `ReliableStreams` | the promise of remote control towards the client: growing logs that arrive in order, without gaps, completely |
| `RemoteOutbound` | the server-to-client half as it is coded; implements `ReliableStreams` |
| `RemoteInbound` | the client-to-server half |
| `AgentResidency` | sub-agents: registry, residency list, execution limit |
| `MemoryJobs` | the memory pipeline's jobs, outputs and baseline |
| `MCRemoteOutbound`, `MCRemoteInbound`, `MCAgentResidency`, `MCMemoryJobs` | their TLC instances |
| `TurnLifecycleProofs`, `RemoteOutboundProofs`, `RemoteInboundProofs`, `AgentResidencyProofs`, `MemoryJobsProofs` | theorems about each of these models |
| `TurnMailProofs` | on top of `TurnLifecycleProofs`: the turn properties when mail starts turns |
| `RemoteDeliveryProofs` | on top of `RemoteInboundProofs`: no message of a stream is lost or repeated |

In all of them one action is what a task does between two awaits at which another
task could interfere: a critical section, a channel operation, a database
transaction.

### RequestSerialization

The map of queues and each gate are behind an async mutex that is held for one
critical section; one action is one critical section.

* `queue`, `present` and `changed` are the map entry of a key: the `VecDeque`,
  whether the entry exists, and whether its `Notify` holds a permit.
* `drain` and `batch` are the drain task a request's `enqueue` spawned (tasks are
  named after that request) and the futures the task is polling.
* `status` is a request's progress; `running` means it holds a gate token.
* `conn` is a connection and its cleanup task.
* `arrival`, `arrivals` are history variables for the properties.

`Enqueue` is `enqueue`, spawn included.  `PopExclusive`, `PopReads` and `PopNone`
are the top of `drain`; `Notified` and `AdmitReads` the two halves of its
`select!` arm, between which the task waits for the map's lock and polls nothing
(`Polled`).  `GateEnter`, `GateSkip` and `HandlerDone` are `ConnectionRpcGate::run`.
`ConnectionClosed`, `Drained` and `DrainTimeout` are the connection loop and
`MessageProcessor::connection_closed`.  The contents of a request are abstracted
to its scope.

### TurnLifecycle

Fibers are the submission loop, the circuit breaker's abort task and one task per
turn.  `pc` says where a fiber is; the labels follow the functions: `abort`,
`kill` (`abort_all_tasks`, `handle_task_abort`); `check`, `reserve`, `collect`,
`stash` (`maybe_start_turn_for_pending_work_with_sub_id`); `prepare`, `install`
(the two halves of `start_task`); `recheck` (`start_if_idle` after its
reservation); `begin`, `drain`, `record`, `sample`, `stream`, `tools`, `decide`,
`again` (`run_turn`, `run_sampling_request` and `RegularTask::run`); `flush`, `finish`, `report`, `clear` (the end of the
spawned future and `on_task_finished`).

* `active` is `Session.active_turn`: the turn state and the task, which may be
  absent (a reservation, or a turn that is finishing).
* `pending`, `phase`: `TurnState.pending_input` and `mailbox_delivery_phase`.
* `mailbox`: `InputQueue.mailbox_pending_mails`.
* `recorded`: what `run_hooks_and_record_inputs` has dealt with, in order.  An
  item a prompt hook refuses counts as dealt with.
* `cancelled`, `kind`, `input`, `samples`: the task.
* `starting`, `ts`, `held`, `why`, `victim`: local variables of a fiber.
* `submitted`, `steered`, `terminal`: history.  `left` is a bound: the operations
  that may still happen, one of the constant `Budgets` to start with.

What is merged or left out, and why it does not matter:

* A refused request changes nothing and has no action.
* `get_pending_input` takes the active turn's lock and then the mailbox's; the two
  are one action, as is the first half of `start_task` with its mailbox drain.
  What other fibers add in between only arrives as if a moment later.
* `handle_task_abort` after its `select!`, the terminal event and `clear_pending`
  are one action: nobody else can reach that turn state's input by then except
  the task that is being killed.
* An aborted task stops between two actions: these are its await points.
* A sampling is a request (`SendRequest`) and a stream of items whose order and number
  the model answers with: a complete answer closes the turn to mail in mid-stream
  (`StreamAnswer`), a tool call may reopen it (`StreamToolCall`); the stream completes
  (`SampleAnswer`, `SampleFollowUp`), fails for good (`SampleFails`) or breaks and the
  same request is sent again (`RetryStream`), with the delivery phase as the broken
  stream left it.  The number of retries is not counted: the phase is all that a retry
  carries over.
* Hooks and compactions are one action each, with a nondeterministic outcome.
* `compact` stands for compaction and review (neither can be steered); `shell` is
  a user shell command without a running turn (steerable, never drains).
* `debug_assert!` is off, as in a release build.
* Only the submission loop enqueues mail, so `start_if_idle`'s second look at the
  mailbox never finds new mail; its guard is kept.
* Not modelled: session shutdown, the realtime conversation, turn suspension,
  `inject_hook_context_if_running`, approvals and other waiters of a turn,
  turn-start options.

### RemoteOutbound

`nextSeq`, `buffer` and `used` are `WebsocketState.next_seq_id_by_stream` and the
`BoundedOutboundBuffer`; they outlive a connection.  `queue` is the channel from the
clients' outbound tasks.  `writer` and `batch` are the connection's writer task:
`replay` (the copy of the buffer it sends first), `idle` (its `select!`), `send`.
`wire` and `acks` are the websocket; `received` is what the backend has.  `Take` is
one turn of the writer's loop up to its first send: numbering, splitting and
inserting happen under one lock.  `TakeUnserializable` is the error path that drops
a message without using its number; a message too large to split is `Take(0)`, which
uses it.  `AckBuffer` is `BoundedOutboundBuffer::ack` with Rust's comparison of
`(seq_id, segment_id)` tuples.  A payload is its number of segments.  `Entries` are
the places of the buffer, and `Visits` the orders in which a replay may go through
them: one stream after the other as a hash map yields them, each in its own order.  The pongs of
the websocket itself and status notifications are left out.

### RemoteInbound

`at`, `env`, `conn`, `todo`, `gone` are the reader task: where it awaits, the
envelope it handles, the connection whose event it sends, the clients it has still
to close and the closed ones whose chunk state it has still to forget.  `clients` and
`lastSeq` are `ClientTracker.clients`; connection ids are positions in `keyOf`.
`cancelled`, `tasks`, `finished` are the connections' outbound tasks and the join
set; `closers` the detached tasks that send `ConnectionClosed`.  `backlog` is the
number of events in the channel to the app-server, `feed` the history of what was put
there.  `assembly` and `chunkDone` are the reassembler.  `HandleMessage` is
`handle_message` up to its first await; `OpenSent`, `MessageSent`, `CloseSent`,
`SendTimesOut` and `Record` are what follows each await; `Bookkeep` and `Sweep` the
other arms of the reader's `select!`.  An outbound task ends when it is cancelled
(`TaskEnds`) or, as a fault, when nobody holds the writer any more or the queue it
sends to is gone (`WriterGone`).  `Stop` ends the reader at its `select!` or,
after the grace period, wherever it awaits.  The backend keeps a log of envelopes and
sends again what lies behind the subscribed cursor.  `Steady` describes the logs of a
well-behaved client and backend: a stream's numbers do not decrease and have no gap,
the chunks of a message arrive together, and a stream is not initialized again directly
behind its own chunks; `MessagesWithoutGap` is about these logs, every other property
about all.  Left out: an initialize in chunks, clients without a
stream id, malformed chunks, the limit on assemblies (one client has one), and
`ClientTracker::shutdown`'s wait for its tasks.

### AgentResidency

`tree`, `pathOf`, `total` are `ActiveAgents`; `residents`, `pending` are
`V2ResidencyState`; `loaded` is `ThreadManagerState.threads`.  `call` is what a tool
call has in its local variables: the step, the target, the reservations it holds
(`slot`, `reserved`), its candidate for eviction.  `run`, `queue`, `mail` are an
agent's session as far as the eviction looks at it; `gen` tells a reloaded session
from the one an eviction waits for.  The steps follow `ensure_v2_agent_loaded`
(`load`), `reserve_slot` and `try_unload_one_resident` (`reserve`, `scan`, `check`,
`shutdown`, `await`), `spawn_agent_internal` (`prepare`, `create`, `commit`),
`send_inter_agent_communication` (`capacity`, `submit`) and
`handle_thread_request_result` (`died`).  `Cancel` drops a call at any await;
`DropHeld` is what the `Drop` implementations then do.  The turn itself is
`TurnLifecycle`'s subject; here it runs, takes its mail and ends.

Merged steps: `Prepare` is `reserve_spawn_slot` and `reserve_agent_path` with the
awaits between them (they read the parent's own configuration and state; what another
call reserves in between only comes a moment earlier); `Check` is `get_thread`, the three
awaits of `is_unloadable` and the `touch` after them (work that arrives between them is
work that arrives behind the check, which `agents_message` shows to be lost all the
same).  `RemoveThread` takes the thread out of the manager's map, after which no call
finds it; that somebody may hold its `Arc` a little longer is abstracted.  Left out: V1
agents, nicknames, saved environments, the subtree a reload brings back, the reload that
validates the agent's owner (`ensure_v2_agent_loaded` with a parent), and the branches of
`register_spawned_thread` that replace an entry of the same thread or path (a hazard
lists them).  Callers are not tied to the sessions that are shut down: a call that evicts
its own caller is outside of `CallsReturn`.

### MemoryJobs

`job`, `out`, `global` are rows of the memories database; `source`, `mode`
and `gone` a thread; `files` and `base` the inputs in the memory workspace and in its git
baseline.  A worker is the pipeline one root session starts: it lists threads (`Start`),
claims them one by one, settles each claim (`Succeed`, `SucceedNoOutput`, `Fail`), then
claims the global job and works through `Prepare`, `Select`, `Sync`, the diff
(`NoChanges` or `RunAgent`), `Confirm`, `RemoveBaseline`, `CommitBaseline` and `Record`.
Every transaction is one action; marking a thread as polluted (`ReadSelected`, `Pollute`,
`EnqueueForgetting`) and deleting it (`RemoveRollout`, `DeleteThreadMemory`,
`DeleteThreadRow`) are several.

* The scan.  `claim_stage1_jobs_for_startup` reads a limited number of rows of threads
  that are enabled and pass conditions on source, archive, age and idle time, the
  session's own thread excepted.  `Listed` is the first condition; the others are left
  open, and `Start` lists any of these threads up to `ScanLimit`, none included.  A query
  that fails while claims are made forgets the claims made so far and goes on to phase 2
  (`ClaimFails`).
* The baseline.  `reset_git_repository_sync` removes the repository, makes a new one and
  commits: `RemoveBaseline` and `CommitBaseline`, with a failure or a death before,
  between and after them.  Without a usable repository (`base = None`)
  `prepare_memory_workspace` commits whatever files there are: `Prepare`.  The index is
  written after the commit; the diff that decides anything does not depend on it, and a
  failure to write it is `FailGlobal` at `record`: reported as a failure with the baseline
  moved.
* The inputs are written file by file; whoever stops during `Sync` leaves each file as it
  was, missing or new (`LeaveFiles`).
* `Reconcile` is `reconcile_rollout`, which gives a legacy thread the mode of its rollout,
  `enabled` by default: such a thread does not stay polluted.

Time is abstracted to the answers of the guards: `lease`, `waiting`, `recent`.
A lease runs out when its worker is gone or, counted as a fault, while it
samples or its agent runs; the other steps are assumed to take less than a lease, which
the code does not enforce.  A deleted thread's session is assumed to stop within the time
the deletion waits for it.  Which outputs are recent enough to be selected, and preferred,
is open: `Select` may choose any of them up to the limit, none included.  Left out: the
reset of all memories, a user who switches a thread's memory off and on, and a
reconciliation that overlaps the deletion of its thread.

## Runs

Passing runs:

| Run | Bounds | Shows |
|---|---|---|
| `serialization` | 3 requests, one connection, two kinds of resource, background work; handlers may hang | `NoOvertaking`, `OneDrainTask`, `DrainedMeansIdle`, `ReadsJoin`, no deadlock, and `ImplementsPromise`: refinement of `SerializedRequests`, liveness included |
| `turn_clients` | 3 turns; a start, a steer, a shell command, a compaction, an interrupt; or a start, a steer, an injection, an interrupt, the breaker | `RunnerIsActive`, `OneTerminal`, `StartFindsNoTask`, `ItemOnce`, `EveryTurnEnds` |
| `turn_input` | an idle start, a steer, 2 mails (one asks for a turn), an injection | `SteeredIsRecorded`, `NoRequestWhenClosed`, `ItemOnce`, `MailIsRecorded` |
| `remote_outbound` | 2 streams with 2 and 1 messages of up to 2 segments, capacity 2, 2 broken connections, 1 acknowledgement in flight | `NothingLost`, `BufferBound`, `Drains`, and `ImplementsReliableStreams`: refinement of `ReliableStreams`, liveness included |
| `remote_inbound` | 5 logs of up to 7 envelopes, one of them not steady, event channel of 1, 2 faults of any kind | `EventsInOrder`, `MessagesWithoutGap`, `NoOrphan`, `DroppedIsClosed`, `LogIsRead` |
| `agents` | 2 concurrent callers, 4 calls, 3 agents, capacity 1, 1 abort | `Accounting`, `PathOwnership`, `LoadedIsTracked`, `Overshoot`, `CallsReturn` |
| `memory_jobs` | 1 legacy thread updated once, 2 workers, 1 retry, 1 fault | `OutputIsVouched`, `BaselineIsDigested`, `MarksWhatWasConsumed`, `StaleIsProcessed`, `PollutedIsForgotten` |

`TypeOK` is checked for every specification.

Why the bounds suffice.  Three requests are enough for one drain task to end and
another to start, and for a read to arrive behind an exclusive request while a read
runs (the proofs cover any number).  Three turns are enough for one to finish while a
second starts and a third waits; `MaxSamples` bounds follow-up samplings of a turn,
and one is enough for input to arrive before and after each look at it.  With
capacity 2 and messages of two segments the outbound buffer both fills up and
overshoots; two breaks let a replay itself be interrupted.  The logs of
`remote_inbound` are a message in chunks, a retransmission with a close, a second
initialize, two streams with a message in chunks each, and a stream that is opened
between the chunks of another (not steady); the MC module states which are steady, and
a channel of one event makes every send wait.  They end in a whole message or a ping:
behind the chunks of a stream that was forgotten half-way the cursor waits for the next
envelope.  With capacity 1 each agent beyond the first has to evict another; four calls
are enough for a spawn, an eviction, a reload and a message that meets one of them.
Memory jobs of different threads meet only in three limits, on the scan, on running jobs
and on selected inputs, which one thread does not exceed.  No property rests on the first
and the last: `Start` may leave out and `Select` may choose fewer threads anyway.  A thread
kept waiting by the limit on running jobs is claimed by a later scan, since those jobs end
or lose their leases; this is argued, not checked.  Everything else is per thread or
global, and the proofs cover any number of threads.  Two workers are enough for one to
lose a job to the other, and one fault for each way to break off; the proofs cover any
number of faults.

A turn session, a transport and the agents may rest for ever, so those runs do not check
deadlock; the serialization run does, with `Quiescent` as the one legitimate rest, and so
does `memory_jobs`: sessions can always start the pipeline.

Runs that show a disagreement (each quoted in `PROJECT.json`, findings):

| Run | What happens |
|---|---|
| `turn_overwrite` | Turn 1 finishes, finds mail and reserves the active turn.  The client starts turn 2: the loop drops the reservation and installs its task.  Turn 1's fiber reaches `start_task` and overwrites it; turn 2 dies without an event.  `start_task` asserts that this cannot happen. |
| `turn_break` | The breaker takes turn 1 when it has passed its cancellation check; the client starts turn 2; turn 1's `on_task_finished` takes turn 2's task and reports turn 1 (a second time).  Turn 2 is never reported. |
| `turn_stranded` | An interrupt takes a turn that is reporting completion.  Neither the interrupt nor the finishing task then looks for mail: the session is idle with mail that asks for a turn. |
| `remote_stale_close` | A client initializes its stream again.  The reader closes the first connection, which cancels its outbound task, and opens a second one under the same key.  The task's end is then reported by key, and the reader closes the second connection. |
| `agents_message` | An eviction finds an agent idle; a message is accepted for that agent; the eviction shuts it down.  The message ends with the session. |

The passing turn runs leave out exactly the combination of operations that each of
these needs: `turn_clients` has no mail, and no second start beside the breaker;
`turn_input` has no abort.  Under those combinations `RunnerIsActive`, `OneTerminal`,
`SteeredIsRecorded` and `NoRequestWhenClosed` fail for the same reasons.  The remote and
agent runs leave nothing out: their other properties hold in the presence of what
`remote_stale_close` and `agents_message` show.

`Overshoot` should be read beside `config.schema.json:60`, which describes the setting as
the "Maximum number of spawned agent threads that can be open concurrently per session".
The code bounds the loaded agents by that number less one (the root's slot) and enforces
the bound only outside of the window between `pop_lru_candidate` and `touch`, in which a
victim is neither resident nor pending.  `Overshoot` is what it gives instead: at most one
agent too many for each other call in progress and each aborted one.  So with two callers
and no abort the documented maximum is kept; with three it need not be, since the third
may take a slot while the other two hold a victim each.

An abort of a turn also clears the pending
input of its turn, mail included; the code does this on purpose, so no property
forbids it.  An item injected while a turn reports its completion goes into a turn
state that is dropped; this is recorded as a hazard.
Two fibers that see the same mail may also start two turns, the second empty, which
nothing in the code rules out.

Smaller races that the models contain or leave out, and that no property is about: a
cancelled task in its grace period drains the input of the turn that replaced it;
chunks of two streams that interleave reset each other's assembly, and other envelopes
between them may cost a message (below, with the proof of `MessagesWithoutGap`); a
stream that is initialized again with lower sequence numbers has its chunks ignored;
a writer that is aborted between taking an envelope and numbering it loses the
envelope; an agent found dead while another call reloads it is unregistered; a thread
polluted after its output was replaced is forgotten only after the cooldown; all
memories may be cleared under a running consolidation.

### Fairness

Weak fairness per task is what the async runtime gives: a task's step, once
enabled, stays enabled until it is taken or the task is aborted.

* `TaskFairness` of `RequestSerialization`: the runtime polls every task that can
  run.  Handlers need not return: `ReadsJoin` holds without it, and the promise of
  `SerializedRequests` is conditional on it (no request starves *if* handlers
  return), since nothing in the code bounds a handler.
* `FairSpec` of `TurnLifecycle`: every fiber that can take a step does; hooks and
  compactions end, and the grace period of an abort runs out (a timer).  A sampling ends:
  fairness is on `Advance`, which includes its outcomes but neither the items of a stream
  nor a retry.  The code bounds the retries of a stream by `stream_max_retries` and each
  stream by its idle timeout; the exception, `UnboundedConnectionRetries`, waits for the
  network to come back and is outside of `EveryTurnEnds`.
  Clients, other agents and the breaker need never act.
* `Fairness` of `RemoteOutbound` and `RemoteInbound`: the run loop reconnects for as
  long as remote control is enabled (connections break finitely often), the
  app-server takes its events, and the backend, which is external, reads its socket
  and acknowledges the newest envelope it has; this last one is strong fairness,
  since a broken connection disables it again and again.
* `FairSpec` of `AgentResidency`: calls are polled until they return and session
  loops run.  Turns need not end and no call need be made.
* `FairSpec` of `MemoryJobs`: root sessions keep being started, a started pipeline
  goes on (samplings and agents end), and time passes.  Faults are finite in number.
  A worker always has a step to take, so `[]<><<Work(w)>>_vars` is its weak fairness.
  Nothing is assumed of what a scan lists: `StaleIsProcessed` is about threads that scans
  list again and again, since the pipeline considers only rollouts within its window and
  limits (`memories/README.md:44-51`).

## Proofs

`RequestSerializationProofs` proves, for any sets of requests, connections and
scopes, from the assumptions that scopes have one of the nine kinds and that no
connection is the absent gate:

* `TypeCorrect`: `Spec => []TypeOK`;
* `Serialized`: `Spec => []NoOvertaking`;
* `SingleDrain`: `Spec => []OneDrainTask`;
* `DrainIsFinal`: `Spec => []DrainedMeansIdle`;
* `Implements`: `Spec => Promise!SafeSpec`, the safety part of the refinement of
  `SerializedRequests`: its initial states and its steps.

`NoOvertaking` speaks of requests that have left the queue; that they leave in
the right order depends on what the queue and the drain task hold.  `IInv` says
so: a queue holds exactly the queued requests of its key in arrival order
(`QueueContents`, `QueueComplete`, `QueueSorted`); what has left it arrived
earlier than what is in it (`StartedFirst`, `ArrivalBound`); the map entry exists
exactly while one drain task lives (`DrainUnique`, `DrainPresent`,
`QueuePresent`); every request past the queue is polled by that task, which
polls either one exclusive request or only reads (`BatchContents`,
`BatchComplete`, `BatchShape`, `BatchReads`).  Each kind of step has a lemma:
`QuietStep` (nothing of this changes), `LeaveStep` (a future completes),
`TakeStep` (requests leave the front of a queue), `EnqueueStep`, `PopNoneStep`,
`NotifiedStep`, `SpawnStep`; `NextInv` combines them.  `DrainIsFinal` has an
induction of its own: a closed gate admits nobody.  `Implements` uses `IInv` twice: an
arriving request gets a number above all of its key (`ArrivalBound`), and a request
that has left the queue may start (`NoOvertaking`).

`TurnLifecycleProofs` has two parts.  For any sets of turns and items and any
budgets, races included:

* `TypeCorrect`: `Spec => []TypeOK`, with `FrameOK`: a fiber at a label has the local
  variables that label reads (`abort_all_tasks` has a victim, `start_task` a turn);
* `NeverTwice`: `Spec => []ItemOnce`.  The lists are seen as one function from boxes
  to sequences; `ItemsOnce` adds that what is in no box yet was not submitted.  Each
  step is one of a few moves, with a lemma each: a box is emptied (`Dropped`), moved
  behind another (`Moved`), taken along with the mailbox (`Taken`, `TakenBoth`), or a
  new item is put into one (`Placed`).

For a *quiet* session (`Quiet`: no mail wakes the thread, the breaker does not trip),
with any number of starts, steers, idle starts, mails, injections, shell commands,
compactions, interrupts and replacements:

* `OneRunner` (`RunnerIsActive`), `ReportedOnce` (`OneTerminal`),
  `NoTaskOverwritten` (`StartFindsNoTask`), `NoRequestAfterAnswer` (`NoRequestWhenClosed`),
  `SteeredIsKept` (`SteeredIsRecorded`).

`Quiet` is a real restriction and the runs show why it is needed: `turn_overwrite` is
what happens with a mail that wakes the thread, `turn_break` with the breaker.  What is
left is a session where only the submission loop starts and aborts turns, against any
number of finishing tasks.  The invariant `Orderly` says what the loop relies on
between its awaits (`LoopOK`: a turn it is about to install has no task yet and nobody
else installs one; the victim it waits for is cancelled, unreported and out of the
active turn) and how a turn's task, its cancellation, the active turn and the terminal
count go together (`TurnOK`).  `Closing` adds the delivery phase.  `Steering` adds
where an accepted input may be: in the history, in the pending input of its turn's
state while that is active or being reported, or in its task's hands (`Safe`).

`TurnMailProofs` proves the same five properties for an *undisturbed* session
(`Undisturbed`: no `start`, shell command, compaction, interrupt or tripped breaker, the
operations that abort or replace whatever is active), with any number of mails, idle
starts, steers and injections.  `Quiet` and `Undisturbed` overlap but neither implies
the other; the first budget of `turn_clients` is quiet, the one of `turn_input` is
undisturbed:

* `OneRunnerWithMail` (`RunnerIsActive`), `ReportedOnceWithMail` (`OneTerminal`),
  `NoTaskOverwrittenWithMail` (`StartFindsNoTask`), `NoRequestAfterAnswerWithMail`
  (`NoRequestWhenClosed`), `SteeredIsKeptWithMail` (`SteeredIsRecorded`).

Here not only the loop but every finishing task may start a turn, several at the same
time, and what keeps them apart is the reservation: an active turn without a task.
The invariant `Reserved` says that at most one fiber relies on it (`OwnersOK`), either
one between its reservation and its task's installation or one that reports and
clears its own turn; that this fiber's turn state is the active one, and the turn it
starts is still unused (`OwnerOK`); and how far a turn's task, the active turn and the
terminal count have come (`LifeOK`).  Between two awaits the code checks none of
this again, and an abort breaks it by taking the reservation away: `turn_overwrite`
and `turn_break` show the consequences.  `Settling` adds the delivery phase, `Guiding`
the whereabouts of an accepted input.  What both kinds of session share, in
particular what a working task does by itself, is proved once from `Matched`, which
both invariants imply.

`RemoteOutboundProofs`, for any streams, messages, capacities and any number of broken
connections:

* `TypeCorrect`, `NeverLost` (`NothingLost`), `BoundedBuffer` (`BufferBound`);
* `Implements`: `Spec => Streaming!Steps`, the safety part of the refinement of
  `ReliableStreams`: its initial states and its steps.

`NothingLost` is inductive only together with what every message in transit is worth:
log and buffer of a stream are in the order of the cursors (`LogOK`, `BufferOK`), the
backend has no envelope without the ones before it (`ReceivedOK`), what is on the wire
or in the writer's batch is preceded there by everything of its stream that the backend
lacks (`FlightOK`), while a connection is up everything buffered is received or on its
way (`WriterOK`), and an acknowledgement in flight speaks only of what was received
(`AcksOK`).  `UsedOK` is the usage counter.

`RemoteInboundProofs`, for any log of envelopes and any faults:

* `TypeCorrect`, `EventOrder` (`EventsInOrder`), `NothingOrphaned` (`NoOrphan`).

The invariant describes the reader at each await (`ReaderOK`: which connection it is
opening, serving or closing, and that its client is or is no longer in the table) and
the tracker (`TrackerOK`: the connection of a client is open for the app-server and
nobody is closing it; a detached task closes only a connection that is still open).

`RemoteDeliveryProofs`, for any log and any faults:

* `NoMessageLost` (`MessagesWithoutGap`): if the log is steady, each connection gets
  the initialize that opened it and then every message of its stream, in order, once.

`Steady` is a hypothesis of this theorem only, and TLC shows why it is needed; both
examples take two faults:

* `init 1, chunk 2/1, chunk 2/2, init 3` of one stream.  The app-server drops the
  connection between the chunks; the assembly is forgotten and the second chunk dropped
  without being recorded.  The second initialize opens a connection, the reader is
  aborted before it sends that initialize, and the replay behind the cursor completes
  message 2 and delivers it on the new connection before its initialize.
* `init 1, chunk 2/1, [init 1 of another stream], chunk 2/2, message 3`.  The envelope
  in between moves the cursor past the first chunk.  When the send of the completed
  message then fails, the replay begins with the second chunk, which alone is worth
  nothing: message 2 is lost and message 3 delivered.

Nothing in the repository says that a client or the backend does either.

The invariant `DInv` relates four places where the same message is accounted for: the
recorded cursor, the reader's position, the tracker's last number of the client and
the reassembler.  `Settled` is how far the reader is through with the log.  Up to there
nothing of a client is above its last delivered number (`Delivered`), and a client whose
initialize was not delivered meets that initialize again before anything else of its
stream (`Awaited`).  Only chunks lie between the cursor and `Settled` (`CursorOK`), so a
replay may make the reader retreat without undoing a delivery (`Retreat`).  While it is
inside a message still to be delivered, the assembly holds all chunks read so far
(`InRun`), its first chunk lies after the cursor and the chunk it waits for has not been
passed (`AssemblyOK`), and a message marked as completed was delivered (`DoneOK`).  The
message about to be sent is then the successor of the last one (`HandledOK`), which is
the last event of the client's connection (`FeedsOK`).  The lemmas about steady logs
(`Run`, `Before`, `NextSeq`, `AwaitsInitialize`) are what the steps use of `Steady`.
Before the proof TLC checked `DInv` completely on a set of steady logs with up to three
faults.

`AgentResidencyProofs`, for any sets of agents and callers and any number of calls and
aborts:

* `TypeCorrect`, `CountersAgree` (`Accounting`), `OneOwner` (`PathOwnership`),
  `NoneForgotten` (`LoadedIsTracked`), `BoundedOvershoot` (`Overshoot`).

A counter equals a number of agents or of calls at certain steps, so the proof is one
of set cardinalities that change by the one call that moves.  `CallsInv` says what a
call holds at each step (`CallOK`, `SpawnOK`), that two spawns never hold the same
path or agent (`SpawnsApart`), that what a spawn reserved is in the registry
(`ReservedIsHeld`) and that registry and path index agree (`TreeIsIndex`).  For
`Overshoot`, `LoadBound` also counts the calls that may still create a thread, and
`LeaksAreCancels` bounds the loaded agents tracked by nobody by the aborted calls.

`MemoryJobsProofs`, for any number of threads, updates, workers, retries and faults:

* `TypeCorrect`, `Vouched` (`OutputIsVouched`), `Consumed` (`MarksWhatWasConsumed`), `Baseline` (`BaselineIsDigested`).

The invariant relates a worker to the rows it works on: a running job is for a newer
update than its last success and the claim of its owner is for that update
(`RunningIsFresh`, `ClaimIsInput`); outside of the agent's run a worker in phase two
has the global job under a valid lease (`PhaseTwoIsLeased`), so there is one such worker
at most (`LeasedIsUnique`); from its last write on the workspace holds what the owner of
the global job selected (`OwnerWroteFiles`).  `BaselineIsKnown` is why a broken reset does
no harm: while there is no baseline the files were consolidated, because the worker that
removes it has had them consolidated and nobody writes inputs before `Prepare` has made a
baseline again.  `Consumed` follows from `RecordedIsDigested` (who records
a selection has had it consolidated, or found it equal to the baseline) and `MarkSteps`:
only a recorded selection sets a mark, on outputs that are still the ones selected.

Assumptions about constants are in the models, as `ASSUME`s which TLC evaluates in the
runs: names are distinct where the code's types are (a turn is not the submission
loop), sets of streams, keys, callers, threads and workers are finite, bounds are
natural numbers, retries and channel capacities are positive, a log is a sequence of
envelopes.  None restricts what the code can be given; the three conditions that do,
`Quiet`, `Undisturbed` and `Steady`, are in the statements they belong to.

Only model-checked: liveness (`ReadsJoin`, the fairness parts of `ImplementsPromise`
and of `ImplementsReliableStreams`, `EveryTurnEnds`, `MailIsRecorded`, `Drains`,
`DroppedIsClosed`, `LogIsRead`, `CallsReturn`, `StaleIsProcessed`,
`PollutedIsForgotten`), which is beyond the prover; and the turn properties when the breaker
ends the only turn, which `turn_clients` checks.  A session in which mail or the breaker
meets a client that starts or interrupts turns is neither quiet nor undisturbed: there `turn_overwrite`,
`turn_break` and `turn_stranded` refute what one would expect.

## Plan

Done: request serialization, turn lifecycle and input, remote control in both
directions, agent registry, residency and limits, memory jobs; type correctness and
the safety invariants of all of them and the safety part of both refinements as
theorems, as far as listed above.

Next:

1. The turn properties when the breaker trips in a session with a single turn, as in
   `turn_clients`.

Then more of the system:

2. Session shutdown, approvals and the realtime submitter in `TurnLifecycle`.
3. `OutgoingRequests` and thread status, composed with the gate of
   `RequestSerialization`: what a handler that outlives the drain timeout leaves
   behind.
4. `ReadinessFlag`; unified exec's process store and head/tail buffer; the exec
   server client's resume protocol.

## Not modelled

`PROJECT.json` gives the reason for each component.  In short: user interfaces, the
desktop shell, telemetry, configuration and protocol types hold no concurrent state
of their own; the model client, tools, hooks, sandboxes and the network proxy are I/O
whose outcomes the models take nondeterministically; the components the plan names
are within reach and not modelled yet.  The repository is large (some 890,000 lines),
and most of it is of the first two kinds: the models cover the parts whose
correctness depends on interleaving, failure and order.
