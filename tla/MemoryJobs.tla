----------------------------- MODULE MemoryJobs -----------------------------
(***************************************************************************)
(* The memory pipeline.  Every root session that starts runs it in the     *)
(* background, so several processes share one database: phase 1 claims a   *)
(* job for each thread whose memory is stale, extracts a memory from its   *)
(* rollout and stores it as the thread's stage-1 output; phase 2 claims    *)
(* the one global job, writes the selected outputs into the memory         *)
(* workspace, has an agent consolidate them, commits the workspace as the  *)
(* new git baseline and records the selection (phase1.rs, phase2.rs of     *)
(* memories/write, state/src/runtime/memories.rs).  Claims are leases: a   *)
(* worker may die at any step, a slow one may lose its job to another, and *)
(* failed jobs wait before they are tried again.                           *)
(*                                                                         *)
(* Each transaction is one step.  Times are abstracted to what the guards  *)
(* ask of them: a lease is valid or not, a retry waits or not, the last    *)
(* success is recent or not.  An ownership token is the worker that        *)
(* claimed: a restarted worker no longer holds its claims.  Which threads  *)
(* pass the scan's other conditions and come first, and which outputs are  *)
(* recent enough and preferred, is left open.  Watermarks of the global    *)
(* job decide nothing and are left out, and so are the reset of all        *)
(* memories, a user who switches a thread's memory off and on, and a       *)
(* reconciliation of a rollout that overlaps the deletion of its thread.   *)
(***************************************************************************)
EXTENDS Naturals, FiniteSets

CONSTANTS
    Threads,
    Legacy,      \* the threads of history mode Legacy
    Workers,
    MaxSource,   \* bound: updates of a thread
    Retries,     \* DEFAULT_RETRY_REMAINING
    ScanLimit,   \* THREAD_SCAN_LIMIT
    MaxClaimed,  \* max_rollouts_per_startup, also the limit of running jobs
    MaxInputs,   \* max_raw_memories_for_consolidation
    MaxFaults,   \* bound: crashes, failed consolidations and expired leases
    None

ASSUME MemoryJobsAssumption ==
    /\ IsFiniteSet(Threads) /\ Legacy \subseteq Threads /\ IsFiniteSet(Workers)
    /\ MaxSource \in Nat \ {0} /\ Retries \in Nat \ {0} /\ MaxClaimed \in Nat \ {0}
    /\ ScanLimit \in Nat /\ MaxInputs \in Nat /\ MaxFaults \in Nat
    /\ None \notin Workers \union Threads \union [Threads -> 0..MaxSource]

VARIABLES
    source,   \* threads.updated_at
    mode,     \* threads.memory_mode
    marking,  \* how far marking the thread as polluted has come
    gone,     \* what deleting the thread has removed: its rollout, its memory, its row
    job,      \* jobs of kind memory_stage1
    out,      \* stage1_outputs
    global,   \* the job of kind memory_consolidate_global
    pc,       \* where each worker is
    seen,     \* the threads it has still to claim, as it read them
    held,     \* the claims it works on
    inputs,   \* the outputs it selected for consolidation
    files,    \* the inputs in the memory workspace
    base,     \* those of the git baseline, None when there is no usable repository
    digested, \* history: the inputs an agent consolidated for the owner of the job
    faults

thread == <<source, mode, marking, gone>>
worker == <<pc, seen, held, inputs>>
workspace == <<files, base>>
database == <<job, out, global>>
vars == <<thread, worker, workspace, database, digested, faults>>

Sources == 0..MaxSource
Snapshot == [Threads -> Sources]     \* per thread a source_updated_at, 0 for none
Nothing == [t \in Threads |-> 0]

\* A claim: the source_updated_at it is for, and whether the rollout was read.
Claims == [source : Sources, loaded : BOOLEAN]
NoClaim == [source |-> 0, loaded |-> FALSE]

JobRows == [status : {"none", "running", "done", "error"}, owner : Workers \union {None},
            lease : BOOLEAN, waiting : BOOLEAN, left : 0..Retries,
            input : Sources, done : Sources]
NoJob == [status |-> "none", owner |-> None, lease |-> FALSE, waiting |-> FALSE,
          left |-> Retries, input |-> 0, done |-> 0]

GlobalRows == [status : {"none", "pending", "running", "done", "error"},
               owner : Workers \union {None}, lease : BOOLEAN, waiting : BOOLEAN,
               recent : BOOLEAN, failed : BOOLEAN]
NoGlobal == [status |-> "none", owner |-> None, lease |-> FALSE, waiting |-> FALSE,
             recent |-> FALSE, failed |-> FALSE]

\* source 0: there is no row.  selected: selected_for_phase2_source_updated_at.
Outputs == [source : Sources, selected : Sources]
NoOutput == [source |-> 0, selected |-> 0]

\* A worker's steps, in order.
Labels == {"idle", "phase1", "prepare", "select", "sync", "diff", "agent",
           "reset", "commit", "record"}

TypeOK ==
    /\ source \in [Threads -> 1..MaxSource]
    /\ mode \in [Threads -> {"enabled", "polluted"}]
    /\ marking \in [Threads -> {"no", "selected", "unselected", "enqueue"}]
    /\ gone \in [Threads -> {"nothing", "rollout", "memory", "row"}]
    /\ job \in [Threads -> JobRows] /\ out \in [Threads -> Outputs]
    /\ global \in GlobalRows
    /\ pc \in [Workers -> Labels]
    /\ seen \in [Workers -> Snapshot] /\ inputs \in [Workers -> Snapshot]
    /\ held \in [Workers -> [Threads -> Claims]]
    /\ files \in Snapshot /\ base \in Snapshot \union {None}
    /\ digested \subseteq Snapshot
    /\ faults \in 0..MaxFaults

Init ==
    /\ source = [t \in Threads |-> 1] /\ mode = [t \in Threads |-> "enabled"]
    /\ marking = [t \in Threads |-> "no"] /\ gone = [t \in Threads |-> "nothing"]
    /\ job = [t \in Threads |-> NoJob] /\ out = [t \in Threads |-> NoOutput]
    /\ global = NoGlobal
    /\ pc = [w \in Workers |-> "idle"]
    /\ seen = [w \in Workers |-> Nothing] /\ inputs = [w \in Workers |-> Nothing]
    /\ held = [w \in Workers |-> [t \in Threads |-> NoClaim]]
    /\ files = Nothing /\ base = None /\ digested = {Nothing}
    /\ faults = 0

Fault == faults < MaxFaults /\ faults' = faults + 1

-----------------------------------------------------------------------------
(* The rows *)

\* enqueue_global_consolidation_with_executor.
Enqueued ==
    IF global.status = "running" THEN global
    ELSE [global EXCEPT !.status = "pending", !.waiting = FALSE]

\* The row of a claimed job is updated only by the worker that still owns it.
Owns(w, t) == job[t].status = "running" /\ job[t].owner = w
OwnsGlobal(w) == global.status = "running" /\ global.owner = w

\* Jobs other than t's that run under a valid lease.
RunningBeside(t) == {u \in Threads \ {t} : job[u].status = "running" /\ job[u].lease}

Stale(t, s) == out[t].source < s /\ job[t].done < s

\* The WHERE clauses of try_claim_stage1_job.
Claimable_IgnoresRetries(t, s) ==
    /\ Stale(t, s)
    /\ \/ job[t].status = "none"
       \/ /\ job[t].status # "running" \/ ~job[t].lease
          /\ ~job[t].waiting \/ s > job[t].input
    /\ Cardinality(RunningBeside(t)) < MaxClaimed
Claimable_NeverExpires(t, s) ==
    /\ Stale(t, s)
    /\ job[t].status # "running"
    /\ ~job[t].waiting \/ s > job[t].input
    /\ job[t].left > 0 \/ s > job[t].input
    /\ Cardinality(RunningBeside(t)) < MaxClaimed
Claimable(t, s) ==
    /\ Stale(t, s)
    /\ \/ job[t].status = "none"
       \/ /\ job[t].status # "running" \/ ~job[t].lease
          /\ ~job[t].waiting \/ s > job[t].input
          /\ job[t].left > 0 \/ s > job[t].input
    /\ Cardinality(RunningBeside(t)) < MaxClaimed

-----------------------------------------------------------------------------
(* Phase 1 *)

\* claim_stage1_jobs_for_startup lists threads first: the first few rows that are
\* enabled and pass the conditions that are left open (source, archive, age, idle time,
\* not the session's own thread), ...
Listed(t) == mode[t] = "enabled" /\ gone[t] # "row"
Start(w) ==
    /\ pc[w] = "idle"
    /\ pc' = [pc EXCEPT ![w] = "phase1"]
    /\ \E listed \in SUBSET {t \in Threads : Listed(t)} :
         /\ Cardinality(listed) <= ScanLimit
         /\ seen' = [seen EXCEPT ![w] =
                       [t \in Threads |-> IF t \in listed THEN source[t] ELSE 0]]
    /\ UNCHANGED <<thread, held, inputs, workspace, database, digested, faults>>

\* ... and claims them one by one.
Claim(w, t) ==
    /\ pc[w] = "phase1" /\ seen[w][t] # 0
    /\ LET s == seen[w][t]
           claims == {u \in Threads : held[w][u] # NoClaim} \union {t} IN
         IF Claimable(t, s)
           THEN /\ job' = [job EXCEPT ![t] =
                             [job[t] EXCEPT !.status = "running", !.owner = w, !.lease = TRUE,
                                            !.waiting = FALSE, !.input = s,
                                            !.left = IF s > job[t].input
                                                       THEN Retries ELSE job[t].left]]
                /\ held' = [held EXCEPT ![w][t] = [source |-> s, loaded |-> FALSE]]
                /\ seen' = [seen EXCEPT ![w] = IF Cardinality(claims) = MaxClaimed
                                                 THEN Nothing ELSE [@ EXCEPT ![t] = 0]]
           ELSE seen' = [seen EXCEPT ![w][t] = 0] /\ UNCHANGED <<job, held>>
    /\ UNCHANGED <<thread, pc, inputs, workspace, out, global, digested, faults>>

\* One of the queries fails: the worker forgets the claims it made, and their jobs run
\* until their leases end.
ClaimFails(w) ==
    /\ pc[w] = "phase1" /\ seen[w] # Nothing /\ Fault
    /\ seen' = [seen EXCEPT ![w] = Nothing]
    /\ held' = [held EXCEPT ![w] = [t \in Threads |-> NoClaim]]
    /\ UNCHANGED <<thread, pc, inputs, workspace, database, digested>>

\* Every claim is made; the jobs run.
Sampling(w) == pc[w] = "phase1" /\ seen[w] = Nothing

\* sample reads the rollout, if there still is one, and asks the model.
LoadRollout(w, t) ==
    /\ Sampling(w) /\ held[w][t] # NoClaim /\ ~held[w][t].loaded
    /\ gone[t] = "nothing"
    /\ held' = [held EXCEPT ![w][t].loaded = TRUE]
    /\ UNCHANGED <<thread, pc, seen, inputs, workspace, database, digested, faults>>

\* The claim is settled, by a transaction of the worker that still owns the job.
Settle(w, t) ==
    /\ Sampling(w) /\ held[w][t] # NoClaim
    /\ held' = [held EXCEPT ![w][t] = NoClaim]
    /\ UNCHANGED <<thread, pc, seen, inputs, workspace, digested, faults>>

Done(t) == [job[t] EXCEPT !.status = "done", !.lease = FALSE, !.done = job[t].input]

\* mark_stage1_job_succeeded.
Succeed(w, t) ==
    /\ held[w][t].loaded
    /\ Settle(w, t)
    /\ IF Owns(w, t)
         THEN /\ job' = [job EXCEPT ![t] = Done(t)]
              /\ out' = IF held[w][t].source >= out[t].source
                          THEN [out EXCEPT ![t].source = held[w][t].source] ELSE out
              /\ global' = Enqueued
         ELSE UNCHANGED <<job, out, global>>

\* mark_stage1_job_succeeded_no_output.
SucceedNoOutput(w, t) ==
    /\ held[w][t].loaded
    /\ Settle(w, t)
    /\ IF Owns(w, t)
         THEN /\ job' = [job EXCEPT ![t] = Done(t)]
              /\ out' = [out EXCEPT ![t] = NoOutput]
              /\ global' = IF out[t] # NoOutput THEN Enqueued ELSE global
         ELSE UNCHANGED <<job, out, global>>

\* mark_stage1_job_failed.
Fail(w, t) ==
    /\ Settle(w, t)
    /\ IF Owns(w, t)
         THEN job' = [job EXCEPT ![t] = [job[t] EXCEPT !.status = "error", !.lease = FALSE,
                                                       !.waiting = TRUE,
                                                       !.left = job[t].left - 1]]
         ELSE UNCHANGED job
    /\ UNCHANGED <<out, global>>

-----------------------------------------------------------------------------
(* Phase 2 *)

\* try_claim_global_phase2_job.
ClaimableGlobal ==
    /\ ~global.waiting
    /\ global.status # "running" \/ ~global.lease
    /\ global.failed \/ ~global.recent

ClaimGlobal(w) ==
    /\ Sampling(w) /\ \A t \in Threads : held[w][t] = NoClaim
    /\ IF ClaimableGlobal
         THEN /\ global' = [status |-> "running", owner |-> w, lease |-> TRUE,
                            waiting |-> FALSE, recent |-> FALSE, failed |-> FALSE]
              /\ pc' = [pc EXCEPT ![w] = "prepare"]
         ELSE pc' = [pc EXCEPT ![w] = "idle"] /\ UNCHANGED global
    /\ UNCHANGED <<thread, seen, held, inputs, workspace, job, out, digested, faults>>

\* prepare_memory_workspace: without a usable repository the files, as they are, become
\* the baseline.
Prepare(w) ==
    /\ pc[w] = "prepare"
    /\ base' = IF base = None THEN files ELSE base
    /\ pc' = [pc EXCEPT ![w] = "select"]
    /\ UNCHANGED <<thread, seen, held, inputs, files, database, digested, faults>>

\* get_phase2_input_selection: outputs of threads that are enabled, ...
Selectable_Polluted == {t \in Threads : out[t].source # 0 /\ gone[t] # "row"}
Selectable == {t \in Threads : out[t].source # 0 /\ mode[t] = "enabled" /\ gone[t] # "row"}

\* ... at most MaxInputs of them and only those used or written recently, ...
Select(w) ==
    /\ pc[w] = "select"
    /\ \E chosen \in SUBSET Selectable :
         /\ Cardinality(chosen) <= MaxInputs
         /\ inputs' = [inputs EXCEPT ![w] =
                         [t \in Threads |-> IF t \in chosen THEN out[t].source ELSE 0]]
    /\ pc' = [pc EXCEPT ![w] = "sync"]
    /\ UNCHANGED <<thread, seen, held, workspace, database, digested, faults>>

\* ... which sync_phase2_workspace_inputs writes into the workspace, file by file.
Sync(w) ==
    /\ pc[w] = "sync"
    /\ files' = inputs[w]
    /\ pc' = [pc EXCEPT ![w] = "diff"]
    /\ UNCHANGED <<thread, seen, held, inputs, base, database, digested, faults>>

\* A worker that stops while it writes leaves files that are old, missing or new.
LeaveFiles(w) ==
    IF pc[w] = "sync"
      THEN \E left \in Snapshot :
             /\ \A t \in Threads : left[t] \in {files[t], 0, inputs[w][t]}
             /\ files' = left
      ELSE UNCHANGED files

Leave(w) ==
    /\ pc' = [pc EXCEPT ![w] = "idle"]
    /\ inputs' = [inputs EXCEPT ![w] = Nothing]

\* mark_global_phase2_job_succeeded: the selection is rewritten, for the outputs that
\* are still the ones that were selected.
RecordSuccess_AnySnapshot(w) ==
    IF OwnsGlobal(w)
      THEN /\ global' = [global EXCEPT !.status = "done", !.lease = FALSE, !.recent = TRUE]
           /\ out' = [t \in Threads |->
                        [out[t] EXCEPT !.selected =
                           IF out[t].source # 0 THEN inputs[w][t] ELSE 0]]
      ELSE UNCHANGED <<global, out>>
RecordSuccess(w) ==
    IF OwnsGlobal(w)
      THEN /\ global' = [global EXCEPT !.status = "done", !.lease = FALSE, !.recent = TRUE]
           /\ out' = [t \in Threads |->
                        [out[t] EXCEPT !.selected =
                           IF inputs[w][t] = out[t].source THEN inputs[w][t] ELSE 0]]
      ELSE UNCHANGED <<global, out>>

\* The workspace is what the baseline has, and the artifacts are valid: done.
NoChanges(w) ==
    /\ pc[w] = "diff" /\ files = base
    /\ RecordSuccess(w) /\ Leave(w)
    /\ UNCHANGED <<thread, seen, held, workspace, job, digested, faults>>

\* There are changes, or the artifacts are not valid: spawn_consolidation_agent.
RunAgent(w) ==
    /\ pc[w] = "diff"
    /\ pc' = [pc EXCEPT ![w] = "agent"]
    /\ UNCHANGED <<thread, seen, held, inputs, workspace, database, digested, faults>>

\* loop_agent: the lease is renewed while the agent runs; a worker that lost the job
\* stops the agent.
Heartbeat(w) ==
    /\ pc[w] = "agent"
    /\ IF OwnsGlobal(w)
         THEN /\ global' = [global EXCEPT !.lease = TRUE]
              /\ UNCHANGED <<pc, inputs>>
         ELSE Leave(w) /\ UNCHANGED global
    /\ UNCHANGED <<thread, seen, held, workspace, job, out, digested, faults>>

\* The agent cannot be shut down: the worker leaves and keeps its lease.
ShutdownFails(w) ==
    /\ pc[w] = "agent" /\ Fault
    /\ Leave(w)
    /\ UNCHANGED <<thread, seen, held, workspace, database, digested>>

\* The agent completed, was shut down and left valid artifacts.  A last heartbeat tells
\* whether the worker still owns the job.
Confirm_Assumes(w) ==
    /\ pc[w] = "agent"
    /\ global' = IF OwnsGlobal(w) THEN [global EXCEPT !.lease = TRUE] ELSE global
    /\ pc' = [pc EXCEPT ![w] = "reset"]
    /\ digested' = digested \union {inputs[w]}
    /\ UNCHANGED <<thread, seen, held, inputs, workspace, job, out, faults>>
Confirm(w) ==
    /\ pc[w] = "agent"
    /\ IF OwnsGlobal(w)
         THEN /\ global' = [global EXCEPT !.lease = TRUE]
              /\ pc' = [pc EXCEPT ![w] = "reset"]
              /\ digested' = digested \union {inputs[w]}
              /\ UNCHANGED inputs
         ELSE Leave(w) /\ UNCHANGED <<global, digested>>
    /\ UNCHANGED <<thread, seen, held, workspace, job, out, faults>>

\* reset_memory_workspace_baseline removes the repository ...
RemoveBaseline(w) ==
    /\ pc[w] = "reset"
    /\ base' = None
    /\ pc' = [pc EXCEPT ![w] = "commit"]
    /\ UNCHANGED <<thread, seen, held, inputs, files, database, digested, faults>>

\* ... and commits the files to a new one.  Its index, written last, decides nothing.
CommitBaseline(w) ==
    /\ pc[w] = "commit"
    /\ base' = files
    /\ pc' = [pc EXCEPT ![w] = "record"]
    /\ UNCHANGED <<thread, seen, held, inputs, files, database, digested, faults>>

Record(w) ==
    /\ pc[w] = "record"
    /\ RecordSuccess(w) /\ Leave(w)
    /\ UNCHANGED <<thread, seen, held, workspace, job, digested, faults>>

\* Any step up to the index of the new baseline may fail: mark_global_phase2_job_failed.
\* What the worker has done to the workspace stays.
FailGlobal(w) ==
    /\ pc[w] \notin {"idle", "phase1"} /\ Fault
    /\ global' = IF OwnsGlobal(w)
                    THEN [global EXCEPT !.status = "error", !.lease = FALSE, !.waiting = TRUE,
                                        !.recent = TRUE, !.failed = TRUE]
                    ELSE global
    /\ LeaveFiles(w) /\ Leave(w)
    /\ UNCHANGED <<thread, seen, held, base, job, out, digested>>

-----------------------------------------------------------------------------
(* Threads, time and crashes *)

\* The thread is used again.
Update(t) ==
    /\ gone[t] = "nothing" /\ source[t] < MaxSource
    /\ source' = [source EXCEPT ![t] = @ + 1]
    /\ UNCHANGED <<mode, marking, gone, worker, workspace, database, digested, faults>>

\* mark_thread_memory_mode_polluted, in three statements: it reads whether the thread's
\* output is selected, ...
ReadSelected(t) ==
    /\ marking[t] = "no" /\ gone[t] = "nothing"
    /\ marking' = [marking EXCEPT ![t] = IF out[t].selected # 0 THEN "selected" ELSE "unselected"]
    /\ UNCHANGED <<source, mode, gone, worker, workspace, database, digested, faults>>

\* ... updates the thread's row, ...
Pollute(t) ==
    /\ marking[t] \in {"selected", "unselected"}
    /\ marking' = [marking EXCEPT ![t] = IF @ = "selected" THEN "enqueue" ELSE "no"]
    /\ mode' = [mode EXCEPT ![t] = "polluted"]
    /\ UNCHANGED <<source, gone, worker, workspace, database, digested, faults>>

\* ... and asks for a consolidation that forgets it.
EnqueueForgetting(t) ==
    /\ marking[t] = "enqueue"
    /\ marking' = [marking EXCEPT ![t] = "no"]
    /\ global' = Enqueued
    /\ UNCHANGED <<source, mode, gone, worker, workspace, job, out, digested, faults>>

\* reconcile_rollout, on a search or a rename, gives a legacy thread the mode that its
\* rollout states, and "enabled" when it states none.
Reconcile(t) ==
    /\ t \in Legacy /\ mode[t] = "polluted" /\ gone[t] = "nothing"
    /\ mode' = [mode EXCEPT ![t] = "enabled"]
    /\ UNCHANGED <<source, marking, gone, worker, workspace, database, digested, faults>>

\* Deleting a thread shuts its session down, whatever that was doing, and removes its
\* rollout first, ...
RemoveRollout(t) ==
    /\ gone[t] = "nothing"
    /\ gone' = [gone EXCEPT ![t] = "rollout"]
    /\ marking' = [marking EXCEPT ![t] = "no"]
    /\ UNCHANGED <<source, mode, worker, workspace, database, digested, faults>>

\* ... then its memory, ...
DeleteThreadMemory_KeepsJob(t) ==
    /\ gone[t] = "rollout"
    /\ gone' = [gone EXCEPT ![t] = "memory"]
    /\ out' = [out EXCEPT ![t] = NoOutput]
    /\ global' = IF out[t].selected # 0 THEN Enqueued ELSE global
    /\ UNCHANGED <<source, mode, marking, worker, workspace, job, digested, faults>>
DeleteThreadMemory(t) ==
    /\ gone[t] = "rollout"
    /\ gone' = [gone EXCEPT ![t] = "memory"]
    /\ job' = [job EXCEPT ![t] = NoJob]
    /\ out' = [out EXCEPT ![t] = NoOutput]
    /\ global' = IF out[t].selected # 0 THEN Enqueued ELSE global
    /\ UNCHANGED <<source, mode, marking, worker, workspace, digested, faults>>

\* ... and its row last: until then the thread can be claimed again.
DeleteThreadRow(t) ==
    /\ gone[t] = "memory"
    /\ gone' = [gone EXCEPT ![t] = "row"]
    /\ UNCHANGED <<source, mode, marking, worker, workspace, database, digested, faults>>

\* prune_stage1_outputs_for_retention: an output nobody used for long.
Prune(t) ==
    /\ out[t].source # 0 /\ out[t].selected = 0
    /\ out' = [out EXCEPT ![t] = NoOutput]
    /\ UNCHANGED <<thread, worker, workspace, job, global, digested, faults>>

\* A lease runs out under a worker that samples or has its agent run, which is a fault,
\* or after its worker has gone.  The other steps take much less than a lease.
Expire(t) ==
    /\ job[t].status = "running" /\ job[t].lease
    /\ \/ held[job[t].owner][t] = NoClaim /\ UNCHANGED faults
       \/ held[job[t].owner][t] # NoClaim /\ Fault
    /\ job' = [job EXCEPT ![t].lease = FALSE]
    /\ UNCHANGED <<thread, worker, workspace, out, global, digested>>

ExpireGlobal ==
    /\ global.status = "running" /\ global.lease
    /\ \/ pc[global.owner] \in {"idle", "phase1"} /\ UNCHANGED faults
       \/ pc[global.owner] = "agent" /\ Fault
    /\ global' = [global EXCEPT !.lease = FALSE]
    /\ UNCHANGED <<thread, worker, workspace, job, out, digested>>

RetryDue(t) ==
    /\ job[t].waiting
    /\ job' = [job EXCEPT ![t].waiting = FALSE]
    /\ UNCHANGED <<thread, worker, workspace, out, global, digested, faults>>

GlobalDue ==
    /\ global.waiting \/ global.recent
    /\ global' = [global EXCEPT !.waiting = FALSE, !.recent = FALSE]
    /\ UNCHANGED <<thread, worker, workspace, job, out, digested, faults>>

\* The process dies, or cannot reach the database to say how its job ended.
Crash(w) ==
    /\ pc[w] # "idle" /\ Fault
    /\ LeaveFiles(w) /\ Leave(w)
    /\ seen' = [seen EXCEPT ![w] = Nothing]
    /\ held' = [held EXCEPT ![w] = [t \in Threads |-> NoClaim]]
    /\ UNCHANGED <<thread, base, database, digested>>

-----------------------------------------------------------------------------

Work(w) ==
    \/ Start(w) \/ ClaimGlobal(w) \/ Prepare(w) \/ Select(w) \/ Sync(w) \/ NoChanges(w)
    \/ RunAgent(w) \/ Confirm(w) \/ RemoveBaseline(w) \/ CommitBaseline(w) \/ Record(w)
    \/ \E t \in Threads : \/ Claim(w, t) \/ LoadRollout(w, t)
                          \/ Succeed(w, t) \/ SucceedNoOutput(w, t) \/ Fail(w, t)

Trouble(w) == ClaimFails(w) \/ ShutdownFails(w) \/ FailGlobal(w) \/ Crash(w)

Use(t) ==
    \/ Update(t) \/ ReadSelected(t) \/ Pollute(t) \/ EnqueueForgetting(t)
    \/ Reconcile(t) \/ RemoveRollout(t) \/ DeleteThreadMemory(t) \/ DeleteThreadRow(t) \/ Prune(t)

Time == ExpireGlobal \/ GlobalDue \/ \E t \in Threads : Expire(t) \/ RetryDue(t)

Next ==
    \/ \E w \in Workers : Work(w) \/ Heartbeat(w) \/ Trouble(w)
    \/ \E t \in Threads : Use(t)
    \/ Time

Spec == Init /\ [][Next]_vars

\* Sessions keep being started and a pipeline that was started goes on: a worker always
\* has a step to take, so this is its weak fairness.  And time passes.
FairSpec ==
    /\ Spec
    /\ \A w \in Workers : []<><<Work(w)>>_vars
    /\ \A t \in Threads : WF_vars(Expire(t)) /\ WF_vars(RetryDue(t))
    /\ WF_vars(ExpireGlobal) /\ WF_vars(GlobalDue)

-----------------------------------------------------------------------------
(* Properties *)

\* The job's success watermark vouches for the output: an output was produced for
\* exactly the recorded watermark, and a thread that is gone has none, however
\* long a worker held on to its claim.
OutputIsVouched ==
    \A t \in Threads :
      /\ out[t].source # 0 => out[t].source = job[t].done
      /\ gone[t] \in {"memory", "row"} => out[t] = NoOutput

\* "Successful Phase 2 runs mark the exact stage-1 snapshots they consumed": an output
\* is marked only for the update an agent worked through for the owner of the job, never
\* for the one phase 1 replaced it with meanwhile.
MarksWhatWasConsumed ==
    [][\A t \in Threads :
         (out'[t].selected # 0 /\ out'[t].selected # out[t].selected)
            => /\ out'[t].selected = out'[t].source
               /\ \E snapshot \in digested : snapshot[t] = out'[t].selected]_vars

\* Nothing passes for consolidated that no agent has worked through: the baseline, by
\* which the next worker tells whether there is anything to do, holds inputs some agent
\* completed for the owner of the job, wherever a reset of the baseline, the writing of
\* the inputs or a worker broke off.
BaselineIsDigested == base # None => base \in digested

\* A stale thread that the scans list again and again gets its memory: its job succeeds
\* for its last update or uses up its retries.  Neither dead workers nor lost claims
\* block it.
StaleIsProcessed ==
    \A t \in Threads :
      []<>(\E w \in Workers : seen[w][t] # 0)
        => []<>(\/ gone[t] # "nothing"
                \/ job[t].done = source[t]
                \/ job[t].left = 0 /\ job[t].input = source[t])

\* What a thread contributed leaves the baseline for good when the thread is deleted, or
\* is polluted and stays so: a legacy thread may be enabled again.
PollutedIsForgotten ==
    \A t \in Threads :
      <>[](mode[t] = "polluted" \/ gone[t] \in {"memory", "row"})
        => <>[](base = None \/ base[t] = 0)
=============================================================================
