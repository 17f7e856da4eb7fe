-------------------------- MODULE MemoryJobsProofs --------------------------
(***************************************************************************)
(* The invariants of the memory pipeline hold for any number of threads,   *)
(* workers, retries and faults.                                            *)
(***************************************************************************)
EXTENDS MemoryJobs, TLAPS

\* A new or running job has a try left, and a running one is for a newer update than
\* its last success.
RunningIsFresh ==
    \A t \in Threads :
      /\ job[t].status \in {"none", "running"} => job[t].left > 0
      /\ job[t].status = "running" => job[t].done < job[t].input

\* The claim a worker holds on a job it still owns is for the job's input; if its
\* rollout was read, the thread still has its memory.
ClaimIsInput ==
    \A w \in Workers, t \in Threads :
      (Owns(w, t) /\ held[w][t] # NoClaim) =>
        /\ held[w][t].source = job[t].input
        /\ held[w][t].loaded => gone[t] \notin {"memory", "row"}

\* Outside of the agent's run, which may outlast the lease, the worker in phase 2 has
\* the global job under a valid lease.
Leased == {"prepare", "select", "sync", "diff", "reset", "commit", "record"}
PhaseTwoIsLeased ==
    \A w \in Workers : pc[w] \in Leased => OwnsGlobal(w) /\ global.lease

\* From its last write on, the workspace holds what the owner of the global job selected.
OwnerWroteFiles ==
    \A w \in Workers :
      (pc[w] \in {"diff", "agent", "reset", "commit", "record"} /\ OwnsGlobal(w))
        => inputs[w] = files

\* While there is no baseline the files, which the next worker will make the baseline,
\* were consolidated: nobody writes inputs without one, and the worker that removes it,
\* replaces it or records its selection has had its inputs consolidated.
BaselineIsKnown ==
    /\ BaselineIsDigested
    /\ base = None => files \in digested
    /\ \A w \in Workers :
         /\ pc[w] \in {"select", "sync", "diff"} => base # None
         /\ pc[w] \in {"reset", "commit", "record"} => inputs[w] \in digested

PhaseTwo == PhaseTwoIsLeased /\ OwnerWroteFiles /\ BaselineIsKnown

IInv ==
    /\ TypeOK
    /\ RunningIsFresh /\ ClaimIsInput /\ OutputIsVouched
    /\ PhaseTwo
-----------------------------------------------------------------------------
(* Types *)

\* What one worker, one thread's row or the global row becomes is of its type.
LEMMA RowTypes ==
    /\ Nothing \in Snapshot /\ NoClaim \in Claims
    /\ NoJob \in JobRows /\ NoGlobal \in GlobalRows /\ NoOutput \in Outputs
BY MemoryJobsAssumption DEF Nothing, Snapshot, NoClaim, Claims, NoJob, JobRows, NoGlobal,
   GlobalRows, NoOutput, Outputs, Sources

\* Writing one entry of a worker's snapshot or claims, or one thread's row.
LEMMA EntryTypes ==
    ASSUME NEW S, NEW w \in Workers, NEW t \in Threads, NEW v \in S
    PROVE  /\ \A f \in [Threads -> S] : [f EXCEPT ![t] = v] \in [Threads -> S]
           /\ \A g \in [Workers -> [Threads -> S]] :
                [g EXCEPT ![w][t] = v] \in [Workers -> [Threads -> S]]
OBVIOUS

\* What the transactions write into a job's row.
LEMMA JobTypes ==
    ASSUME NEW r \in JobRows, NEW s \in Sources, NEW w \in Workers
    PROVE  /\ \A l \in 0..Retries :
                [r EXCEPT !.status = "running", !.owner = w, !.lease = TRUE, !.waiting = FALSE,
                          !.input = s, !.left = l] \in JobRows
           /\ [r EXCEPT !.status = "done", !.lease = FALSE, !.done = r.input] \in JobRows
           /\ r.left > 0 => [r EXCEPT !.status = "error", !.lease = FALSE, !.waiting = TRUE,
                                      !.left = r.left - 1] \in JobRows
           /\ [r EXCEPT !.lease = FALSE] \in JobRows
           /\ [r EXCEPT !.waiting = FALSE] \in JobRows
<1>1. ASSUME NEW l \in 0..Retries
      PROVE  [r EXCEPT !.status = "running", !.owner = w, !.lease = TRUE, !.waiting = FALSE,
                       !.input = s, !.left = l] \in JobRows
  BY DEF JobRows
<1>2. [r EXCEPT !.status = "done", !.lease = FALSE, !.done = r.input] \in JobRows
  BY DEF JobRows
<1>3. ASSUME r.left > 0
      PROVE  [r EXCEPT !.status = "error", !.lease = FALSE, !.waiting = TRUE,
                       !.left = r.left - 1] \in JobRows
  <2>1. r.left - 1 \in 0..Retries
    BY <1>3, MemoryJobsAssumption DEF JobRows
  <2> QED BY <2>1 DEF JobRows
<1>4. [r EXCEPT !.lease = FALSE] \in JobRows /\ [r EXCEPT !.waiting = FALSE] \in JobRows
  BY DEF JobRows
<1> QED BY <1>1, <1>2, <1>3, <1>4

\* ... and into the row of the global job.
LEMMA GlobalTypes ==
    ASSUME NEW r \in GlobalRows, NEW w \in Workers
    PROVE  /\ [r EXCEPT !.status = "pending", !.waiting = FALSE] \in GlobalRows
           /\ [r EXCEPT !.status = "done", !.lease = FALSE, !.recent = TRUE] \in GlobalRows
           /\ [r EXCEPT !.status = "error", !.lease = FALSE, !.waiting = TRUE,
                        !.recent = TRUE, !.failed = TRUE] \in GlobalRows
           /\ \A b \in BOOLEAN : [r EXCEPT !.lease = b] \in GlobalRows
           /\ [r EXCEPT !.waiting = FALSE, !.recent = FALSE] \in GlobalRows
           /\ [status |-> "running", owner |-> w, lease |-> TRUE, waiting |-> FALSE,
               recent |-> FALSE, failed |-> FALSE] \in GlobalRows
BY DEF GlobalRows

LEMMA EnqueuedType == TypeOK => Enqueued \in GlobalRows
<1> SUFFICES ASSUME TypeOK PROVE Enqueued \in GlobalRows
  OBVIOUS
<1>1. global \in GlobalRows
  BY DEF TypeOK
<1> QED BY <1>1 DEF Enqueued, GlobalRows

LEMMA InitInv == Init => IInv
<1> SUFFICES ASSUME Init PROVE IInv
  OBVIOUS
<1>1. TypeOK
  <2>1. 1 \in 1..MaxSource /\ 0 \in 0..MaxFaults
    BY MemoryJobsAssumption
  <2>2. /\ source \in [Threads -> 1..MaxSource]
        /\ mode \in [Threads -> {"enabled", "polluted"}]
        /\ marking \in [Threads -> {"no", "selected", "unselected", "enqueue"}]
        /\ gone \in [Threads -> {"nothing", "rollout", "memory", "row"}]
    BY <2>1 DEF Init
  <2>3. /\ job \in [Threads -> JobRows] /\ out \in [Threads -> Outputs] /\ global \in GlobalRows
        /\ seen \in [Workers -> Snapshot] /\ inputs \in [Workers -> Snapshot]
        /\ held \in [Workers -> [Threads -> Claims]]
        /\ files \in Snapshot /\ digested \subseteq Snapshot
    BY RowTypes DEF Init
  <2>4. pc \in [Workers -> Labels]
    BY DEF Init, Labels
  <2> QED BY <2>1, <2>2, <2>3, <2>4 DEF Init, TypeOK
<1>2. RunningIsFresh /\ ClaimIsInput /\ OutputIsVouched
  BY MemoryJobsAssumption
     DEF Init, RunningIsFresh, ClaimIsInput, Owns, NoJob, OutputIsVouched, NoOutput
<1>3. PhaseTwo
  BY DEF Init, PhaseTwo, PhaseTwoIsLeased, Leased, OwnerWroteFiles, BaselineIsKnown,
         BaselineIsDigested
<1> QED BY <1>1, <1>2, <1>3 DEF IInv

LEMMA PhaseOneTypes ==
    ASSUME TypeOK, RunningIsFresh, NEW w \in Workers, NEW t \in Threads
    PROVE  \/ Claim(w, t) \/ LoadRollout(w, t)
           \/ Succeed(w, t) \/ SucceedNoOutput(w, t) \/ Fail(w, t)
           => TypeOK'
<1> USE DEF thread, workspace, database
<1>t. /\ seen[w] \in Snapshot /\ seen[w][t] \in Sources
      /\ job[t] \in JobRows /\ job[t].left \in 0..Retries
      /\ out[t] \in Outputs /\ held[w][t] \in Claims
  BY DEF TypeOK, Snapshot, JobRows
<1>c. held[w][t].source \in Sources
  BY <1>t DEF Claims
<1>2. ASSUME Claim(w, t) PROVE TypeOK'
  <2> DEFINE s == seen[w][t]
             l == IF s > job[t].input THEN Retries ELSE job[t].left
             claims == {u \in Threads : held[w][u] # NoClaim} \union {t}
  <2>1. [seen[w] EXCEPT ![t] = 0] \in Snapshot
    BY <1>t, MemoryJobsAssumption DEF Snapshot, Sources
  <2>2. seen' \in [Workers -> Snapshot]
    <3>1. seen' = [seen EXCEPT ![w] = Nothing]
              \/ seen' = [seen EXCEPT ![w] = [seen[w] EXCEPT ![t] = 0]]
      BY <1>2 DEF Claim, TypeOK
    <3> QED BY <2>1, <3>1, RowTypes DEF TypeOK
  <2>3. job' \in [Threads -> JobRows]
    <3>1. CASE Claimable(t, s)
      <4> DEFINE r == [job[t] EXCEPT !.status = "running", !.owner = w, !.lease = TRUE,
                                      !.waiting = FALSE, !.input = s, !.left = l]
      <4>1. l \in 0..Retries
        BY <1>t, MemoryJobsAssumption
      <4>2. r \in JobRows
        BY <1>t, <4>1, JobTypes
      <4>3. job' = [job EXCEPT ![t] = r]
        BY <1>2, <3>1 DEF Claim, TypeOK
      <4> QED BY <4>2, <4>3 DEF TypeOK
    <3>2. CASE ~Claimable(t, s)
      BY <1>2, <3>2 DEF Claim, TypeOK
    <3> QED BY <3>1, <3>2
  <2>4. held' \in [Workers -> [Threads -> Claims]]
    <3>1. [source |-> s, loaded |-> FALSE] \in Claims
      BY <1>t DEF Claims
    <3>2. PICK c \in Claims : c = [source |-> s, loaded |-> FALSE]
      BY <3>1
    <3>3. held' = [held EXCEPT ![w][t] = c] \/ held' = held
      BY <1>2, <3>2 DEF Claim
    <3>4. held \in [Workers -> [Threads -> Claims]]
      BY DEF TypeOK
    <3>5. [held EXCEPT ![w][t] = c] \in [Workers -> [Threads -> Claims]]
      BY <3>4
    <3> QED BY <3>3, <3>4, <3>5
  <2> QED BY <1>2, <2>2, <2>3, <2>4 DEF TypeOK, Claim
<1>3. ASSUME LoadRollout(w, t) PROVE TypeOK'
  <2>1. [held[w][t] EXCEPT !.loaded = TRUE] \in Claims
    BY <1>t DEF Claims
  <2>2. held' = [held EXCEPT ![w][t] = [held[w][t] EXCEPT !.loaded = TRUE]]
    BY <1>3 DEF LoadRollout, TypeOK
  <2>3. held' \in [Workers -> [Threads -> Claims]]
    BY <2>1, <2>2, EntryTypes DEF TypeOK
  <2> QED BY <1>3, <2>3 DEF TypeOK, LoadRollout
<1>4. ASSUME Settle(w, t) PROVE held' \in [Workers -> [Threads -> Claims]]
  BY <1>4, RowTypes, EntryTypes DEF TypeOK, Settle
<1>5. Done(t) \in JobRows
  <2>1. 0 \in Sources
    BY MemoryJobsAssumption DEF Sources
  <2> QED BY <1>t, <2>1, JobTypes DEF Done
<1>6. ASSUME Succeed(w, t) PROVE TypeOK'
  <2>1. Settle(w, t)
    BY <1>6 DEF Succeed
  <2>2. job' \in [Threads -> JobRows] /\ global' \in GlobalRows
    BY <1>5, <1>6, EnqueuedType DEF TypeOK, Succeed
  <2>3. [out[t] EXCEPT !.source = held[w][t].source] \in Outputs
    BY <1>t, <1>c DEF Outputs
  <2>4. out' = out \/ out' = [out EXCEPT ![t] = [out[t] EXCEPT !.source = held[w][t].source]]
    BY <1>6 DEF TypeOK, Succeed
  <2>5. out' \in [Threads -> Outputs]
    BY <2>3, <2>4 DEF TypeOK
  <2> QED BY <1>4, <2>1, <2>2, <2>5 DEF TypeOK, Settle
<1>7. ASSUME SucceedNoOutput(w, t) PROVE TypeOK'
  <2>1. Settle(w, t)
    BY <1>7 DEF SucceedNoOutput
  <2>2. job' \in [Threads -> JobRows] /\ global' \in GlobalRows
    BY <1>5, <1>7, EnqueuedType DEF TypeOK, SucceedNoOutput
  <2>3. out' \in [Threads -> Outputs]
    BY <1>7, RowTypes DEF TypeOK, SucceedNoOutput
  <2> QED BY <1>4, <2>1, <2>2, <2>3 DEF TypeOK, Settle
<1>8. ASSUME Fail(w, t) PROVE TypeOK'
  <2>1. Settle(w, t)
    BY <1>8 DEF Fail
  <2>2. job' \in [Threads -> JobRows]
    <3>1. CASE Owns(w, t)
      <4> DEFINE r == [job[t] EXCEPT !.status = "error", !.lease = FALSE, !.waiting = TRUE,
                                     !.left = job[t].left - 1]
      <4>1. job[t].left > 0
        BY <3>1 DEF RunningIsFresh, Owns
      <4>2. r \in JobRows
        BY <1>t, <4>1, JobTypes
      <4>3. job' = [job EXCEPT ![t] = r]
        BY <1>8, <3>1 DEF Fail, TypeOK
      <4> QED BY <4>2, <4>3 DEF TypeOK
    <3>2. CASE ~Owns(w, t)
      BY <1>8, <3>2 DEF Fail, TypeOK
    <3> QED BY <3>1, <3>2
  <2> QED BY <1>4, <1>8, <2>1, <2>2 DEF TypeOK, Settle, Fail
<1> QED BY <1>2, <1>3, <1>6, <1>7, <1>8

LEMMA StartTypes ==
    ASSUME TypeOK, NEW w \in Workers
    PROVE  Start(w) \/ ClaimFails(w) => TypeOK'
<1> USE DEF thread, workspace, database
<1>1. ASSUME Start(w) PROVE TypeOK'
  <2>1. PICK listed \in SUBSET Threads :
          seen' = [seen EXCEPT ![w] = [t \in Threads |-> IF t \in listed THEN source[t] ELSE 0]]
    BY <1>1 DEF Start
  <2>2. \A t \in Threads : source[t] \in Sources /\ 0 \in Sources
    BY MemoryJobsAssumption DEF TypeOK, Sources
  <2>3. seen' \in [Workers -> Snapshot]
    BY <2>1, <2>2 DEF TypeOK, Snapshot
  <2>4. pc' \in [Workers -> Labels]
    BY <1>1 DEF TypeOK, Start, Labels
  <2> QED BY <1>1, <2>3, <2>4 DEF TypeOK, Start
<1>2. ASSUME ClaimFails(w) PROVE TypeOK'
  <2>1. faults' \in 0..MaxFaults
    BY <1>2, MemoryJobsAssumption DEF TypeOK, ClaimFails, Fault
  <2>2. seen' \in [Workers -> Snapshot] /\ held' \in [Workers -> [Threads -> Claims]]
    BY <1>2, RowTypes DEF ClaimFails, TypeOK
  <2> QED BY <1>2, <2>1, <2>2 DEF ClaimFails, TypeOK
<1> QED BY <1>1, <1>2

LEMMA PhaseTwoTypes ==
    ASSUME TypeOK, NEW w \in Workers
    PROVE  \/ ClaimGlobal(w) \/ Prepare(w) \/ Select(w) \/ Sync(w) \/ NoChanges(w) \/ RunAgent(w)
           \/ Heartbeat(w) \/ ShutdownFails(w) \/ Confirm(w) \/ RemoveBaseline(w)
           \/ CommitBaseline(w) \/ Record(w) \/ FailGlobal(w) \/ Crash(w)
           => TypeOK'
<1> USE DEF thread, workspace, database
<1>g. global \in GlobalRows
  BY DEF TypeOK
<1>l. ASSUME Leave(w)
      PROVE  /\ inputs' \in [Workers -> Snapshot]
             /\ pc' \in [Workers -> Labels]
  BY <1>l, RowTypes DEF TypeOK, Leave, Labels
<1>s. ASSUME LeaveFiles(w) PROVE files' \in Snapshot
  BY <1>s DEF LeaveFiles, TypeOK
<1>f. ASSUME Fault PROVE faults' \in 0..MaxFaults
  BY <1>f, MemoryJobsAssumption DEF TypeOK, Fault
<1>r. ASSUME RecordSuccess(w)
      PROVE  global' \in GlobalRows /\ out' \in [Threads -> Outputs]
  <2>1. CASE OwnsGlobal(w)
    <3>1. ASSUME NEW t \in Threads, NEW s \in Sources
          PROVE  [out[t] EXCEPT !.selected = s] \in Outputs
      <4>1. out[t] \in Outputs
        BY DEF TypeOK
      <4> QED BY <4>1 DEF Outputs
    <3>2. \A t \in Threads : (IF inputs[w][t] = out[t].source THEN inputs[w][t] ELSE 0) \in Sources
      BY MemoryJobsAssumption DEF TypeOK, Snapshot, Sources
    <3>3. out' \in [Threads -> Outputs]
      BY <1>r, <2>1, <3>1, <3>2 DEF RecordSuccess
    <3>4. global' \in GlobalRows
      BY <1>r, <2>1, <1>g, GlobalTypes DEF RecordSuccess
    <3> QED BY <3>3, <3>4
  <2>2. CASE ~OwnsGlobal(w)
    BY <1>r, <2>2 DEF RecordSuccess, TypeOK
  <2> QED BY <2>1, <2>2
<1>1. ASSUME ClaimGlobal(w) PROVE TypeOK'
  <2>1. global' \in GlobalRows
    BY <1>1, <1>g, GlobalTypes DEF ClaimGlobal
  <2>2. pc' \in [Workers -> Labels]
    BY <1>1 DEF ClaimGlobal, TypeOK, Labels
  <2> QED BY <1>1, <2>1, <2>2 DEF ClaimGlobal, TypeOK
<1>2. ASSUME Select(w) PROVE TypeOK'
  <2>1. \A t \in Threads : out[t].source \in Sources /\ 0 \in Sources
    BY MemoryJobsAssumption DEF TypeOK, Outputs, Sources
  <2>2. inputs' \in [Workers -> Snapshot]
    BY <1>2, <2>1 DEF Select, Snapshot, TypeOK
  <2> QED BY <1>2, <2>2 DEF Select, TypeOK, Labels
<1>3. ASSUME NoChanges(w) \/ Record(w) PROVE TypeOK'
  BY <1>3, <1>r, <1>l DEF NoChanges, Record, TypeOK
<1>4. ASSUME RunAgent(w) PROVE TypeOK'
  BY <1>4 DEF RunAgent, TypeOK, Labels
<1>5. ASSUME Heartbeat(w) PROVE TypeOK'
  <2>1. global' \in GlobalRows
    BY <1>5, <1>g, GlobalTypes DEF Heartbeat
  <2> QED BY <1>5, <1>l, <2>1 DEF Heartbeat, TypeOK
<1>6. ASSUME ShutdownFails(w) PROVE TypeOK'
  BY <1>6, <1>l, <1>f DEF ShutdownFails, TypeOK
<1>7. ASSUME Confirm(w) PROVE TypeOK'
  <2>1. global' \in GlobalRows
    BY <1>7, <1>g, GlobalTypes DEF Confirm
  <2>2. /\ inputs' \in [Workers -> Snapshot]
        /\ pc' \in [Workers -> Labels]
    BY <1>7, <1>l DEF Confirm, TypeOK, Labels
  <2>3. digested' \subseteq Snapshot
    BY <1>7 DEF Confirm, TypeOK
  <2> QED BY <1>7, <2>1, <2>2, <2>3 DEF Confirm, TypeOK
<1>8. ASSUME Prepare(w) \/ Sync(w) \/ RemoveBaseline(w) \/ CommitBaseline(w) PROVE TypeOK'
  <2>1. files' \in Snapshot /\ base' \in Snapshot \union {None}
    BY <1>8 DEF Prepare, Sync, RemoveBaseline, CommitBaseline, TypeOK
  <2>2. \E l \in Labels : pc' = [pc EXCEPT ![w] = l]
    BY <1>8 DEF Prepare, Sync, RemoveBaseline, CommitBaseline, Labels
  <2>3. pc' \in [Workers -> Labels]
    BY <2>2 DEF TypeOK
  <2> QED BY <1>8, <2>1, <2>3 DEF Prepare, Sync, RemoveBaseline, CommitBaseline, TypeOK
<1>9. ASSUME FailGlobal(w) PROVE TypeOK'
  <2>1. global' \in GlobalRows
    BY <1>9, <1>g, GlobalTypes DEF FailGlobal
  <2> QED BY <1>9, <1>l, <1>f, <1>s, <2>1 DEF FailGlobal, TypeOK
<1>10. ASSUME Crash(w) PROVE TypeOK'
  <2>1. seen' \in [Workers -> Snapshot] /\ held' \in [Workers -> [Threads -> Claims]]
    BY <1>10, RowTypes DEF Crash, TypeOK
  <2> QED BY <1>10, <1>l, <1>f, <1>s, <2>1 DEF Crash, TypeOK
<1> QED BY <1>1, <1>2, <1>3, <1>4, <1>5, <1>6, <1>7, <1>8, <1>9, <1>10

LEMMA ThreadTypes ==
    ASSUME TypeOK, NEW t \in Threads
    PROVE  Use(t) => TypeOK'
<1> USE DEF worker, workspace, database
<1>1. ASSUME Update(t) PROVE TypeOK'
  BY <1>1, MemoryJobsAssumption DEF Update, TypeOK
<1>2. ASSUME ReadSelected(t) \/ Pollute(t) \/ Reconcile(t) PROVE TypeOK'
  BY <1>2 DEF ReadSelected, Pollute, Reconcile, TypeOK
<1>3. ASSUME EnqueueForgetting(t) PROVE TypeOK'
  BY <1>3, EnqueuedType DEF EnqueueForgetting, TypeOK
<1>4. ASSUME RemoveRollout(t) \/ DeleteThreadRow(t) PROVE TypeOK'
  BY <1>4 DEF RemoveRollout, DeleteThreadRow, TypeOK
<1>5. ASSUME DeleteThreadMemory(t) PROVE TypeOK'
  <2>1. global' \in GlobalRows
    BY <1>5, EnqueuedType DEF DeleteThreadMemory, TypeOK
  <2> QED BY <1>5, <2>1, RowTypes DEF DeleteThreadMemory, TypeOK
<1>6. ASSUME Prune(t) PROVE TypeOK'
  BY <1>6, RowTypes DEF Prune, TypeOK, thread
<1> QED BY <1>1, <1>2, <1>3, <1>4, <1>5, <1>6 DEF Use

LEMMA TimeTypes ==
    ASSUME TypeOK, Time
    PROVE  TypeOK'
<1> USE DEF thread, worker, workspace
<1>g. global \in GlobalRows
  BY DEF TypeOK
<1>f. ASSUME Fault \/ UNCHANGED faults PROVE faults' \in 0..MaxFaults
  BY <1>f, MemoryJobsAssumption DEF TypeOK, Fault
<1>1. CASE ExpireGlobal
  <2>1. global' = [global EXCEPT !.lease = FALSE]
    BY <1>1 DEF ExpireGlobal
  <2>2. global' \in GlobalRows
    BY <1>g, <2>1 DEF GlobalRows
  <2> QED BY <1>1, <1>f, <2>2 DEF ExpireGlobal, TypeOK
<1>2. CASE GlobalDue
  <2>1. global' = [global EXCEPT !.waiting = FALSE, !.recent = FALSE]
    BY <1>2 DEF GlobalDue
  <2>2. global' \in GlobalRows
    BY <1>g, <2>1 DEF GlobalRows
  <2> QED BY <1>2, <2>2 DEF GlobalDue, TypeOK
<1>3. CASE \E t \in Threads : Expire(t) \/ RetryDue(t)
  <2>1. PICK t \in Threads : Expire(t) \/ RetryDue(t)
    BY <1>3
  <2>2. job[t] \in JobRows
    BY DEF TypeOK
  <2>3. [job[t] EXCEPT !.lease = FALSE] \in JobRows /\ [job[t] EXCEPT !.waiting = FALSE] \in JobRows
    BY <2>2 DEF JobRows
  <2>4. job' = [job EXCEPT ![t] = [job[t] EXCEPT !.lease = FALSE]]
          \/ job' = [job EXCEPT ![t] = [job[t] EXCEPT !.waiting = FALSE]]
    BY <2>1 DEF Expire, RetryDue
  <2>5. job' \in [Threads -> JobRows]
    BY <2>3, <2>4 DEF TypeOK
  <2>6. UNCHANGED <<out, global, digested>> /\ (Fault \/ UNCHANGED faults)
    BY <2>1 DEF Expire, RetryDue
  <2> QED BY <1>f, <2>1, <2>5, <2>6 DEF TypeOK, Expire, RetryDue
<1> QED BY <1>1, <1>2, <1>3 DEF Time

LEMMA NextTypes == TypeOK /\ RunningIsFresh /\ [Next]_vars => TypeOK'
<1> SUFFICES ASSUME TypeOK, RunningIsFresh, [Next]_vars PROVE TypeOK'
  OBVIOUS
<1>1. CASE UNCHANGED vars
  BY <1>1 DEF vars, thread, worker, workspace, database, TypeOK
<1>2. ASSUME NEW w \in Workers, Work(w) \/ Heartbeat(w) \/ Trouble(w)
      PROVE  TypeOK'
  BY <1>2, StartTypes, PhaseOneTypes, PhaseTwoTypes DEF Work, Trouble
<1> QED BY <1>1, <1>2, ThreadTypes, TimeTypes DEF Next

-----------------------------------------------------------------------------
(* Phase 1 *)

\* What the invariant says of one thread.
ThreadInv(t) ==
    /\ job[t].status \in {"none", "running"} => job[t].left > 0
    /\ job[t].status = "running" => job[t].done < job[t].input
    /\ \A w \in Workers :
         (Owns(w, t) /\ held[w][t] # NoClaim) =>
           /\ held[w][t].source = job[t].input
           /\ held[w][t].loaded => gone[t] \notin {"memory", "row"}
    /\ out[t].source # 0 => out[t].source = job[t].done
    /\ gone[t] \in {"memory", "row"} => out[t] = NoOutput

LEMMA ThreadInvIsInv ==
    RunningIsFresh /\ ClaimIsInput /\ OutputIsVouched <=> \A t \in Threads : ThreadInv(t)
BY DEF ThreadInv, RunningIsFresh, ClaimIsInput, OutputIsVouched

\* A thread's invariant is kept by a step that changes neither its row nor its claims,
\* and that may record a selection.
LEMMA ThreadFrame ==
    ASSUME TypeOK, NEW t \in Threads, ThreadInv(t),
           job'[t] = job[t], \A w \in Workers : held'[w][t] = held[w][t] \/ held'[w][t] = NoClaim,
           gone'[t] = gone[t] \/ gone'[t] = "rollout" \/ (gone[t] = "memory" /\ gone'[t] = "row"),
           out'[t] = NoOutput \/ (out'[t].source = out[t].source /\ (out[t] = NoOutput => out'[t] = NoOutput))
    PROVE  ThreadInv(t)'
BY DEF ThreadInv, Owns, NoOutput, TypeOK

\* One worker settles, or makes, its claim on thread t.
LEMMA ClaimStep ==
    ASSUME IInv, TypeOK', NEW w \in Workers, NEW t \in Threads,
           \/ Claim(w, t) \/ LoadRollout(w, t)
           \/ Succeed(w, t) \/ SucceedNoOutput(w, t) \/ Fail(w, t)
    PROVE  \A u \in Threads : ThreadInv(u)'
<1> SUFFICES ASSUME NEW u \in Threads PROVE ThreadInv(u)'
  OBVIOUS
<1> USE DEF thread, database
<1>i. TypeOK /\ ThreadInv(u) /\ ThreadInv(t)
  BY ThreadInvIsInv DEF IInv
<1>r. job[t] \in JobRows /\ out[t] \in Outputs /\ held[w][t] \in Claims
  BY <1>i DEF TypeOK
<1>n. gone'[u] = gone[u]
  BY DEF Claim, LoadRollout, Succeed, SucceedNoOutput, Fail, Settle
<1>1. CASE u # t
  <2>1. job'[u] = job[u] /\ out'[u] = out[u] /\ \A v \in Workers : held'[v][u] = held[v][u]
    BY <1>1, <1>i DEF TypeOK, Claim, LoadRollout, Succeed, SucceedNoOutput, Fail, Settle
  <2> QED BY <1>i, <1>n, <2>1, ThreadFrame
<1>2. CASE u = t /\ Claim(w, t)
  <2>1. CASE Claimable(t, seen[w][t])
    <3>1. /\ job'[t].status = "running" /\ job'[t].owner = w
          /\ job'[t].input = seen[w][t] /\ job'[t].done = job[t].done
          /\ job'[t].left = IF seen[w][t] > job[t].input THEN Retries ELSE job[t].left
      <4>1. job'[t] = [job[t] EXCEPT !.status = "running", !.owner = w, !.lease = TRUE,
                                     !.waiting = FALSE, !.input = seen[w][t],
                                     !.left = IF seen[w][t] > job[t].input
                                                THEN Retries ELSE job[t].left]
        BY <1>2, <1>i, <2>1 DEF Claim, TypeOK
      <4> QED BY <4>1, <1>r DEF JobRows
    <3>2. job[t].done < seen[w][t]
      BY <2>1 DEF Claimable, Stale
    <3>3. job[t].left > 0 \/ seen[w][t] > job[t].input
      BY <1>i, <2>1 DEF Claimable, ThreadInv
    <3>4. /\ held'[w][t] = [source |-> seen[w][t], loaded |-> FALSE]
          /\ \A v \in Workers \ {w} : held'[v][t] = held[v][t]
          /\ out' = out
      <4>1. PICK c : c = [source |-> seen[w][t], loaded |-> FALSE]
        OBVIOUS
      <4>2. held' = [held EXCEPT ![w][t] = c] /\ out' = out
        BY <1>2, <2>1, <4>1 DEF Claim
      <4>3. held'[w][t] = c /\ \A v \in Workers \ {w} : held'[v][t] = held[v][t]
        BY <1>i, <4>2 DEF TypeOK
      <4> QED BY <4>1, <4>2, <4>3
    <3> QED BY <1>2, <1>i, <1>n, <3>1, <3>2, <3>3, <3>4, MemoryJobsAssumption DEF ThreadInv, Owns
  <2>2. CASE ~Claimable(t, seen[w][t])
    BY <1>2, <1>i, <1>n, <2>2, ThreadFrame DEF Claim
  <2> QED BY <2>1, <2>2
<1>3. CASE u = t /\ LoadRollout(w, t)
  <2>1. /\ held'[w][t].source = held[w][t].source /\ held[w][t] # NoClaim
        /\ \A v \in Workers \ {w} : held'[v][t] = held[v][t]
        /\ UNCHANGED <<job, out, gone>> /\ gone[t] = "nothing"
    BY <1>3, <1>i DEF LoadRollout, TypeOK, Claims
  <2> QED BY <1>3, <1>i, <2>1 DEF ThreadInv, Owns
<1>4. CASE u = t /\ Settle(w, t) /\ ~Owns(w, t) /\ UNCHANGED <<job, out>>
  BY <1>4, <1>i, <1>n, ThreadFrame DEF Settle, TypeOK
<1>5. CASE u = t /\ Succeed(w, t) /\ Owns(w, t)
  <2>1. job'[t].status = "done" /\ job'[t].done = job[t].input
    <3>1. job'[t] = Done(t)
      BY <1>5, <1>i DEF Succeed, TypeOK
    <3> QED BY <3>1, <1>r DEF Done, JobRows
  <2>2. held[w][t].source = job[t].input /\ gone[t] \notin {"memory", "row"}
    BY <1>5, <1>i DEF ThreadInv, Succeed, Settle
  <2>3. out[t].source < job[t].input
    BY <1>5, <1>i, <1>r, MemoryJobsAssumption DEF ThreadInv, Owns, JobRows, Outputs, Sources
  <2>4. held[w][t].source >= out[t].source
    BY <2>2, <2>3, <1>r, MemoryJobsAssumption DEF JobRows, Outputs, Sources
  <2>5. out'[t].source = job[t].input
    BY <1>5, <1>i, <1>r, <2>2, <2>4 DEF Succeed, TypeOK, Outputs
  <2> QED BY <1>5, <1>n, <2>1, <2>2, <2>5 DEF ThreadInv, Owns
<1>6. CASE u = t /\ SucceedNoOutput(w, t) /\ Owns(w, t)
  <2>1. job'[t].status = "done" /\ out'[t] = NoOutput
    <3>1. job'[t] = Done(t) /\ out'[t] = NoOutput
      BY <1>6, <1>i DEF SucceedNoOutput, TypeOK
    <3> QED BY <3>1, <1>r DEF Done, JobRows
  <2> QED BY <1>6, <2>1 DEF ThreadInv, Owns, NoOutput
<1>7. CASE u = t /\ Fail(w, t) /\ Owns(w, t)
  <2>1. job'[t].status = "error" /\ job'[t].done = job[t].done /\ out' = out
    <3>1. /\ job'[t] = [job[t] EXCEPT !.status = "error", !.lease = FALSE, !.waiting = TRUE,
                                       !.left = job[t].left - 1]
          /\ out' = out
      BY <1>7, <1>i DEF Fail, TypeOK
    <3> QED BY <3>1, <1>r DEF JobRows
  <2> QED BY <1>7, <1>i, <1>n, <2>1 DEF ThreadInv, Owns
<1> QED BY <1>1, <1>2, <1>3, <1>4, <1>5, <1>6, <1>7 DEF Succeed, SucceedNoOutput, Fail

\* No other step makes a claim or stores an output.
LEMMA PhaseOneInv ==
    ASSUME IInv, TypeOK', [Next]_vars
    PROVE  (RunningIsFresh /\ ClaimIsInput /\ OutputIsVouched)'
<1> SUFFICES \A t \in Threads : ThreadInv(t)'
  BY ThreadInvIsInv DEF ThreadInv, RunningIsFresh, ClaimIsInput, OutputIsVouched, Owns
<1> USE DEF thread, worker, workspace, database
<1>i. TypeOK /\ \A t \in Threads : ThreadInv(t)
  BY ThreadInvIsInv DEF IInv
<1>f. ASSUME UNCHANGED <<job, held, gone, out>> PROVE \A t \in Threads : ThreadInv(t)'
  BY <1>i, <1>f, ThreadFrame
<1>1. CASE UNCHANGED vars
  BY <1>1, <1>f DEF vars
<1>2. ASSUME NEW w \in Workers, Work(w) \/ Heartbeat(w) \/ Trouble(w)
      PROVE  \A t \in Threads : ThreadInv(t)'
  <2>1. CASE \E t \in Threads : \/ Claim(w, t) \/ LoadRollout(w, t)
                                \/ Succeed(w, t) \/ SucceedNoOutput(w, t) \/ Fail(w, t)
    BY <2>1, ClaimStep
  <2>2. CASE \/ Start(w) \/ ClaimGlobal(w) \/ Prepare(w) \/ Select(w) \/ Sync(w) \/ RunAgent(w) \/ Confirm(w)
             \/ RemoveBaseline(w) \/ CommitBaseline(w)
             \/ Heartbeat(w) \/ ShutdownFails(w) \/ FailGlobal(w)
    <3>1. UNCHANGED <<job, held, gone, out>>
      BY <2>2 DEF Start, ClaimGlobal, Prepare, Select, Sync, RunAgent, Confirm, RemoveBaseline,
                  CommitBaseline, Heartbeat, ShutdownFails, FailGlobal
    <3> QED BY <3>1, <1>f
  <2>3. CASE NoChanges(w) \/ Record(w)
    <3>1. RecordSuccess(w) /\ UNCHANGED <<job, held, gone>>
      BY <2>3 DEF NoChanges, Record
    <3> SUFFICES ASSUME NEW t \in Threads PROVE ThreadInv(t)'
      OBVIOUS
    <3>2. out[t] \in Outputs
      BY <1>i DEF TypeOK
    <3>3. out'[t].source = out[t].source /\ (out[t] = NoOutput => out'[t] = NoOutput)
      <4>1. CASE OwnsGlobal(w)
        <5>1. out'[t] = [out[t] EXCEPT !.selected = IF inputs[w][t] = out[t].source
                                                      THEN inputs[w][t] ELSE 0]
          BY <3>1, <4>1 DEF RecordSuccess
        <5> QED BY <3>2, <5>1 DEF Outputs, NoOutput
      <4> QED BY <3>1, <4>1 DEF RecordSuccess
    <3> QED BY <1>i, <3>1, <3>3, ThreadFrame
  <2>4. CASE Crash(w) \/ ClaimFails(w)
    <3>1. UNCHANGED <<job, out, gone>> /\ held' = [held EXCEPT ![w] = [t \in Threads |-> NoClaim]]
      BY <2>4 DEF Crash, ClaimFails
    <3>2. \A t \in Threads, v \in Workers : held'[v][t] = held[v][t] \/ held'[v][t] = NoClaim
      BY <1>i, <3>1 DEF TypeOK
    <3> QED BY <1>i, <3>1, <3>2, ThreadFrame
  <2> QED BY <1>2, <2>1, <2>2, <2>3, <2>4 DEF Work, Trouble
<1>3. ASSUME NEW t \in Threads, Use(t)
      PROVE  \A u \in Threads : ThreadInv(u)'
  <2>1. CASE \/ Update(t) \/ ReadSelected(t) \/ Pollute(t)
             \/ EnqueueForgetting(t) \/ Reconcile(t)
    BY <2>1, <1>f DEF Update, ReadSelected, Pollute, EnqueueForgetting, Reconcile
  <2>2. CASE RemoveRollout(t) \/ DeleteThreadRow(t) \/ Prune(t)
    <3>1. /\ UNCHANGED <<job, held>>
          /\ \A u \in Threads : out'[u] = out[u] \/ out'[u] = NoOutput
          /\ \A u \in Threads : gone'[u] = gone[u] \/ gone'[u] = "rollout"
                                 \/ (gone[u] = "memory" /\ gone'[u] = "row")
      BY <1>i, <2>2 DEF RemoveRollout, DeleteThreadRow, Prune, TypeOK
    <3> QED BY <1>i, <3>1, ThreadFrame
  <2>3. CASE DeleteThreadMemory(t)
    <3>1. /\ job'[t] = NoJob /\ out'[t] = NoOutput /\ held' = held
          /\ \A u \in Threads \ {t} : job'[u] = job[u] /\ out'[u] = out[u] /\ gone'[u] = gone[u]
      BY <1>i, <2>3 DEF DeleteThreadMemory, TypeOK
    <3>2. ThreadInv(t)'
      BY <3>1, MemoryJobsAssumption DEF ThreadInv, NoJob, NoOutput, Owns
    <3>3. \A u \in Threads \ {t} : ThreadInv(u)'
      BY <1>i, <3>1, ThreadFrame
    <3> QED BY <3>2, <3>3
  <2> QED BY <1>3, <2>1, <2>2, <2>3 DEF Use
<1>4. CASE Time
  <2>1. CASE ExpireGlobal \/ GlobalDue
    BY <2>1, <1>f DEF ExpireGlobal, GlobalDue
  <2>2. ASSUME NEW t \in Threads, Expire(t) \/ RetryDue(t), NEW u \in Threads PROVE ThreadInv(u)'
    <3>1. job[u] \in JobRows
      BY <1>i DEF TypeOK
    <3>2. /\ job'[u] = job[u] \/ job'[u] = [job[u] EXCEPT !.lease = FALSE]
                \/ job'[u] = [job[u] EXCEPT !.waiting = FALSE]
          /\ UNCHANGED <<held, gone, out>>
      BY <1>i, <2>2 DEF Expire, RetryDue, TypeOK
    <3>3. /\ job'[u].status = job[u].status /\ job'[u].owner = job[u].owner
          /\ job'[u].left = job[u].left /\ job'[u].input = job[u].input /\ job'[u].done = job[u].done
      BY <3>1, <3>2 DEF JobRows
    <3> QED BY <1>i, <3>2, <3>3 DEF ThreadInv, Owns
  <2> QED BY <1>4, <2>1, <2>2 DEF Time
<1> QED BY <1>1, <1>2, <1>3, <1>4 DEF Next

-----------------------------------------------------------------------------
(* Phase 2 *)

\* The row of the global job as the workers in phase 2 see it: a step of anybody else
\* keeps the owner of a running job and its lease, unless the owner is idle, in phase 1
\* or waits for its agent.
GlobalKept ==
    (global.status = "running" /\ pc[global.owner] \notin {"idle", "phase1", "agent"} /\ global.lease)
       => global'.status = "running" /\ global'.owner = global.owner /\ global'.lease

\* Nothing a worker in phase 2 relies on changes.
LEMMA PhaseTwoFrame ==
    ASSUME IInv, UNCHANGED <<pc, inputs, files, base, digested>>, GlobalKept,
           \A w \in Workers : OwnsGlobal(w)' => OwnsGlobal(w)
    PROVE  PhaseTwo'
<1>1. PhaseTwoIsLeased'
  BY DEF IInv, PhaseTwo, PhaseTwoIsLeased, Leased, OwnsGlobal, GlobalKept
<1>2. OwnerWroteFiles'
  BY DEF IInv, PhaseTwo, OwnerWroteFiles
<1>3. BaselineIsKnown'
  BY DEF IInv, PhaseTwo, BaselineIsKnown, BaselineIsDigested
<1> QED BY <1>1, <1>2, <1>3 DEF PhaseTwo

LEMMA EnqueuedKeeps ==
    ASSUME TypeOK, global' = Enqueued \/ global' = global
    PROVE  GlobalKept /\ \A w \in Workers : OwnsGlobal(w)' => OwnsGlobal(w)
<1>1. global \in GlobalRows
  BY DEF TypeOK
<1>2. global' = global \/ (global'.status = "pending" /\ global.status # "running")
  BY <1>1 DEF Enqueued, GlobalRows
<1> QED BY <1>2 DEF GlobalKept, OwnsGlobal

\* At most one worker is in phase 2 with a lease.
LEMMA LeasedIsUnique ==
    ASSUME IInv, NEW w \in Workers, pc[w] \in Leased
    PROVE  /\ OwnsGlobal(w) /\ global.lease
           /\ \A v \in Workers \ {w} : ~OwnsGlobal(v) /\ pc[v] \notin Leased
BY DEF IInv, PhaseTwo, PhaseTwoIsLeased, OwnsGlobal

\* A worker takes a step of phase 2 that leaves the row of the global job alone: nobody
\* else relies on the workspace.
LEMMA OwnerStep ==
    ASSUME IInv, NEW w \in Workers, pc[w] \in Leased, pc'[w] \in Leased \union {"agent"},
           \A v \in Workers \ {w} : pc'[v] = pc[v] /\ inputs'[v] = inputs[v],
           UNCHANGED <<global, digested>>,
           pc'[w] \notin {"prepare", "select", "sync"} => inputs'[w] = files',
           base' # None => base' \in digested,
           base' = None => files' \in digested,
           pc'[w] \in {"select", "sync", "diff"} => base' # None,
           pc'[w] \in {"reset", "commit", "record"} => inputs'[w] \in digested
    PROVE  PhaseTwo'
<1>u. OwnsGlobal(w) /\ global.lease /\ \A v \in Workers \ {w} : ~OwnsGlobal(v) /\ pc[v] \notin Leased
  BY LeasedIsUnique
<1>1. PhaseTwoIsLeased'
  BY <1>u DEF PhaseTwoIsLeased, OwnsGlobal
<1>2. OwnerWroteFiles'
  BY <1>u DEF OwnerWroteFiles, OwnsGlobal, Leased
<1>3. BaselineIsKnown'
  BY <1>u DEF IInv, PhaseTwo, BaselineIsKnown, BaselineIsDigested, Leased
<1> QED BY <1>1, <1>2, <1>3 DEF PhaseTwo

\* A worker leaves phase 2 with the baseline and the selection as they are; it may leave
\* files half written.
LEMMA LeaveStep ==
    ASSUME IInv, NEW w \in Workers, Leave(w), LeaveFiles(w),
           UNCHANGED <<base, digested>>,
           GlobalKept \/ OwnsGlobal(w),
           \A v \in Workers : OwnsGlobal(v)' => OwnsGlobal(v)
    PROVE  PhaseTwo'
<1>p. /\ pc'[w] = "idle"
      /\ \A v \in Workers \ {w} : pc'[v] = pc[v] /\ inputs'[v] = inputs[v]
  BY DEF IInv, TypeOK, Leave
<1>1. PhaseTwoIsLeased'
  BY <1>p DEF IInv, PhaseTwo, PhaseTwoIsLeased, Leased, OwnsGlobal, GlobalKept
<1>2. CASE pc[w] = "sync"
  <2>1. /\ base # None
        /\ \A v \in Workers \ {w} : ~OwnsGlobal(v)
    BY <1>2, LeasedIsUnique DEF Leased, IInv, PhaseTwo, BaselineIsKnown
  <2>2. OwnerWroteFiles'
    BY <1>p, <2>1 DEF OwnerWroteFiles
  <2>3. BaselineIsKnown'
    BY <1>p, <2>1 DEF IInv, PhaseTwo, BaselineIsKnown, BaselineIsDigested
  <2> QED BY <1>1, <2>2, <2>3 DEF PhaseTwo
<1>3. CASE pc[w] # "sync"
  <2>1. UNCHANGED files
    BY <1>3 DEF LeaveFiles
  <2>2. OwnerWroteFiles'
    BY <1>p, <2>1 DEF IInv, PhaseTwo, OwnerWroteFiles
  <2>3. BaselineIsKnown'
    BY <1>p, <2>1 DEF IInv, PhaseTwo, BaselineIsKnown, BaselineIsDigested
  <2> QED BY <1>1, <2>2, <2>3 DEF PhaseTwo
<1> QED BY <1>2, <1>3

\* A worker that records its success had the job all along, and its inputs are the
\* baseline or were just consolidated.
LEMMA RecordedIsDigested ==
    ASSUME IInv, NEW w \in Workers, NoChanges(w) \/ Record(w)
    PROVE  /\ OwnsGlobal(w) /\ \A v \in Workers \ {w} : pc[v] \notin Leased
           /\ inputs[w] \in digested
<1>1. pc[w] \in {"diff", "record"} /\ (pc[w] = "diff" => files = base)
  BY DEF NoChanges, Record
<1>2. OwnsGlobal(w) /\ \A v \in Workers \ {w} : pc[v] \notin Leased
  BY <1>1, LeasedIsUnique DEF Leased
<1>3. pc[w] = "diff" => inputs[w] = base /\ base # None
  BY <1>1, <1>2 DEF IInv, PhaseTwo, OwnerWroteFiles, BaselineIsKnown
<1> QED BY <1>1, <1>2, <1>3 DEF IInv, PhaseTwo, BaselineIsKnown, BaselineIsDigested

LEMMA RecordStep ==
    ASSUME IInv, NEW w \in Workers, NoChanges(w) \/ Record(w)
    PROVE  PhaseTwo'
<1> USE DEF workspace
<1>1. OwnsGlobal(w) /\ \A v \in Workers \ {w} : pc[v] \notin Leased
  BY RecordedIsDigested
<1>2. /\ UNCHANGED <<files, base, digested>>
      /\ global' = [global EXCEPT !.status = "done", !.lease = FALSE, !.recent = TRUE]
      /\ pc'[w] = "idle" /\ \A v \in Workers \ {w} : pc'[v] = pc[v] /\ inputs'[v] = inputs[v]
  BY <1>1 DEF IInv, TypeOK, NoChanges, Record, RecordSuccess, Leave
<1>3. global'.status = "done"
  <2>1. global \in GlobalRows
    BY DEF IInv, TypeOK
  <2> QED BY <1>2, <2>1 DEF GlobalRows
<1>4. \A v \in Workers : pc'[v] \notin Leased
  BY <1>1, <1>2 DEF Leased
<1>5. BaselineIsKnown'
  BY <1>1, <1>2, <1>4 DEF IInv, PhaseTwo, BaselineIsKnown, BaselineIsDigested, Leased
<1> QED BY <1>3, <1>4, <1>5 DEF PhaseTwo, PhaseTwoIsLeased, OwnerWroteFiles, OwnsGlobal

LEMMA PhaseTwoWork ==
    ASSUME IInv, NEW w \in Workers, Work(w) \/ Heartbeat(w) \/ Trouble(w)
    PROVE  PhaseTwo'
<1> USE DEF thread, worker, workspace, database
<1>i. TypeOK /\ global \in GlobalRows /\ PhaseTwo
  BY DEF IInv, TypeOK
<1>1. CASE ClaimFails(w) \/ \E t \in Threads : \/ Claim(w, t) \/ LoadRollout(w, t) \/ Succeed(w, t)
                                               \/ SucceedNoOutput(w, t) \/ Fail(w, t)
  <2>1. /\ UNCHANGED <<pc, inputs, files, base, digested>>
        /\ global' = Enqueued \/ global' = global
    BY <1>1 DEF ClaimFails, Claim, LoadRollout, Succeed, SucceedNoOutput, Fail, Settle
  <2> QED BY <1>i, <2>1, EnqueuedKeeps, PhaseTwoFrame
<1>2. CASE Start(w)
  <2>1. /\ pc'[w] = "phase1" /\ \A v \in Workers \ {w} : pc'[v] = pc[v]
        /\ UNCHANGED <<global, inputs, files, base, digested>>
    BY <1>i, <1>2 DEF Start, TypeOK
  <2> QED BY <1>i, <2>1 DEF PhaseTwo, PhaseTwoIsLeased, Leased, OwnerWroteFiles, BaselineIsKnown,
                            BaselineIsDigested, OwnsGlobal
<1>3. CASE ClaimGlobal(w)
  <2>1. /\ \A v \in Workers \ {w} : pc'[v] = pc[v]
        /\ UNCHANGED <<inputs, files, base, digested>>
    BY <1>i, <1>3 DEF ClaimGlobal, TypeOK
  <2>2. CASE ClaimableGlobal
    <3>1. pc'[w] = "prepare" /\ global'.status = "running" /\ global'.owner = w /\ global'.lease
      BY <1>i, <1>3, <2>2 DEF ClaimGlobal, TypeOK
    <3>2. \A v \in Workers : pc[v] \notin Leased
      BY <1>i, <2>2 DEF PhaseTwo, PhaseTwoIsLeased, OwnsGlobal, ClaimableGlobal
    <3> QED BY <1>i, <2>1, <3>1, <3>2
         DEF PhaseTwo, PhaseTwoIsLeased, Leased, OwnerWroteFiles, BaselineIsKnown,
             BaselineIsDigested, OwnsGlobal
  <2>3. CASE ~ClaimableGlobal
    <3>1. pc'[w] = "idle" /\ global' = global
      BY <1>i, <1>3, <2>3 DEF ClaimGlobal, TypeOK
    <3> QED BY <1>i, <2>1, <3>1
         DEF PhaseTwo, PhaseTwoIsLeased, Leased, OwnerWroteFiles, BaselineIsKnown,
             BaselineIsDigested, OwnsGlobal
  <2> QED BY <2>2, <2>3
<1>b. /\ base = None => files \in digested
      /\ base # None => base \in digested
      /\ None \notin Snapshot /\ files # None
  BY <1>i, MemoryJobsAssumption
     DEF PhaseTwo, BaselineIsKnown, BaselineIsDigested, TypeOK, Snapshot, Sources
<1>4. CASE Prepare(w)
  <2>1. /\ pc[w] = "prepare" /\ pc'[w] = "select" /\ \A v \in Workers \ {w} : pc'[v] = pc[v]
        /\ base' = IF base = None THEN files ELSE base
        /\ UNCHANGED <<global, inputs, files, digested>>
    BY <1>i, <1>4 DEF Prepare, TypeOK
  <2>2. base' # None /\ base' \in digested
    BY <1>b, <2>1
  <2> QED BY <2>1, <2>2, OwnerStep DEF Leased
<1>5. CASE Select(w) \/ Sync(w)
  <2>1. /\ \/ pc[w] = "select" /\ pc'[w] = "sync" /\ files' = files
           \/ pc[w] = "sync" /\ pc'[w] = "diff" /\ inputs'[w] = files'
        /\ \A v \in Workers \ {w} : pc'[v] = pc[v] /\ inputs'[v] = inputs[v]
        /\ UNCHANGED <<global, base, digested>>
    BY <1>i, <1>5 DEF Select, Sync, TypeOK
  <2>2. base # None
    BY <1>i, <2>1 DEF PhaseTwo, BaselineIsKnown
  <2> QED BY <1>b, <2>1, <2>2, OwnerStep DEF Leased
<1>6. CASE NoChanges(w) \/ Record(w)
  BY <1>6, RecordStep
<1>o. ASSUME pc[w] \in {"diff", "reset", "commit"}
      PROVE  inputs[w] = files /\ (pc[w] # "diff" => inputs[w] \in digested)
  <2>1. OwnsGlobal(w)
    BY <1>o, LeasedIsUnique DEF Leased
  <2> QED BY <1>i, <1>o, <2>1 DEF PhaseTwo, OwnerWroteFiles, BaselineIsKnown
<1>7. CASE RunAgent(w)
  <2>1. /\ pc[w] = "diff" /\ pc'[w] = "agent" /\ \A v \in Workers \ {w} : pc'[v] = pc[v]
        /\ UNCHANGED <<global, inputs, files, base, digested>>
    BY <1>i, <1>7 DEF RunAgent, TypeOK
  <2> QED BY <1>b, <1>o, <2>1, OwnerStep DEF Leased
<1>8. CASE (Heartbeat(w) \/ Confirm(w)) /\ OwnsGlobal(w)
  <2>1. /\ pc[w] = "agent" /\ pc'[w] \in {"agent", "reset"}
        /\ \A v \in Workers \ {w} : pc'[v] = pc[v]
        /\ UNCHANGED <<inputs, files, base>>
        /\ global' = [global EXCEPT !.lease = TRUE]
        /\ digested \subseteq digested' /\ (pc'[w] = "reset" => inputs[w] \in digested')
    BY <1>i, <1>8 DEF Heartbeat, Confirm, TypeOK
  <2>2. global'.status = global.status /\ global'.owner = global.owner /\ global'.lease
    BY <1>i, <2>1 DEF GlobalRows
  <2>3. PhaseTwoIsLeased' /\ OwnerWroteFiles'
    BY <1>i, <1>8, <2>1, <2>2 DEF PhaseTwo, PhaseTwoIsLeased, Leased, OwnerWroteFiles, OwnsGlobal
  <2>4. BaselineIsKnown'
    BY <1>i, <2>1 DEF PhaseTwo, BaselineIsKnown, BaselineIsDigested
  <2> QED BY <2>3, <2>4 DEF PhaseTwo
<1>9. CASE ((Heartbeat(w) \/ Confirm(w)) /\ ~OwnsGlobal(w)) \/ ShutdownFails(w)
  <2>1. /\ pc[w] = "agent" /\ Leave(w)
        /\ UNCHANGED <<global, files, base, digested>>
    BY <1>9 DEF Heartbeat, Confirm, ShutdownFails
  <2>2. LeaveFiles(w)
    BY <2>1 DEF LeaveFiles
  <2> QED BY <2>1, <2>2, LeaveStep DEF GlobalKept, OwnsGlobal
<1>10. CASE RemoveBaseline(w) \/ CommitBaseline(w)
  <2>1. /\ \/ pc[w] = "reset" /\ pc'[w] = "commit" /\ base' = None
           \/ pc[w] = "commit" /\ pc'[w] = "record" /\ base' = files
        /\ \A v \in Workers \ {w} : pc'[v] = pc[v]
        /\ UNCHANGED <<global, inputs, files, digested>>
    BY <1>i, <1>10 DEF RemoveBaseline, CommitBaseline, TypeOK
  <2> QED BY <1>b, <1>o, <2>1, OwnerStep DEF Leased
<1>11. CASE FailGlobal(w)
  <2>1. /\ Leave(w) /\ LeaveFiles(w) /\ UNCHANGED <<base, digested>>
        /\ global' = IF OwnsGlobal(w)
                       THEN [global EXCEPT !.status = "error", !.lease = FALSE, !.waiting = TRUE,
                                           !.recent = TRUE, !.failed = TRUE]
                       ELSE global
    BY <1>11 DEF FailGlobal
  <2>2. OwnsGlobal(w) => global'.status = "error"
    BY <1>i, <2>1 DEF GlobalRows
  <2> QED BY <2>1, <2>2, LeaveStep DEF GlobalKept, OwnsGlobal
<1>12. CASE Crash(w)
  <2>1. Leave(w) /\ LeaveFiles(w) /\ UNCHANGED <<global, base, digested>>
    BY <1>12 DEF Crash
  <2>2. GlobalKept /\ \A v \in Workers : OwnsGlobal(v)' => OwnsGlobal(v)
    BY <2>1 DEF GlobalKept, OwnsGlobal
  <2> QED BY <2>1, <2>2, LeaveStep
<1> QED BY <1>1, <1>2, <1>3, <1>4, <1>5, <1>6, <1>7, <1>8, <1>9, <1>10, <1>11, <1>12
     DEF Work, Trouble

LEMMA PhaseTwoInv ==
    ASSUME IInv, [Next]_vars
    PROVE  PhaseTwo'
<1> USE DEF thread, worker, workspace, database
<1>i. TypeOK /\ global \in GlobalRows
  BY DEF IInv, TypeOK
<1>1. ASSUME UNCHANGED <<pc, inputs, files, base, digested>>,
             global' = Enqueued \/ global' = global
      PROVE  PhaseTwo'
  BY <1>i, <1>1, EnqueuedKeeps, PhaseTwoFrame
<1>2. CASE UNCHANGED vars
  BY <1>1, <1>2 DEF vars
<1>3. CASE \E t \in Threads : Use(t)
  BY <1>1, <1>3 DEF Use, Update, ReadSelected, Pollute, EnqueueForgetting, Reconcile,
                    RemoveRollout, DeleteThreadMemory, DeleteThreadRow, Prune
<1>4. CASE \E t \in Threads : Expire(t) \/ RetryDue(t)
  BY <1>1, <1>4 DEF Expire, RetryDue
<1>5. CASE ExpireGlobal \/ GlobalDue
  <2>1. /\ UNCHANGED <<pc, inputs, files, base, digested>>
        /\ \/ /\ pc[global.owner] \in {"idle", "phase1", "agent"}
              /\ global' = [global EXCEPT !.lease = FALSE]
           \/ global' = [global EXCEPT !.waiting = FALSE, !.recent = FALSE]
    BY <1>5 DEF ExpireGlobal, GlobalDue
  <2>2. /\ global'.status = global.status /\ global'.owner = global.owner
        /\ pc[global.owner] \in {"idle", "phase1", "agent"} \/ global'.lease = global.lease
    BY <1>i, <2>1 DEF GlobalRows
  <2>3. GlobalKept /\ \A w \in Workers : OwnsGlobal(w)' => OwnsGlobal(w)
    BY <2>2 DEF GlobalKept, OwnsGlobal
  <2> QED BY <2>1, <2>3, PhaseTwoFrame
<1> QED BY <1>2, <1>3, <1>4, <1>5, PhaseTwoWork DEF Next, Time

\* What a step may do to an output's mark: it keeps the mark, deletes it, or marks the
\* output that was selected, of inputs an agent worked through.
MarkStep(t) ==
    \/ out'[t].selected \in {0, out[t].selected}
    \/ /\ out'[t].selected = out'[t].source
       /\ \E snapshot \in digested : snapshot[t] = out'[t].selected

LEMMA MarkSteps ==
    ASSUME IInv, [Next]_vars, NEW t \in Threads
    PROVE  MarkStep(t)
<1> USE DEF thread, worker, workspace, database
<1>i. TypeOK /\ out[t] \in Outputs
  BY DEF IInv, TypeOK
<1>1. ASSUME NEW w \in Workers, NoChanges(w) \/ Record(w)
      PROVE  MarkStep(t)
  <2>1. RecordSuccess(w) /\ OwnsGlobal(w) /\ inputs[w] \in digested
    BY <1>1, RecordedIsDigested DEF NoChanges, Record
  <2>2. out'[t] = [out[t] EXCEPT !.selected = IF inputs[w][t] = out[t].source
                                                THEN inputs[w][t] ELSE 0]
    BY <2>1 DEF RecordSuccess
  <2> QED BY <1>i, <2>1, <2>2 DEF Outputs, MarkStep
<1>2. ASSUME NEW w \in Workers, Work(w) \/ Heartbeat(w) \/ Trouble(w)
      PROVE  MarkStep(t)
  <2>1. CASE \/ Start(w) \/ ClaimGlobal(w) \/ Prepare(w) \/ Select(w) \/ Sync(w) \/ RunAgent(w)
             \/ Confirm(w) \/ RemoveBaseline(w) \/ CommitBaseline(w) \/ Heartbeat(w) \/ Trouble(w)
             \/ \E u \in Threads : Claim(w, u) \/ LoadRollout(w, u) \/ Fail(w, u)
    <3>1. UNCHANGED out
      BY <2>1 DEF Start, ClaimGlobal, Prepare, Select, Sync, RunAgent, Confirm, RemoveBaseline,
                  CommitBaseline, Heartbeat, Trouble, ClaimFails, ShutdownFails, FailGlobal, Crash,
                  Claim, LoadRollout, Fail, Settle
    <3> QED BY <3>1 DEF MarkStep
  <2>2. ASSUME NEW u \in Threads, Succeed(w, u) \/ SucceedNoOutput(w, u)
        PROVE  MarkStep(t)
    <3>1. \/ out'[t] = NoOutput
          \/ out'[t] = out[t]
          \/ out'[t] = [out[t] EXCEPT !.source = held[w][u].source]
      BY <1>i, <2>2 DEF Succeed, SucceedNoOutput, Settle, TypeOK
    <3> QED BY <1>i, <3>1 DEF Outputs, NoOutput, MarkStep
  <2> QED BY <1>1, <1>2, <2>1, <2>2 DEF Work
<1>3. CASE UNCHANGED vars \/ Time \/ \E u \in Threads : Use(u)
  <2>1. out'[t] = NoOutput \/ out'[t] = out[t]
    BY <1>i, <1>3 DEF vars, Time, ExpireGlobal, GlobalDue, Expire, RetryDue, Use, Update,
                      ReadSelected, Pollute, EnqueueForgetting, Reconcile, RemoveRollout,
                      DeleteThreadMemory, DeleteThreadRow, Prune, TypeOK
  <2> QED BY <2>1 DEF MarkStep, NoOutput
<1> QED BY <1>2, <1>3 DEF Next

-----------------------------------------------------------------------------

\* Every step keeps the inductive invariant.
LEMMA NextInv == IInv /\ [Next]_vars => IInv'
<1> SUFFICES ASSUME IInv, [Next]_vars PROVE IInv'
  OBVIOUS
<1>1. TypeOK'
  BY NextTypes DEF IInv
<1> QED BY <1>1, PhaseOneInv, PhaseTwoInv DEF IInv

\* No step of the pipeline, of a user or of the clock takes a row, a claim or a
\* snapshot out of its type; the retries of a job never go below zero.
THEOREM TypeCorrect == Spec => []TypeOK
<1>1. IInv => TypeOK
  BY DEF IInv
<1> QED BY <1>1, InitInv, NextInv, PTL DEF Spec

\* However claims are lost, taken over and settled late, the output of a thread is the
\* one its job vouches for, and a deleted thread's output does not come back
\* (mark_stage1_job_succeeded, delete_thread_memory).
THEOREM Vouched == Spec => []OutputIsVouched
<1>1. IInv => OutputIsVouched
  BY DEF IInv
<1> QED BY <1>1, InitInv, NextInv, PTL DEF Spec

\* "Successful Phase 2 runs mark the exact stage-1 snapshots they consumed"
\* (memories/README.md): a mark is only ever set on an output that an agent worked
\* through, whatever phase 1 stored while it ran (mark_global_phase2_job_succeeded).
THEOREM Consumed == Spec => MarksWhatWasConsumed
<1> DEFINE Marks == \A t \in Threads :
                      (out'[t].selected # 0 /\ out'[t].selected # out[t].selected)
                        => /\ out'[t].selected = out'[t].source
                           /\ \E snapshot \in digested : snapshot[t] = out'[t].selected
<1>1. IInv /\ [Next]_vars => [Marks]_vars
  <2> SUFFICES ASSUME IInv, [Next]_vars PROVE Marks
    OBVIOUS
  <2> QED BY MarkSteps DEF MarkStep
<1> QED BY <1>1, InitInv, NextInv, PTL DEF Spec, MarksWhatWasConsumed

\* Wherever reset_git_repository_sync fails, a worker dies or a lease runs out, only
\* inputs that an agent completed for the owner of the job become the git baseline
\* (prepare_memory_workspace, reset_memory_workspace_baseline).
THEOREM Baseline == Spec => []BaselineIsDigested
<1>1. IInv => BaselineIsDigested
  BY DEF IInv, PhaseTwo, BaselineIsKnown
<1> QED BY <1>1, InitInv, NextInv, PTL DEF Spec
=============================================================================
