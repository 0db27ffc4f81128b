----------------------------- MODULE WorkerQueue -----------------------------
(***************************************************************************)
(* The workers (WorkerService) over the job table: they claim jobs under a *)
(* lease, run the handler while a heartbeat renews the lease, and write    *)
(* the outcome.  A worker here is one execution slot of a worker process.  *)
(* The transactions of other workers, users and administrators come        *)
(* between any two transactions of an execution.                           *)
(***************************************************************************)
EXTENDS JobTable

CONSTANTS
    Worker,
    Supports          \* [Worker -> SUBSET Job]: supported_job_types

ASSUME WorkerAssumption == Supports \in [Worker -> SUBSET Job]

VARIABLES
    ctx,        \* [Worker -> Context]: the JobContext and where _execute stands
    stopping    \* workers whose shutdown event is set

vars == <<table, ctx, stopping>>

\* Where an execution stands between two transactions.  run: in the handler;
\* refused: its success or yield was not accepted; cancel: it has read that it
\* was cancelled; markFailed: it failed and has read that it was not cancelled.
\* A step that only touches the thread's own state is part of the transaction
\* that follows it.
PC == {"idle", "run", "refused", "cancel", "markFailed"}

Context == [pc : PC, job : Job \cup {NoJob}, gen : Nat, lost : BOOLEAN]

Idle == [pc |-> "idle", job |-> NoJob, gen |-> 0, lost |-> FALSE]

Init == /\ TableInit
        /\ ctx = [w \in Worker |-> Idle]
        /\ stopping = {}

Busy(w) == ctx[w].pc # "idle"

\* Faulty: any live lease will do.
LeaseMatchesAnyToken(w, lag) == LeaseLive(row[ctx[w].job], lag)

\* _lease_matches: the row carries the token and the generation of this
\* execution, and the lease was live when the transaction began.
LeaseMatches(w, lag) ==
    LET r == row[ctx[w].job]
    IN  r.token = ctx[w].gen /\ r.gen = ctx[w].gen /\ LeaseLive(r, lag)

\* job_cancellation_requested.
CancellationRequested(j) ==
    \/ row[j].status \in {"gone", "cancel_requested", "cancelled"}
    \/ row[j].flag
    \/ ~ActiveProject(j)

-----------------------------------------------------------------------------
(***************************************************************************)
(* Claim and heartbeat.                                                    *)
(***************************************************************************)
\* claim_next_job: repair, then claim a runnable job or find none (the rows
\* of an owner another claim has locked are skipped).  Which runnable job is
\* preferred is left open.
Claim(w) ==
    /\ ~Busy(w) /\ w \notin stopping
    /\ \E lag \in 0..TxLag :
         \/ \E j \in Supports[w] :
              /\ Claimable(Swept(lag), j, lag)
              /\ row' = [Swept(lag) EXCEPT ![j] = Claimed(@, lag)]
              /\ ctx' = [ctx EXCEPT ![w] = [Idle EXCEPT !.pc = "run", !.job = j,
                                                        !.gen = row[j].gen + 1]]
         \/ /\ row' = Swept(lag) /\ row' # row
            /\ UNCHANGED ctx
    /\ UNCHANGED <<pointer, project, fenced, paused, stopping>>

\* The heartbeat thread: renew_job_lease, and no more heartbeats once one is refused.
Heartbeat(w) ==
    /\ Busy(w) /\ ~ctx[w].lost
    /\ \E lag \in 0..TxLag :
         LET j == ctx[w].job
         IN  \/ /\ LeaseMatches(w, lag) /\ row[j].status \in Held /\ ActiveProject(j)
                /\ row' = [row EXCEPT ![j].ttl = Lease - lag]
                /\ UNCHANGED ctx
             \/ /\ ~(LeaseMatches(w, lag) /\ row[j].status \in Held /\ ActiveProject(j))
                /\ ctx' = [ctx EXCEPT ![w].lost = TRUE]
                /\ UNCHANGED row
    /\ UNCHANGED <<pointer, project, fenced, paused, stopping>>

\* Three heartbeats in a row could not reach the database.
HeartbeatFails(w) ==
    /\ Busy(w) /\ ~ctx[w].lost
    /\ ctx' = [ctx EXCEPT ![w].lost = TRUE]
    /\ UNCHANGED <<table, stopping>>

-----------------------------------------------------------------------------
(***************************************************************************)
(* The handler.                                                            *)
(***************************************************************************)
Goto(w, pc) == ctx' = [ctx EXCEPT ![w].pc = pc]
Done(w)     == ctx' = [ctx EXCEPT ![w] = Idle]

Write(w) == row' = [row EXCEPT ![ctx[w].job].writer = ctx[w].gen]

\* report_progress: its checkpoint has passed, then update_job_progress.
ReportProgress(w) ==
    /\ ctx[w].pc = "run" /\ ~ctx[w].lost /\ w \notin stopping
    /\ \E lag \in 0..TxLag : LeaseMatches(w, lag)
    /\ row[ctx[w].job].status = "running" /\ ~row[ctx[w].job].flag
    /\ Write(w)
    /\ UNCHANGED <<pointer, project, fenced, paused, ctx, stopping>>

\* report_partial_result: update_job_result with no checkpoint before it, so
\* that an item completed while cancellation arrives stays visible.
ReportPartialResult(w) ==
    /\ ctx[w].pc = "run"
    /\ \E lag \in 0..TxLag : LeaseMatches(w, lag)
    /\ row[ctx[w].job].status \in Held
    /\ Write(w)
    /\ UNCHANGED <<pointer, project, fenced, paused, ctx, stopping>>

\* A checkpoint raises JobLeaseLost; the execution ends without a write.
DropLostJob(w) ==
    /\ ctx[w].pc = "run" /\ ctx[w].lost
    /\ Done(w)
    /\ UNCHANGED <<table, stopping>>

\* A checkpoint, or _fail after an error, reads that the job was cancelled.
SeeCancellation(w) ==
    /\ ctx[w].pc = "run" /\ w \notin stopping
    /\ CancellationRequested(ctx[w].job)
    /\ Goto(w, "cancel")
    /\ UNCHANGED <<table, stopping>>

\* The handler raised an error and _fail reads that the job was not cancelled.
RaiseError(w) ==
    /\ ctx[w].pc = "run" /\ w \notin stopping
    /\ ~CancellationRequested(ctx[w].job)
    /\ Goto(w, "markFailed")
    /\ UNCHANGED <<table, stopping>>

-----------------------------------------------------------------------------
(***************************************************************************)
(* The outcome.                                                            *)
(***************************************************************************)
\* A finished model.dispatch makes its waiting parent due.
Woken(rows, j, lag) ==
    LET p == JobParent[j]
    IN  IF /\ j \in Dispatch /\ p # NoJob
           /\ rows[p].status = "queued" /\ rows[p].reason = "model_waiting"
        THEN [rows EXCEPT ![p].wait = -lag] ELSE rows

\* The handler returned: mark_job_succeeded, also of a job asked to stop.
Succeed(w) ==
    /\ ctx[w].pc = "run"
    /\ \E lag \in 0..TxLag :
         LET j == ctx[w].job
             accepted == LeaseMatches(w, lag) /\ row[j].status \in Held
         IN  \/ /\ accepted
                /\ row' = Woken([row EXCEPT ![j] = [Unleased(@) EXCEPT
                                    !.status = "succeeded", !.flag = FALSE,
                                    !.writer = ctx[w].gen]], j, lag)
                /\ Done(w)
             \/ ~accepted /\ Goto(w, "refused") /\ UNCHANGED row
    /\ UNCHANGED <<pointer, project, fenced, paused, stopping>>

\* Faulty: the lease columns are kept.
ReleasedWithLease(r, d, why, lag) ==
    [r EXCEPT !.status = "queued", !.wait = IF d > 0 THEN d - lag ELSE -TxLag,
              !.reason = IF d > 0 THEN why ELSE "none"]

\* release_job_lease; it takes back a job that nobody has asked to stop.
Released(r, d, why, lag) ==
    [Unleased(r) EXCEPT !.status = "queued",
                        !.wait   = IF d > 0 THEN d - lag ELSE -TxLag,
                        !.reason = IF d > 0 THEN why ELSE "none"]

\* Faulty: the cancellation flag is not looked at.
ReleasableWhenFlagged(w, lag) == LeaseMatches(w, lag) /\ row[ctx[w].job].status \in Held

Releasable(w, lag) ==
    LET r == row[ctx[w].job] IN LeaseMatches(w, lag) /\ r.status = "running" /\ ~r.flag

\* JobYieldRequested(delay_seconds, queue_reason): release_yielded_job.
YieldJob(w) ==
    /\ ctx[w].pc = "run"
    /\ \E lag \in 0..TxLag :
         \/ /\ Releasable(w, lag)
            /\ \E d \in Delay, why \in {"model_waiting", "retry"} :
                  row' = [row EXCEPT ![ctx[w].job] = Released(@, d, why, lag)]
            /\ Done(w)
         \/ ~Releasable(w, lag) /\ Goto(w, "refused") /\ UNCHANGED row
    /\ UNCHANGED <<pointer, project, fenced, paused, stopping>>

\* JobShutdownRequested, or an error during shutdown: one attempt to release.
ReleaseOnShutdown(w) ==
    /\ ctx[w].pc = "run" /\ w \in stopping
    /\ \E lag \in 0..TxLag :
         IF Releasable(w, lag)
         THEN row' = [row EXCEPT ![ctx[w].job] = Released(@, 0, "none", lag)]
         ELSE UNCHANGED row
    /\ Done(w)
    /\ UNCHANGED <<pointer, project, fenced, paused, stopping>>

\* After a refused success or yield: cancel if that is why, else drop the job.
Refused(w) ==
    /\ ctx[w].pc = "refused"
    /\ IF CancellationRequested(ctx[w].job) THEN Goto(w, "cancel") ELSE Done(w)
    /\ UNCHANGED <<table, stopping>>

\* mark_job_cancelled with the lease of this execution.
MarkCancelled(w) ==
    /\ ctx[w].pc = "cancel"
    /\ \E lag \in 0..TxLag :
         LET j == ctx[w].job
         IN  IF LeaseMatches(w, lag) /\ row[j].status \in Held
             THEN row' = [row EXCEPT ![j] = Cancelled(@)] ELSE UNCHANGED row
    /\ Done(w)
    /\ UNCHANGED <<pointer, project, fenced, paused, stopping>>

\* mark_job_failed; a refusal is not looked into.
MarkFailed(w) ==
    /\ ctx[w].pc = "markFailed"
    /\ \E lag \in 0..TxLag :
         IF Releasable(w, lag)
         THEN row' = [row EXCEPT ![ctx[w].job] = [Unleased(@) EXCEPT !.status = "failed"]]
         ELSE UNCHANGED row
    /\ Done(w)
    /\ UNCHANGED <<pointer, project, fenced, paused, stopping>>

-----------------------------------------------------------------------------
(***************************************************************************)
(* The process: shutdown, crash, restart.                                  *)
(***************************************************************************)
Stop(w) ==
    /\ w \notin stopping
    /\ stopping' = stopping \cup {w}
    /\ UNCHANGED <<table, ctx>>

\* The process dies, or exits with a handler still in a daemon thread; the
\* row keeps its lease.
Crash(w) ==
    /\ Busy(w) /\ Done(w)
    /\ UNCHANGED <<table, stopping>>

Restart(w) ==
    /\ w \in stopping /\ ~Busy(w)
    /\ stopping' = stopping \ {w}
    /\ UNCHANGED <<table, ctx>>

Execute(w) ==
    \/ ReportProgress(w) \/ ReportPartialResult(w)
    \/ DropLostJob(w) \/ SeeCancellation(w) \/ RaiseError(w)
    \/ Succeed(w) \/ YieldJob(w) \/ ReleaseOnShutdown(w)
    \/ Refused(w) \/ MarkCancelled(w) \/ MarkFailed(w)

WorkerNext(w) ==
    \/ Claim(w) \/ Heartbeat(w) \/ HeartbeatFails(w) \/ Execute(w)
    \/ Stop(w) \/ Crash(w) \/ Restart(w)

Next == \/ ApiNext /\ UNCHANGED <<ctx, stopping>>
        \/ \E w \in Worker : WorkerNext(w)

Spec == Init /\ [][Next]_vars

-----------------------------------------------------------------------------
(***************************************************************************)
(* Properties.                                                             *)
(***************************************************************************)
\* Types of the table and of the executions.
TypeOK ==
    /\ row \in [Job -> Row]
    /\ pointer \in [Scope -> Job \cup {NoJob}]
    /\ project \in [Project -> {"active", "deleted", "purged"}]
    /\ fenced \subseteq Batch
    /\ paused \subseteq Queue
    /\ ctx \in [Worker -> Context]
    /\ stopping \subseteq Worker

\* The lease columns, the status and the cancellation flag of a row agree,
\* whatever transactions of users, workers and repairs were interleaved: a row
\* has a lease exactly while it is running or asked to stop, the token is the
\* one the latest claim minted, and the flag is set exactly on rows that are
\* to stop or have been stopped.
RowConsistent(r) ==
    /\ r.token # 0 <=> r.status \in Held
    /\ r.token \in {0, r.gen}
    /\ r.flag <=> r.status \in {"cancel_requested", "cancelled"}
    /\ r.writer <= r.gen
    /\ r.status = "absent" => r.gen = 0 /\ r.born = 0

RowsConsistent == \A j \in Job : RowConsistent(row[j])

\* No job of a deleted project is waiting or running, so nothing that a
\* deletion stopped comes back when the project is restored.
DeletedProjectsAreQuiet ==
    \A j \in Job : row[j].status \in Unfinished => ActiveProject(j)

\* The worker that lost a job to another one cannot write to it: two
\* executions never both hold the lease of one job, whichever of the clock
\* values still in flight their transactions use.
OneWriter ==
    \A v, w \in Worker : \A lag \in 0..TxLag :
        /\ v # w /\ Busy(v) /\ Busy(w) /\ ctx[v].job = ctx[w].job
        /\ LeaseMatches(v, lag)
        => ~LeaseMatches(w, lag) /\ ctx[w].gen < ctx[v].gen

\* Per-user admission: claim_next_job's "one live lease per user" on a
\* business queue, text_parallelism of them on the model queue.
LeasesWithinLimit ==
    \A u \in User, q \in Queue :
        Cardinality(LiveLeases(row, u, q, 0)) <= IF q = ModelQueue THEN TextParallelism ELSE 1

\* All workers together parse at most mineru_max_concurrency uploads.
UploadsWithinCap == Cardinality(ActiveUploads(row, 0)) <= UploadCap

\* Matrix writers and their planner, and the turns of one dialogue, run in
\* creation order: none is claimed before every earlier one has ended, however
\* often an earlier one yields or is reclaimed.
GroupsRunInOrder ==
    \A j \in Job : row[j].status \in Held => ~EarlierUnfinished(row, j)

\* A user never has two unfinished jobs of one type in one scope, and the
\* pointer names the unfinished one.
OneUnfinishedPerScope ==
    \A j \in Job : row[j].status \in Unfinished => pointer[JobScope[j]] = j

\* Once a user has cancelled the rest of an upload batch no further file of it
\* is started, by a queued row, by a submission that was on its way, or later.
CancelledBatchStartsNothing ==
    [][\A j \in Job : JobBatch[j] \in fenced /\ row[j].gen = 0 => row'[j].gen = 0]_vars

\* What the safety properties rest on.  An execution knows the generation its
\* claim minted, which later claims only exceed; two executions of one job
\* were claimed at different generations; a file of a cancelled batch that was
\* never started is not waiting.
Executions ==
    \A w \in Worker : Busy(w) => /\ ctx[w].job \in Job
                                /\ ctx[w].gen > 0 /\ ctx[w].gen <= row[ctx[w].job].gen

DistinctGenerations ==
    \A v, w \in Worker :
        v # w /\ Busy(v) /\ Busy(w) /\ ctx[v].job = ctx[w].job => ctx[v].gen # ctx[w].gen

FencedBatchesAreQuiet ==
    \A j \in Job : JobBatch[j] \in fenced /\ row[j].gen = 0 => row[j].status # "queued"

\* The inductive invariant of WorkerQueueProofs.
IInv == /\ TypeOK /\ RowsConsistent /\ DeletedProjectsAreQuiet /\ OneUnfinishedPerScope
        /\ Executions /\ DistinctGenerations /\ FencedBatchesAreQuiet

\* The promise to clients (JobContract) under the obvious abstraction.
PhaseOf(s) == IF s \in {"queued", "running"} THEN "open"
              ELSE IF s = "cancel_requested" THEN "stopping" ELSE s

Contract == INSTANCE JobContract WITH
                phase  <- [j \in Job |-> PhaseOf(row[j].status)],
                epoch  <- [j \in Job |-> row[j].gen],
                record <- [j \in Job |-> row[j].writer]

KeepsContract == Contract!Spec

-----------------------------------------------------------------------------
(***************************************************************************)
(* Liveness.  Time passes; a worker that can poll again and again polls; a *)
(* handler comes to an end (its provider calls and subprocesses have       *)
(* timeouts), notices what its checkpoints raise, and writes its outcome.  *)
(* Nothing is assumed of users, heartbeats, crashes or shutdowns.          *)
(***************************************************************************)
HandlerEnds(w) ==
    \/ DropLostJob(w) \/ SeeCancellation(w) \/ RaiseError(w)
    \/ Succeed(w) \/ YieldJob(w) \/ ReleaseOnShutdown(w)

Outcome(w) == Refused(w) \/ MarkCancelled(w) \/ MarkFailed(w)

Fairness ==
    /\ WF_vars(Tick /\ UNCHANGED <<ctx, stopping>>)
    /\ \A w \in Worker : /\ SF_vars(Claim(w))
                         /\ WF_vars(Restart(w))
                         /\ WF_vars(HandlerEnds(w))
                         /\ WF_vars(Outcome(w))

FairSpec == Spec /\ Fairness

\* A cancellation a user asked for takes effect even when the worker that runs
\* the job dies, hangs on to an expired lease or is shutting down.
CancellationSettles ==
    \A j \in Job : row[j].status = "cancel_requested" ~> row[j].status \in Terminal \cup {"gone"}

Executed(j) == \E w \in Worker : ctx[w].job = j /\ ctx[w].gen = row[j].gen

\* A job whose worker died is not lost: it is claimed again, or ended by its
\* owner (or its queue is paused, or it has used up MaxGeneration claims).
OrphansRecover ==
    \A j \in Job :
        row[j].status = "running" /\ ~Executed(j)
            ~> \/ row[j].status # "running" \/ Executed(j)
               \/ JobQueue[j] \in paused \/ row[j].gen = MaxGeneration
=============================================================================
