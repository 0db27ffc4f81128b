------------------------------ MODULE JobTable ------------------------------
(***************************************************************************)
(* The workflow_jobs table and the transactions that the API runs on it    *)
(* (WorkflowRepository).  One row per job; every repository method is one  *)
(* database transaction and therefore one step.                            *)
(*                                                                         *)
(* Time.  A lease is stored as the ticks it has left, a delayed retry as   *)
(* the ticks until it is due; Tick lets one unit of database time pass.    *)
(* PostgreSQL's now() is the time a transaction STARTED, so a transaction  *)
(* may decide with a clock that is up to TxLag ticks old: `lag` below.     *)
(*                                                                         *)
(* A definition marked "Faulty" is a broken variant of the one it comes    *)
(* before.  The specification does not use it: it is there to show that a  *)
(* property fails when the code goes wrong in that way.                    *)
(***************************************************************************)
EXTENDS Integers, FiniteSets

CONSTANTS
    Job,              \* the rows that may ever be created, one per idempotency key
    User, Queue, Project, Scope, Batch,
    NoProject, NoGroup, NoBatch, NoJob,
    JobOwner,         \* [Job -> User]
    JobQueue,         \* [Job -> Queue]: queue_for_job_type of the job's type
    JobProject,       \* [Job -> Project \cup {NoProject}]: library jobs have none
    JobScope,         \* [Job -> Scope]: the key (user, scope_key, job_type)
    JobGroup,         \* jobs that run in creation order (planning, dialogue)
    JobBatch,         \* [Job -> Batch \cup {NoBatch}]: the upload batch
    JobParent,        \* [Job -> Job \cup {NoJob}]: parent_job_id of a model.dispatch
    Upload,           \* jobs of type library.upload
    UploadCap,        \* mineru_max_concurrency
    Dispatch,         \* jobs of type model.dispatch
    ModelQueue,       \* their queue
    TextParallelism,  \* live model.dispatch leases a user may hold
    Lease,            \* ticks a claim or a heartbeat grants
    Delay,            \* ticks a yield may ask for
    TxLag,            \* how old the clock of a transaction may be
    MaxGeneration     \* bound: claims of one job

ASSUME JobTableAssumption ==
    /\ IsFiniteSet(Job) /\ NoJob \notin Job
    /\ NoProject \notin Project /\ NoBatch \notin Batch
    /\ JobOwner \in [Job -> User]
    /\ JobQueue \in [Job -> Queue]
    /\ JobProject \in [Job -> Project \cup {NoProject}]
    /\ JobScope \in [Job -> Scope]
    /\ DOMAIN JobGroup = Job
    /\ JobBatch \in [Job -> Batch \cup {NoBatch}]
    /\ JobParent \in [Job -> Job \cup {NoJob}]
    /\ Upload \subseteq Job
    /\ UploadCap \in Nat \ {0}
    /\ Dispatch \subseteq Job
    /\ \A j \in Dispatch : JobQueue[j] = ModelQueue
    /\ TextParallelism \in Nat \ {0}
    /\ TxLag \in Nat
    /\ Lease \in Nat /\ Lease > TxLag
    /\ Delay \subseteq Nat
    /\ MaxGeneration \in Nat
    \* a scope key and the key of a group both hold the project id
    /\ \A i, j \in Job : JobScope[i] = JobScope[j] => JobProject[i] = JobProject[j]
    /\ \A i, j \in Job : JobGroup[i] = JobGroup[j] /\ JobGroup[i] # NoGroup
                           => JobProject[i] = JobProject[j] /\ JobProject[i] # NoProject

VARIABLES
    row,        \* [Job -> Row]
    pointer,    \* [Scope -> Job \cup {NoJob}]: WorkflowCurrentJob
    project,    \* [Project -> {"active", "deleted", "purged"}]
    fenced,     \* upload batches with a LibraryUploadBatchCancellation row
    paused      \* queues paused by an administrator

table == <<row, pointer, project, fenced, paused>>

(***************************************************************************)
(* Rows.                                                                   *)
(***************************************************************************)
Unfinished == {"queued", "running", "cancel_requested"}
Held       == {"running", "cancel_requested"}
Terminal   == {"succeeded", "failed", "cancelled"}
Status     == {"absent", "gone"} \cup Unfinished \cup Terminal

Row == [status : Status,
        flag   : BOOLEAN,             \* cancellation_requested
        token  : Nat,                 \* lease_token: the claim that minted it, 0 for none
        gen    : Nat,                 \* lease_generation
        ttl    : Int,                 \* ticks until lease_expires_at
        wait   : Int,                 \* ticks until next_run_at, -TxLag for NULL
        reason : {"none", "model_waiting", "retry"},
        born   : Nat,                 \* rank of created_at in the job's group
        writer : Nat]                 \* generation that last wrote progress or result_json

NoRow == [status |-> "absent", flag |-> FALSE, token |-> 0, gen |-> 0, ttl |-> 0,
          wait |-> -TxLag, reason |-> "none", born |-> 0, writer |-> 0]

\* The lease columns cleared: lease_owner, lease_token, lease_expires_at.
Unleased(r) == [r EXCEPT !.token = 0, !.ttl = 0]

\* Faulty: a status no reader knows.
CancelledMisspelt(r) == [Unleased(r) EXCEPT !.status = "canceled", !.flag = TRUE]

Cancelled(r) == [Unleased(r) EXCEPT !.status = "cancelled", !.flag = TRUE]

LeaseLive(r, lag)    == r.token # 0 /\ r.ttl + lag > 0
LeaseExpired(r, lag) == r.token # 0 /\ r.ttl + lag <= 0
Due(r, lag)          == r.wait + lag <= 0

\* active_job_project: library jobs are independent, project jobs need a live project.
ActiveProject(j) == JobProject[j] # NoProject => project[JobProject[j]] = "active"

-----------------------------------------------------------------------------
(***************************************************************************)
(* The predicates of a claim.                                              *)
(***************************************************************************)
\* _earlier_planning_job and _earlier_dialogue_job.
EarlierUnfinished(rows, j) ==
    \E i \in Job : /\ JobGroup[j] # NoGroup /\ JobGroup[i] = JobGroup[j]
                   /\ rows[i].status \in Unfinished
                   /\ rows[i].born < rows[j].born

LiveLeases(rows, u, q, lag) ==
    {i \in Job : /\ JobOwner[i] = u /\ JobQueue[i] = q
                 /\ rows[i].status \in Held /\ LeaseLive(rows[i], lag)}

ActiveUploads(rows, lag) ==
    {i \in Upload : rows[i].status \in Held /\ LeaseLive(rows[i], lag)}

\* Faulty: running jobs are never reclaimed.
EligibleOnlyQueued(r, lag) == r.status = "queued" /\ Due(r, lag)

\* A queued job whose time has come, or a running one whose worker went silent.
Eligible(r, lag) ==
    \/ r.status = "queued" /\ Due(r, lag)
    \/ r.status = "running" /\ ~r.flag /\ LeaseExpired(r, lag)

\* Faulty: off by one.
LeaseLimitOneMore(j) == IF j \in Dispatch THEN TextParallelism + 1 ELSE 1

\* lease_limit of the query: text_parallelism for model.dispatch, else one.
LeaseLimit(j) == IF j \in Dispatch THEN TextParallelism ELSE 1

\* Faulty: earlier jobs of the group are not looked for.
ClaimableOutOfOrder(rows, j, lag) ==
    /\ Eligible(rows[j], lag) /\ ActiveProject(j)
    /\ Cardinality(LiveLeases(rows, JobOwner[j], JobQueue[j], lag) \ {j}) < LeaseLimit(j)
    /\ rows[j].gen < MaxGeneration

\* Faulty: off by one at the cap.
ClaimableOneUploadMore(rows, j, lag) ==
    /\ Eligible(rows[j], lag) /\ ActiveProject(j)
    /\ Cardinality(LiveLeases(rows, JobOwner[j], JobQueue[j], lag) \ {j}) < LeaseLimit(j)
    /\ j \in Upload => Cardinality(ActiveUploads(rows, lag)) <= UploadCap
    /\ rows[j].gen < MaxGeneration

Claimable(rows, j, lag) ==
    /\ Eligible(rows[j], lag)
    /\ ActiveProject(j)
    /\ Cardinality(LiveLeases(rows, JobOwner[j], JobQueue[j], lag) \ {j}) < LeaseLimit(j)
    /\ ~EarlierUnfinished(rows, j)
    /\ j \in Upload => Cardinality(ActiveUploads(rows, lag)) < UploadCap
    /\ JobQueue[j] \notin paused
    /\ rows[j].gen < MaxGeneration

\* _apply_claim: a new token, the next generation, a full lease counted from `now`.
Claimed(r, lag) ==
    [r EXCEPT !.status = "running", !.flag = FALSE, !.token = r.gen + 1, !.gen = r.gen + 1,
              !.ttl = Lease - lag, !.wait = -TxLag, !.reason = "none"]

\* Faulty: cancelled jobs of dead workers are left alone.
SweptOnlyDeleted(lag) ==
    [j \in Job |-> IF row[j].status \in Unfinished /\ ~ActiveProject(j) THEN Cancelled(row[j])
                   ELSE row[j]]

\* What claim_next_job repairs before it chooses: jobs of deleted projects,
\* and cancelled jobs whose worker let the lease run out.
Swept(lag) ==
    [j \in Job |-> IF row[j].status \in Unfinished /\ ~ActiveProject(j) THEN Cancelled(row[j])
                   ELSE IF row[j].status = "cancel_requested" /\ LeaseExpired(row[j], lag)
                        THEN [Unleased(row[j]) EXCEPT !.status = "cancelled"]
                        ELSE row[j]]

-----------------------------------------------------------------------------
(***************************************************************************)
(* The API's transactions.                                                 *)
(***************************************************************************)
\* created_at orders the jobs of a group: it is read at the insert, under the
\* lock of their project.
Rank(j) == IF JobGroup[j] = NoGroup THEN 0
           ELSE 1 + Cardinality({i \in Job : JobGroup[i] = JobGroup[j] /\ row[i].born > 0})

\* Faulty: the batch is not looked up.
SubmitUnfenced(j) ==
    /\ row[j].status = "absent" /\ ActiveProject(j)
    /\ LET current == pointer[JobScope[j]]
       IN  current # NoJob => row[current].status \notin Unfinished
    /\ row' = [row EXCEPT ![j] = [NoRow EXCEPT !.status = "queued", !.born = Rank(j)]]
    /\ pointer' = [pointer EXCEPT ![JobScope[j]] = j]
    /\ UNCHANGED <<project, fenced, paused>>

\* Faulty: the current job of the scope is not looked up.
SubmitUnchecked(j) ==
    /\ row[j].status = "absent" /\ ActiveProject(j)
    /\ row' = [row EXCEPT ![j] = [NoRow EXCEPT !.status = "queued", !.born = Rank(j)]]
    /\ pointer' = [pointer EXCEPT ![JobScope[j]] = j]
    /\ UNCHANGED <<project, fenced, paused>>

\* create_or_get_job on a new idempotency key.  With a used key the method
\* returns the row it finds and changes nothing.
Submit(j) ==
    /\ row[j].status = "absent"
    /\ JobBatch[j] \notin fenced
    /\ ActiveProject(j)
    /\ LET current == pointer[JobScope[j]]
       IN  current # NoJob => row[current].status \notin Unfinished
    /\ row' = [row EXCEPT ![j] = [NoRow EXCEPT !.status = "queued", !.born = Rank(j)]]
    /\ pointer' = [pointer EXCEPT ![JobScope[j]] = j]
    /\ UNCHANGED <<project, fenced, paused>>

\* request_job_cancellation: final for a queued job, a request to the worker of a running one.
RequestCancel(j) ==
    /\ \/ /\ row[j].status = "queued"
          /\ row' = [row EXCEPT ![j].status = "cancelled", ![j].flag = TRUE]
       \/ /\ row[j].status = "running" /\ ~row[j].flag
          /\ row' = [row EXCEPT ![j].status = "cancel_requested", ![j].flag = TRUE]
    /\ UNCHANGED <<pointer, project, fenced, paused>>

\* Faulty: running jobs are left to finish.
DeleteProjectSparesRunning(p) ==
    /\ project[p] = "active"
    /\ project' = [project EXCEPT ![p] = "deleted"]
    /\ row' = [j \in Job |-> IF JobProject[j] = p /\ row[j].status = "queued"
                             THEN Cancelled(row[j]) ELSE row[j]]
    /\ UNCHANGED <<pointer, fenced, paused>>

\* delete_for_user: the project and every unfinished job of it, in one transaction.
DeleteProject(p) ==
    /\ project[p] = "active"
    /\ project' = [project EXCEPT ![p] = "deleted"]
    /\ row' = [j \in Job |-> IF JobProject[j] = p /\ row[j].status \in Unfinished
                             THEN Cancelled(row[j]) ELSE row[j]]
    /\ UNCHANGED <<pointer, fenced, paused>>

RestoreProject(p) ==
    /\ project[p] = "deleted"
    /\ project' = [project EXCEPT ![p] = "active"]
    /\ UNCHANGED <<row, pointer, fenced, paused>>

\* create_for_user on the slug of a deleted project: the old project, its
\* jobs and its pointers are deleted by cascade.
PurgeProject(p) ==
    /\ project[p] = "deleted"
    /\ project' = [project EXCEPT ![p] = "purged"]
    /\ row' = [j \in Job |-> IF JobProject[j] = p /\ row[j].status # "absent"
                             THEN [NoRow EXCEPT !.status = "gone", !.gen = row[j].gen,
                                                !.writer = row[j].writer]
                             ELSE row[j]]
    /\ pointer' = [s \in Scope |-> IF pointer[s] # NoJob /\ JobProject[pointer[s]] = p
                                   THEN NoJob ELSE pointer[s]]
    /\ UNCHANGED <<fenced, paused>>

\* cancel_remaining_uploads: the batch is fenced and its queued files are cancelled.
CancelBatch(b) ==
    /\ fenced' = fenced \cup {b}
    /\ row' = [j \in Job |-> IF JobBatch[j] = b /\ row[j].status = "queued"
                             THEN [row[j] EXCEPT !.status = "cancelled", !.flag = TRUE] ELSE row[j]]
    /\ UNCHANGED <<pointer, project, paused>>

SetPaused(q) ==
    /\ paused' = IF q \in paused THEN paused \ {q} ELSE paused \cup {q}
    /\ UNCHANGED <<row, pointer, project, fenced>>

-----------------------------------------------------------------------------
\* Database time: every lease and every delay is one tick shorter.  A count
\* stops at -TxLag, below which no transaction can tell the values apart.
CountDown(n) == IF n > -TxLag THEN n - 1 ELSE n

TickRow(r) == [r EXCEPT !.ttl  = IF r.token # 0 THEN CountDown(r.ttl) ELSE r.ttl,
                        !.wait = IF r.status = "queued" THEN CountDown(r.wait) ELSE r.wait]

Tick ==
    /\ row' = [j \in Job |-> TickRow(row[j])]
    /\ row' # row
    /\ UNCHANGED <<pointer, project, fenced, paused>>

TableInit ==
    /\ row = [j \in Job |-> NoRow]
    /\ pointer = [s \in Scope |-> NoJob]
    /\ project = [p \in Project |-> "active"]
    /\ fenced = {}
    /\ paused = {}

\* The steps of users, administrators and the clock.
ApiNext ==
    \/ \E j \in Job : Submit(j) \/ RequestCancel(j)
    \/ \E p \in Project : DeleteProject(p) \/ RestoreProject(p) \/ PurgeProject(p)
    \/ \E b \in Batch : CancelBatch(b)
    \/ \E q \in Queue : SetPaused(q)
    \/ Tick
=============================================================================
