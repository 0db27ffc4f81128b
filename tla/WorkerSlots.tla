----------------------------- MODULE WorkerSlots -----------------------------
(***************************************************************************)
(* The slots of one worker process: how WorkerService counts the jobs it   *)
(* runs before it claims another one.  The poll loop records each claimed  *)
(* job under its id in _futures; a pool of max_total_workers threads runs  *)
(* the executions; a job that waits for a model call lends its slot to     *)
(* another one.  WorkerQueue is about one execution and its lease; here an *)
(* execution is only its place in the pool and the job table only says     *)
(* which jobs a claim may return.                                          *)
(*                                                                         *)
(* An operator marked Faulty is no part of the model: it is its neighbour  *)
(* with a plausible bug, and shows that a property can fail.               *)
(***************************************************************************)
EXTENDS Integers, FiniteSets, Sequences

CONSTANTS
    SlotJob,
    MaxWorkers,       \* max_workers
    ImageOnly,        \* the worker serves the image queue alone
    Outages,          \* the database may be out of reach for as long as a lease
    MaxRuns           \* bound: executions of the process

ASSUME WorkerSlotsAssumption ==
    MaxWorkers \in Nat \ {0} /\ {ImageOnly, Outages} \subseteq BOOLEAN /\ MaxRuns \in Nat

VARIABLES
    holder,           \* jobs to the execution that holds their lease, Nobody or Ended
    run,              \* the executions, oldest first: job, place, in a model call
    futures,          \* _futures: jobs to the execution recorded for them, 0 for none
    waiting           \* _waiting_model_jobs

slotsVars == <<holder, run, futures, waiting>>

\* A claim may return a job that nobody holds: queued and due, or its lease expired.
Nobody == 0
Ended  == -1

\* pooled: in the pool's queue; running: in the handler; closing: its outcome is
\* in the database and the thread joins its heartbeat; done: the future is done
\* and its callback is yet to come; forgotten: the callback has run.
RunPlace == {"pooled", "running", "closing", "done", "forgotten"}

MaxTotal == IF ImageOnly THEN MaxWorkers
            ELSE MaxWorkers + (IF MaxWorkers < 4 THEN MaxWorkers ELSE 4)

Runs(places) == {r \in DOMAIN run : run[r].at \in places}

Unfinished == Runs({"pooled", "running", "closing"})

\* Executions that use a slot of their own: unfinished and not in a model call.
Working == {r \in Unfinished : ~run[r].waits}

\* Faulty: finished futures are counted until they are forgotten.
ActiveJobsUnfiltered == {j \in SlotJob : futures[j] # 0}

\* _activity_counts: the recorded jobs whose future is not done.
ActiveJobs == {j \in SlotJob : futures[j] \in Unfinished}

CanClaim ==
    /\ Cardinality(ActiveJobs) < MaxTotal
    /\ Cardinality(ActiveJobs) - Cardinality(ActiveJobs \cap waiting) < MaxWorkers

\* Execution r is somewhere else in the pool, or begins or ends a model call.
Moved(r, place, waits) == [run EXCEPT ![r] = [job |-> run[r].job, at |-> place, waits |-> waits]]

SlotsInit ==
    /\ holder = [j \in SlotJob |-> Nobody]
    /\ run = << >>
    /\ futures = [j \in SlotJob |-> 0]
    /\ waiting = {}

-----------------------------------------------------------------------------
\* run_forever: claim_next_job returns j, which is handed to the pool and recorded.
Claim(j) ==
    /\ Len(run) < MaxRuns
    /\ CanClaim
    /\ holder[j] = Nobody
    /\ holder' = [holder EXCEPT ![j] = Len(run) + 1]
    /\ run' = Append(run, [job |-> j, at |-> "pooled", waits |-> FALSE])
    /\ futures' = [futures EXCEPT ![j] = Len(run) + 1]
    /\ UNCHANGED waiting

\* The outcome of execution r, written only if the lease is still its own.
Settled(r, after) ==
    [j \in SlotJob |-> IF j = run[r].job /\ holder[j] = r THEN after ELSE holder[j]]

\* A thread of the pool takes the oldest execution from the queue, which enters
\* the handler, or is refused by the checkpoint before it and ends.
Start(r, enters) ==
    /\ run[r].at = "pooled" /\ \A s \in Runs({"pooled"}) : r <= s
    /\ Cardinality(Runs({"running", "closing", "done"})) < MaxTotal
    /\ run' = Moved(r, IF enters THEN "running" ELSE "closing", FALSE)
    /\ holder' = IF enters THEN holder ELSE Settled(r, Ended)
    /\ UNCHANGED <<futures, waiting>>

\* report_model_waiting: _set_model_waiting under the id of the job.
ModelWait(r) ==
    /\ run[r].at = "running"
    /\ run' = Moved(r, "running", ~run[r].waits)
    /\ waiting' = IF run[r].waits THEN waiting \ {run[r].job} ELSE waiting \cup {run[r].job}
    /\ UNCHANGED <<holder, futures>>

\* The heartbeats of a job fail for as long as its lease.
LeaseExpires(j) ==
    /\ Outages
    /\ holder[j] \notin {Nobody, Ended}
    /\ holder' = [holder EXCEPT ![j] = Nobody]
    /\ UNCHANGED <<run, futures, waiting>>

\* The handler leaves bind_model_wait_callback and, if the lease is still its
\* own, the execution writes its outcome: a job that yields is queued again.
Close(r, yields) ==
    /\ run[r].at = "running"
    /\ run' = Moved(r, "closing", FALSE)
    /\ holder' = Settled(r, IF yields THEN Nobody ELSE Ended)
    /\ waiting' = waiting \ {run[r].job}
    /\ UNCHANGED futures

\* _execute has joined the heartbeat and returns.
FutureDone(r) ==
    /\ run[r].at = "closing"
    /\ run' = Moved(r, "done", FALSE)
    /\ UNCHANGED <<holder, futures, waiting>>

\* Faulty: the entry is kept and marked.
ForgetMarks(r) ==
    /\ run[r].at = "done"
    /\ run' = Moved(r, "forgotten", FALSE)
    /\ futures' = [futures EXCEPT ![run[r].job] = -1]
    /\ waiting' = waiting \ {run[r].job}
    /\ UNCHANGED holder

\* _forget: whatever is recorded under the id of the job is dropped.
Forget(r) ==
    /\ run[r].at = "done"
    /\ run' = Moved(r, "forgotten", FALSE)
    /\ futures' = [futures EXCEPT ![run[r].job] = 0]
    /\ waiting' = waiting \ {run[r].job}
    /\ UNCHANGED holder

SlotsNext ==
    \/ \E j \in SlotJob : Claim(j) \/ LeaseExpires(j)
    \/ \E r \in DOMAIN run :
          \/ \E enters \in BOOLEAN : Start(r, enters)
          \/ ModelWait(r)
          \/ \E yields \in BOOLEAN : Close(r, yields)
          \/ FutureDone(r) \/ Forget(r)

SlotsSpec == SlotsInit /\ [][SlotsNext]_slotsVars

-----------------------------------------------------------------------------
\* Types of the worker's records.
SlotsTypeOK ==
    /\ holder \in [SlotJob -> {Ended, Nobody} \cup 1..MaxRuns]
    /\ run \in Seq([job : SlotJob, at : RunPlace, waits : BOOLEAN]) /\ Len(run) <= MaxRuns
    /\ futures \in [SlotJob -> 0..Len(run)]
    /\ waiting \subseteq SlotJob

\* No slot is lost: a worker with fewer than max_workers unfinished executions
\* claims the next job, whatever it claimed, lent, lost and forgot before, in
\* whatever order the threads and their callbacks ran.
NoLostSlot == Cardinality(Unfinished) < MaxWorkers => CanClaim

\* A slot is lent only by a job that is in a model call: a worker claims only
\* while fewer than max_workers of its executions are working.
ClaimsHaveRoom ==
    [][Len(run') > Len(run) => Cardinality(Working) < MaxWorkers]_slotsVars
=============================================================================
