-------------------------- MODULE WorkerSlotsProofs --------------------------
(***************************************************************************)
(* A worker never loses a slot (NoLostSlot), for every number of jobs,     *)
(* slots and executions.  What the code records under the id of a job is   *)
(* an execution of that job, so no two of the jobs it counts stand for the *)
(* same execution and it never counts more than are unfinished.            *)
(***************************************************************************)
EXTENDS WorkerSlots, FiniteSetTheorems, SequenceTheorems, TLAPS

RecordsMatch == \A j \in SlotJob : futures[j] # 0 => run[futures[j]].job = j

SlotsInv == SlotsTypeOK /\ RecordsMatch

Execution == [job : SlotJob, at : RunPlace, waits : BOOLEAN]

\* An execution that moves leaves the list of executions well formed and every
\* execution on its job.
LEMMA RunMoved ==
    ASSUME SlotsTypeOK, NEW r \in DOMAIN run, NEW place \in RunPlace, NEW waits \in BOOLEAN
    PROVE  /\ run[r].job \in SlotJob /\ run[r].waits \in BOOLEAN
           /\ Moved(r, place, waits) \in Seq(Execution)
           /\ Len(Moved(r, place, waits)) = Len(run)
           /\ \A s \in DOMAIN run : Moved(r, place, waits)[s].job = run[s].job
<1>1. run \in Seq(Execution)
  BY DEF SlotsTypeOK, Execution
<1>2. run[r] \in Execution
  BY <1>1, ElementOfSeq
<1>3. [job |-> run[r].job, at |-> place, waits |-> waits] \in Execution
  BY <1>2 DEF Execution
<1>4. run[r].job \in SlotJob /\ run[r].waits \in BOOLEAN
  BY <1>2 DEF Execution
<1>5. /\ Moved(r, place, waits) \in Seq(Execution)
      /\ Len(Moved(r, place, waits)) = Len(run)
  BY <1>1, <1>3, ExceptSeq DEF Moved
<1>6. \A s \in DOMAIN run : Moved(r, place, waits)[s].job = run[s].job
  BY <1>1 DEF Moved
<1> QED
  BY <1>4, <1>5, <1>6

\* The outcome of an execution is a holder like any other.
LEMMA SettledType ==
    ASSUME SlotsTypeOK, NEW r, NEW after \in {Ended, Nobody}
    PROVE  Settled(r, after) \in [SlotJob -> {Ended, Nobody} \cup 1..MaxRuns]
BY DEF Settled, SlotsTypeOK

\* A step that moves one execution and touches _futures, if at all, by dropping
\* the entry of its job keeps the records matched.
LEMMA MoveKeeps ==
    ASSUME SlotsInv, NEW r \in DOMAIN run, NEW place \in RunPlace, NEW waits \in BOOLEAN,
           run' = Moved(r, place, waits),
           holder' \in [SlotJob -> {Ended, Nobody} \cup 1..MaxRuns],
           futures' \in {futures, [futures EXCEPT ![run[r].job] = 0]},
           waiting' \in {waiting, waiting \ {run[r].job}, waiting \cup {run[r].job}}
    PROVE  SlotsInv'
<1> USE DEF SlotsInv
<1>1. /\ run[r].job \in SlotJob
      /\ run' \in Seq(Execution)
      /\ Len(run') = Len(run)
      /\ \A s \in DOMAIN run : run'[s].job = run[s].job
  BY RunMoved
<1>2. /\ futures \in [SlotJob -> 0..Len(run)] /\ Len(run) \in Nat /\ Len(run) <= MaxRuns
      /\ waiting \subseteq SlotJob /\ DOMAIN run = 1..Len(run)
  BY DEF SlotsTypeOK
<1>3. futures' \in [SlotJob -> 0..Len(run')]
  BY <1>1, <1>2
<1>4. waiting' \subseteq SlotJob
  BY <1>1, <1>2
<1>5. SlotsTypeOK'
  BY <1>1, <1>2, <1>3, <1>4 DEF SlotsTypeOK, Execution
<1>6. ASSUME NEW j \in SlotJob, futures'[j] # 0 PROVE run'[futures'[j]].job = j
  <2>1. futures'[j] = futures[j] /\ futures[j] \in DOMAIN run
    BY <1>2, <1>6
  <2> QED
    BY <1>1, <1>6, <2>1 DEF RecordsMatch
<1>7. RecordsMatch'
  BY <1>6 DEF RecordsMatch
<1> QED
  BY <1>5, <1>7

\* Every step of the worker keeps its records matched.
LEMMA SlotsInductive == SlotsInv /\ [SlotsNext]_slotsVars => SlotsInv'
<1> SUFFICES ASSUME SlotsInv, [SlotsNext]_slotsVars PROVE SlotsInv'
  OBVIOUS
<1> USE WorkerSlotsAssumption DEF SlotsInv
<1>0. holder \in [SlotJob -> {Ended, Nobody} \cup 1..MaxRuns]
  BY DEF SlotsTypeOK
<1>1. ASSUME NEW j \in SlotJob, Claim(j) PROVE SlotsInv'
  <2> DEFINE new == [job |-> j, at |-> "pooled", waits |-> FALSE]
  <2>1. run \in Seq(Execution) /\ new \in Execution
    BY DEF SlotsTypeOK, Execution, RunPlace
  <2>2. run' = Append(run, new)
    BY <1>1 DEF Claim
  <2>3. /\ run' \in Seq(Execution)
        /\ Len(run') = Len(run) + 1
        /\ \A s \in DOMAIN run : run'[s] = run[s]
        /\ run'[Len(run) + 1] = new
    BY <2>1, <2>2
  <2>4. /\ futures \in [SlotJob -> 0..Len(run)] /\ Len(run) \in Nat
        /\ waiting \subseteq SlotJob /\ DOMAIN run = 1..Len(run)
    BY DEF SlotsTypeOK
  <2>5. SlotsTypeOK'
    BY <1>0, <1>1, <2>3, <2>4 DEF Claim, SlotsTypeOK, Execution
  <2>6. ASSUME NEW i \in SlotJob, futures'[i] # 0 PROVE run'[futures'[i]].job = i
    <3>1. CASE i = j
      BY <1>1, <2>3, <2>4, <3>1 DEF Claim
    <3>2. CASE i # j
      <4>1. futures'[i] = futures[i] /\ futures[i] \in DOMAIN run
        BY <1>1, <2>4, <2>6, <3>2 DEF Claim
      <4> QED
        BY <2>3, <2>6, <4>1 DEF RecordsMatch
    <3> QED
      BY <3>1, <3>2
  <2> QED
    BY <2>5, <2>6 DEF RecordsMatch
<1>2. ASSUME NEW j \in SlotJob, LeaseExpires(j) PROVE SlotsInv'
  BY <1>2 DEF LeaseExpires, SlotsTypeOK, RecordsMatch
<1>3. ASSUME NEW r \in DOMAIN run, NEW enters \in BOOLEAN, Start(r, enters) PROVE SlotsInv'
  <2>1. (IF enters THEN "running" ELSE "closing") \in RunPlace
    BY DEF RunPlace
  <2> QED
    BY <1>0, <1>3, <2>1, MoveKeeps, SettledType DEF Start
<1>4. ASSUME NEW r \in DOMAIN run, ModelWait(r) PROVE SlotsInv'
  <2>1. "running" \in RunPlace /\ FALSE \in BOOLEAN
    BY DEF RunPlace
  <2>2. run[r].waits \in BOOLEAN
    BY <2>1, RunMoved
  <2> QED
    BY <1>0, <1>4, <2>1, <2>2, MoveKeeps DEF ModelWait
<1>5. ASSUME NEW r \in DOMAIN run, NEW yields \in BOOLEAN, Close(r, yields) PROVE SlotsInv'
  <2>1. "closing" \in RunPlace /\ (IF yields THEN Nobody ELSE Ended) \in {Ended, Nobody}
    BY DEF RunPlace
  <2> QED
    BY <1>5, <2>1, MoveKeeps, SettledType DEF Close
<1>6. ASSUME NEW r \in DOMAIN run, FutureDone(r) PROVE SlotsInv'
  <2>1. "done" \in RunPlace
    BY DEF RunPlace
  <2> QED
    BY <1>0, <1>6, <2>1, MoveKeeps DEF FutureDone
<1>7. ASSUME NEW r \in DOMAIN run, Forget(r) PROVE SlotsInv'
  <2>1. "forgotten" \in RunPlace
    BY DEF RunPlace
  <2> QED
    BY <1>0, <1>7, <2>1, MoveKeeps DEF Forget
<1>8. ASSUME UNCHANGED slotsVars PROVE SlotsInv'
  BY <1>8 DEF slotsVars, SlotsTypeOK, RecordsMatch
<1> QED
  BY <1>1, <1>2, <1>3, <1>4, <1>5, <1>6, <1>7, <1>8 DEF SlotsNext

\* The unfinished executions are finitely many.
LEMMA UnfinishedFinite == SlotsInv => IsFiniteSet(Unfinished)
<1> SUFFICES ASSUME SlotsInv PROVE IsFiniteSet(Unfinished)
  OBVIOUS
<1>1. Len(run) \in Nat /\ Unfinished \in SUBSET (1..Len(run))
  BY DEF Unfinished, Runs, SlotsInv, SlotsTypeOK
<1>2. IsFiniteSet(1..Len(run))
  BY <1>1, FS_Interval
<1> QED
  BY <1>1, <1>2, FS_Subset

\* The jobs that are counted are no more than the executions that are unfinished.
LEMMA CountedAreUnfinished ==
    ASSUME SlotsInv PROVE /\ IsFiniteSet(ActiveJobs)
                          /\ Cardinality(ActiveJobs) <= Cardinality(Unfinished)
<1> DEFINE f == [j \in ActiveJobs |-> futures[j]]
<1>1. Unfinished \subseteq 1..Len(run) /\ Len(run) \in Nat
  BY DEF Unfinished, Runs, SlotsInv, SlotsTypeOK
<1>2. IsFiniteSet(Unfinished)
  BY UnfinishedFinite
<1>3. f \in Injection(ActiveJobs, Unfinished)
  <2>1. f \in [ActiveJobs -> Unfinished]
    BY DEF ActiveJobs
  <2>2. \A i, j \in ActiveJobs : f[i] = f[j] => i = j
    BY <1>1 DEF ActiveJobs, SlotsInv, RecordsMatch
  <2> QED
    BY <2>1, <2>2 DEF Injection, IsInjective
<1> QED
  BY <1>2, <1>3, FS_Injection

\* The initial records are matched.
LEMMA SlotsInitially == SlotsInit => SlotsInv
BY WorkerSlotsAssumption DEF SlotsInit, SlotsInv, SlotsTypeOK, RecordsMatch, Nobody, Ended

\* The worker's records keep their types.
THEOREM SlotsTypeCorrect == SlotsSpec => []SlotsTypeOK
<1>1. SlotsInv => SlotsTypeOK
  BY DEF SlotsInv
<1> QED
  BY <1>1, SlotsInitially, SlotsInductive, PTL DEF SlotsSpec

\* A worker with fewer than max_workers unfinished executions claims.
THEOREM SlotsAreNotLost == SlotsSpec => []NoLostSlot
<1>1. SlotsInv => NoLostSlot
  <2> SUFFICES ASSUME SlotsInv, Cardinality(Unfinished) < MaxWorkers PROVE CanClaim
    BY DEF NoLostSlot
  <2>1. Cardinality(ActiveJobs) < MaxWorkers
    <3>2. Cardinality(Unfinished) \in Nat
      BY UnfinishedFinite, FS_CardinalityType
    <3>3. Cardinality(ActiveJobs) \in Nat
      BY CountedAreUnfinished, FS_CardinalityType
    <3> QED
      BY <3>2, <3>3, CountedAreUnfinished, WorkerSlotsAssumption
  <2>2. Cardinality(ActiveJobs) \in Nat /\ Cardinality(ActiveJobs \cap waiting) \in Nat
    BY CountedAreUnfinished, FS_CardinalityType, FS_Subset, ActiveJobs \cap waiting \subseteq ActiveJobs
  <2>3. MaxWorkers <= MaxTotal
    BY WorkerSlotsAssumption DEF MaxTotal
  <2>4. MaxTotal \in Nat
    BY WorkerSlotsAssumption DEF MaxTotal
  <2> QED
    BY <2>1, <2>2, <2>3, <2>4, WorkerSlotsAssumption DEF CanClaim
<1> QED
  BY <1>1, SlotsInitially, SlotsInductive, PTL DEF SlotsSpec
=============================================================================
