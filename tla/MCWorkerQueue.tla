---------------------------- MODULE MCWorkerQueue ----------------------------
(* Small instances of WorkerQueue. *)
EXTENDS WorkerQueue, TLC

CONSTANTS j1, j2, j3, u1, u2, p1, b1, s1, s2, s3, w1, w2, g1

\* Fencing: one project job, two workers.
FencingJobs     == {j1}
FencingOwner    == [j \in FencingJobs |-> u1]
FencingQueue    == [j \in FencingJobs |-> "scientific"]
FencingProject  == [j \in FencingJobs |-> p1]
FencingScope    == [j \in FencingJobs |-> s1]
FencingGroup    == [j \in FencingJobs |-> NoGroup]
FencingBatch    == [j \in FencingJobs |-> NoBatch]
FencingParent   == [j \in FencingJobs |-> NoJob]
FencingSupports == [w \in Worker |-> FencingJobs]

\* Planning: a matrix job, its planner behind it, and a second matrix job in
\* the scope of the first.
PlanningJobs     == {j1, j2, j3}
PlanningOwner    == [j \in PlanningJobs |-> u1]
PlanningQueue    == [j \in PlanningJobs |-> "scientific"]
PlanningProject  == [j \in PlanningJobs |-> p1]
PlanningScope    == (j1 :> s1) @@ (j2 :> s2) @@ (j3 :> s1)
PlanningGroup    == [j \in PlanningJobs |-> g1]
PlanningBatch    == [j \in PlanningJobs |-> NoBatch]
PlanningParent   == [j \in PlanningJobs |-> NoJob]
PlanningSupports == [w \in Worker |-> PlanningJobs]

\* Lane: two library jobs of one user on one queue.
LaneJobs     == {j1, j2}
LaneOwner    == [j \in LaneJobs |-> u1]
LaneQueue    == [j \in LaneJobs |-> "ingest"]
LaneProject  == [j \in LaneJobs |-> NoProject]
LaneScope    == (j1 :> s1) @@ (j2 :> s2)
LaneGroup    == [j \in LaneJobs |-> NoGroup]
LaneBatch    == [j \in LaneJobs |-> NoBatch]
LaneParent   == [j \in LaneJobs |-> NoJob]
LaneSupports == [w \in Worker |-> LaneJobs]
=============================================================================
