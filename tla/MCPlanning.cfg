\* Two matrix jobs and their planner in one project.
SPECIFICATION Spec
CONSTANTS
    j1 = j1
    j2 = j2
    j3 = j3
    u1 = u1
    u2 = u2
    p1 = p1
    b1 = b1
    s1 = s1
    s2 = s2
    s3 = s3
    w1 = w1
    w2 = w2
    g1 = g1
    NoProject = NoProject
    NoGroup = NoGroup
    NoBatch = NoBatch
    NoJob = NoJob
    Job <- PlanningJobs
    User = {u1}
    Queue = {"scientific"}
    Project = {p1}
    Scope = {s1, s2}
    Batch = {}
    JobOwner <- PlanningOwner
    JobQueue <- PlanningQueue
    JobProject <- PlanningProject
    JobScope <- PlanningScope
    JobGroup <- PlanningGroup
    JobBatch <- PlanningBatch
    JobParent <- PlanningParent
    Upload = {}
    UploadCap = 1
    Dispatch = {}
    ModelQueue = "model"
    TextParallelism = 1
    Lease = 1
    Delay = {0}
    TxLag = 0
    MaxGeneration = 2
    Worker = {w1}
    Supports <- PlanningSupports
INVARIANTS GroupsRunInOrder OneUnfinishedPerScope
