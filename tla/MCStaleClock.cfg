\* Two jobs of one user, transactions whose clock may be one tick old.
SPECIFICATION Spec
CONSTANTS
    j1 = j1
    j2 = j2
    j3 = j3
    u1 = u1
    u2 = u2
    p1 = p1
    b1 = b1
    s1 = s1
    s2 = s2
    s3 = s3
    w1 = w1
    w2 = w2
    g1 = g1
    NoProject = NoProject
    NoGroup = NoGroup
    NoBatch = NoBatch
    NoJob = NoJob
    Job <- LaneJobs
    User = {u1}
    Queue = {"ingest"}
    Project = {}
    Scope = {s1, s2}
    Batch = {}
    JobOwner <- LaneOwner
    JobQueue <- LaneQueue
    JobProject <- LaneProject
    JobScope <- LaneScope
    JobGroup <- LaneGroup
    JobBatch <- LaneBatch
    JobParent <- LaneParent
    Upload = {}
    UploadCap = 1
    Dispatch = {}
    ModelQueue = "model"
    TextParallelism = 1
    Lease = 2
    Delay = {0}
    TxLag = 1
    MaxGeneration = 1
    Worker = {w1, w2}
    Supports <- LaneSupports
INVARIANTS LeasesWithinLimit
