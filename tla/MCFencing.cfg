\* One project job, two workers, clocks that may be one tick old.
SPECIFICATION FairSpec
CONSTANTS
    j1 = j1
    j2 = j2
    j3 = j3
    u1 = u1
    u2 = u2
    p1 = p1
    b1 = b1
    s1 = s1
    s2 = s2
    s3 = s3
    w1 = w1
    w2 = w2
    g1 = g1
    NoProject = NoProject
    NoGroup = NoGroup
    NoBatch = NoBatch
    NoJob = NoJob
    Job <- FencingJobs
    User = {u1}
    Queue = {"scientific"}
    Project = {p1}
    Scope = {s1}
    Batch = {}
    JobOwner <- FencingOwner
    JobQueue <- FencingQueue
    JobProject <- FencingProject
    JobScope <- FencingScope
    JobGroup <- FencingGroup
    JobBatch <- FencingBatch
    JobParent <- FencingParent
    Upload = {}
    UploadCap = 1
    Dispatch = {}
    ModelQueue = "model"
    TextParallelism = 1
    Lease = 2
    Delay = {0, 1}
    TxLag = 1
    MaxGeneration = 3
    Worker = {w1, w2}
    Supports <- FencingSupports
INVARIANTS TypeOK RowsConsistent DeletedProjectsAreQuiet OneWriter
PROPERTIES KeepsContract CancellationSettles OrphansRecover
