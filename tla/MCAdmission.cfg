\* Uploads of two users under a cap of one; a parent and its two model calls,
\* one model call at a time.
SPECIFICATION AdmissionSpec
CONSTANTS
    upload1 = upload1
    upload2 = upload2
    parent = parent
    call1 = call1
    call2 = call2
    u1 = u1
    u2 = u2
    b1 = b1
    w1 = w1
    w2 = w2
    NoProject = NoProject
    NoGroup = NoGroup
    NoBatch = NoBatch
    NoJob = NoJob
    Job <- MCJob
    User = {u1, u2}
    Queue = {"ingest", "scientific", "model"}
    Project = {}
    Scope = {upload1, upload2, parent, call1, call2}
    Batch = {b1}
    JobOwner <- Owner
    JobQueue <- QueueOf
    JobProject <- ProjectOf
    JobScope <- ScopeOf
    JobGroup <- GroupOf
    JobBatch <- BatchOf
    JobParent <- ParentOf
    Upload = {upload1, upload2}
    UploadCap = 1
    Dispatch = {call1, call2}
    ModelQueue = "model"
    TextParallelism = 1
    Lease = 1
    Delay = {1}
    TxLag = 0
    MaxGeneration = 1
    Worker = {w1, w2}
    Supports <- SupportedBy
INVARIANTS UploadsWithinCap LeasesWithinLimit
PROPERTIES CancelledBatchStartsNothing
