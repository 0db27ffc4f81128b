\* The gateway: a text and an embedding request of one job, three calls, a credit and a deduction. A worker
\* process: three jobs, two slots that may be lent, four executions.
SPECIFICATION ProcessesSpec
CONSTANTS
    r1 = r1  r2 = r2  j1 = j1  a1 = a1  a2 = a2  k1 = k1
    Request = {r1, r2}
    Embedding = {r2}
    Job = {j1}
    JobOf <- OneJob
    Amount <- Amounts
    MaxUnit = 2
    MaxAttempts = 3
    Admin = {a1, a2}
    KeyOf <- OwnKey
    Adds <- CreditAndDeduction
    Call = {c1, c2, c3}
    Cost = {1, 3}
    SlotJob = {s1, s2, s3}
    MaxWorkers = 2
    ImageOnly = FALSE
    Outages = TRUE
    MaxRuns = 4
INVARIANTS
    BillingTypeOK HoldsAreReserved BalanceIsLedger OverdrawnByOverrunsOnly
    OneAttemptStreams ChargedOnce
    SlotsTypeOK NoLostSlot
PROPERTY KeepsChargeContract
SYMMETRY CallsAndJobs
CHECK_DEADLOCK FALSE
